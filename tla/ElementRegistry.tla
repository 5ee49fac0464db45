--------------------------- MODULE ElementRegistry ---------------------------
(***************************************************************************)
(* The uids of the tabs' elements (dom/registry.py, ElementRegistry): one  *)
(* store in the page's heap per document, behind one handle, built by the  *)
(* first operation that finds none and used under one lock per tab.        *)
(*                                                                         *)
(* Calls of the tools (dom/capture.py, dom/identity.py) run concurrently,  *)
(* navigations destroy the documents under them, the tab's                 *)
(* domcontentloaded callback retires the handle between any two awaits,    *)
(* and a close disposes of the registry without the lock.                  *)
(*                                                                         *)
(* A document is a number, never used again by any tab; browser events are *)
(* taken when the server hears them, in the order of its one pipe.  A      *)
(* store is its place in the sequence of all that were built.  A release   *)
(* counts as made when it is handed to the driver.  0 is None.             *)
(***************************************************************************)
EXTENDS Integers, Sequences, FiniteSets

CONSTANTS
    Tabs,
    Calls,        \* tool calls, each made once
    Kind,         \* of a call: "read" or "act"
    Elements,     \* those a document may show
    UidBlock,     \* UID_BLOCK
    MaxDocuments, \* bound: documents of all tabs
    Busy          \* bound: the tabs whose page changes and which are closed

ASSUME RegistryConstants ==
    /\ IsFiniteSet(Tabs) /\ IsFiniteSet(Elements)
    /\ UidBlock \in Nat /\ UidBlock >= Cardinality(Elements)
    /\ Kind \in [Calls -> {"read", "act"}]
    /\ MaxDocuments \in Nat
    /\ Busy \subseteq Tabs

VARIABLES
    \* The server.
    handle,     \* of each tab: _handle
    retired,    \* of each tab: _retired
    lock,       \* of each tab: the calls at _lock, its holder first
    seed,       \* _uid_seeds
    call,       \* what each call is at
    life,       \* of each tab: open, or how far its close is
    \* The browser.
    shown,      \* of each tab: its document
    loading,    \* of each tab: domcontentloaded is to come
    connected,  \* of each document: the elements in it
    stores      \* every store built

serverVars == <<handle, retired, lock, seed, call, life>>
browserVars == <<shown, loading, connected, stores>>
vars == <<serverVars, browserVars>>

NoUid == -1
NoElement == <<0, 0>>
Idle == [pc |-> "idle", tab |-> 0, attempt |-> 0, runs |-> 0, ran |-> FALSE,
         at |-> 0, seed |-> 0, store |-> 0,   \* of the operation
         uid |-> NoUid, from |-> 0, meant |-> NoElement, hit |-> NoElement]

\* The awaits of a call that holds the lock.
Within == {"releasing", "building", "evaluating", "dropping"}
\* What comes of one: the stale-uid error, or anything else.
Ended == {"stale", "ended"}

Store(s) == stores[s]
\* Its document is still there, and no release took it from the page's heap.
Alive(s) == /\ Store(s).freed = 0
            /\ shown[Store(s).tab] = Store(s).doc
            /\ life[Store(s).tab] # "closed"

Init ==
    /\ handle = [t \in Tabs |-> 0]
    /\ retired = [t \in Tabs |-> <<>>]
    /\ lock = [t \in Tabs |-> <<>>]
    /\ seed = 0
    /\ call = [c \in Calls |-> Idle]
    /\ life = [t \in Tabs |-> "open"]
    /\ shown = CHOOSE d \in [Tabs -> 1..Cardinality(Tabs)] :
            \A t, u \in Tabs : d[t] = d[u] => t = u
    /\ loading = [t \in Tabs |-> FALSE]
    /\ connected = [d \in 1..Cardinality(Tabs) |-> Elements]
    /\ stores = <<>>

-----------------------------------------------------------------------------
(* Handles.  Freed(s): the release of s is handed to the driver. *)

Freed(s) == [stores EXCEPT ![s].freed = @ + 1]

\* The next of the handles that wait is released before anything is built.
MustRelease(t) == retired[t] # <<>>
Popped(t) == [retired EXCEPT ![t] = SubSeq(@, 1, Len(@) - 1)]
LastRetired(t) == retired[t][Len(retired[t])]

\* Fault: every store numbers from e0.
Following_Restarts(n) == n

\* A store numbers its elements from here on, and the next one from there.
Following(n) == n + UidBlock

\* Fault: forget() drops the handle.
Retire_Drops(t) == handle' = [handle EXCEPT ![t] = 0] /\ UNCHANGED retired

\* The retirement of forget(): no await, so no release.
Retire(t) ==
    /\ handle' = [handle EXCEPT ![t] = 0]
    /\ retired' = [retired EXCEPT ![t] = IF handle[t] = 0 THEN @ ELSE Append(@, handle[t])]

-----------------------------------------------------------------------------
(* A call of the registry. *)

Live(t) == life[t] # "closed"

\* Those at the lock of the tab but the call itself.
Others(c) ==
    LET queue == lock[call[c].tab]
        i == CHOOSE j \in DOMAIN queue : queue[j] = c
    IN SubSeq(queue, 1, i - 1) \o SubSeq(queue, i + 1, Len(queue))

\* Fault: the lock is not given back.
Leave_Holds(c) == UNCHANGED lock
Leave(c) == lock' = [lock EXCEPT ![call[c].tab] = Others(c)]
Is(c, pcs) == call[c].pc \in pcs
Moves(c, new) == call' = [call EXCEPT ![c] = new]
Ends(c, how) == Moves(c, [Idle EXCEPT !.pc = how]) /\ Leave(c)

\* Under the lock: the retired handles are released one await each, then the
\* handle that is there is used, or one is built with a seed of its own.
Proceed(c) ==
    LET t == call[c].tab
        Release == /\ MustRelease(t)
                   /\ retired' = Popped(t)
                   /\ stores' = Freed(LastRetired(t))
                   /\ Moves(c, [call[c] EXCEPT !.pc = "releasing"])
                   /\ UNCHANGED seed
        Use == /\ ~MustRelease(t) /\ handle[t] # 0
               /\ Moves(c, [call[c] EXCEPT !.pc = "evaluating", !.store = handle[t]])
               /\ UNCHANGED <<retired, stores, seed>>
        Build == /\ ~MustRelease(t) /\ handle[t] = 0
                 /\ seed' = Following(seed)
                 /\ Moves(c, [call[c] EXCEPT !.pc = "building", !.seed = seed, !.at = shown[t]])
                 /\ UNCHANGED <<retired, stores>>
    IN (Release \/ Use \/ Build) /\ UNCHANGED <<handle, lock, life, shown, loading, connected>>

\* A tool addresses the tab: to read it, or to act on an element whose uid it
\* was given there or elsewhere.
Start(c) ==
    /\ Is(c, {"idle"})
    /\ \E t \in Tabs :
        /\ life[t] = "open"
        /\ lock' = [lock EXCEPT ![t] = Append(@, c)]
        /\ \/ /\ Kind[c] = "read"
              /\ Moves(c, [Idle EXCEPT !.pc = "queued", !.tab = t, !.attempt = 1])
           \/ /\ Kind[c] = "act"
              /\ \E s \in DOMAIN stores : \E e \in Elements :
                  /\ Store(s).uids[e] # NoUid
                  /\ Moves(c, [Idle EXCEPT !.pc = "queued", !.tab = t, !.attempt = 1,
                        !.meant = <<Store(s).doc, e>>, !.from = s, !.uid = Store(s).uids[e]])
    /\ UNCHANGED <<handle, retired, seed, life, browserVars>>

\* Fault: the drain is not under the lock.
HasLock_Unlocked(c) == MustRelease(call[c].tab) \/ Head(lock[call[c].tab]) = c

\* asyncio.Lock is handed over in the order of arrival.
HasLock(c) == Head(lock[call[c].tab]) = c
Enter(c) == Is(c, {"queued"}) /\ HasLock(c) /\ Proceed(c)

\* A release is answered, fails, or runs out of DISPOSE_TIMEOUT: silent.
Released(c) == Is(c, {"releasing"}) /\ Proceed(c)

Built(c) ==
    /\ Is(c, {"building"}) /\ Live(call[c].tab)
    /\ LET t == call[c].tab
           s == Len(stores) + 1
       IN /\ stores' = Append(stores, [tab |-> t, doc |-> shown[t], n |-> call[c].seed,
                    uids |-> [e \in Elements |-> NoUid], table |-> {}, freed |-> 0,
                    overtaken |-> FALSE])
          /\ handle' = [handle EXCEPT ![t] = s]
          /\ Moves(c, [call[c] EXCEPT !.pc = "evaluating", !.store = s])
    /\ UNCHANGED <<retired, lock, seed, life, shown, loading, connected>>

\* 70_ops.js: a capture or a locate sweeps what is gone out of the table and
\* mints a uid for what it shows; an element known to the store keeps its own.
Mint(s) ==
    LET st == Store(s)
        here == connected[st.doc]
    IN \E seen \in SUBSET here :
        LET fresh == {e \in seen : st.uids[e] = NoUid}
            numbers == st.n .. st.n + Cardinality(fresh) - 1
        IN \E new \in [fresh -> numbers] :
            /\ \A e, f \in fresh : new[e] = new[f] => e = f
            /\ stores' = [stores EXCEPT ![s] = [st EXCEPT
                    !.n = st.n + Cardinality(fresh),
                    !.table = (st.table \cap here) \cup seen,
                    !.uids = [e \in Elements |-> IF e \in fresh THEN new[e] ELSE st.uids[e]]]]

\* 00_boot.js, pick: the connected element the table has under the uid.
Picked(s, uid) ==
    LET st == Store(s)
    IN {<<st.doc, e>> : e \in {f \in st.table \cap connected[st.doc] : st.uids[f] = uid}}

\* The page runs the operation.
Run(c) ==
    /\ Is(c, {"evaluating"}) /\ ~call[c].ran /\ Alive(call[c].store)
    /\ LET s == call[c].store
           ran == [call[c] EXCEPT !.ran = TRUE, !.runs = @ + 1]
       IN \/ Kind[c] = "read" /\ Mint(s) /\ Moves(c, ran)
          \/ /\ Kind[c] = "act"
             /\ IF Picked(s, call[c].uid) = {} THEN Moves(c, ran)
                ELSE \E e \in Picked(s, call[c].uid) : Moves(c, [ran EXCEPT !.hit = e])
             /\ UNCHANGED stores
    /\ UNCHANGED <<handle, retired, lock, seed, life, shown, loading, connected>>

\* Its answer: what was read or done, or "unknown", the stale-uid error.  It
\* may have been on its way when the document or the tab went.
Answered(c) ==
    /\ Is(c, {"evaluating"}) /\ call[c].ran
    /\ Ends(c, IF Kind[c] = "act" /\ call[c].hit = NoElement THEN "stale" ELSE "ended")
    /\ UNCHANGED <<handle, retired, seed, life, browserVars>>

\* TargetClosedError: dropped, not released.
TargetClosed(c) ==
    /\ Is(c, {"building", "evaluating"}) /\ ~Live(call[c].tab)
    /\ handle' = [handle EXCEPT ![call[c].tab] = 0]
    /\ Ends(c, "ended")
    /\ UNCHANGED <<retired, seed, life, browserVars>>

\* Fault: the time limit costs the tab its store.
Fails_Drops(c) ==
    /\ Is(c, {"building", "evaluating"})
    /\ Ends(c, "ended")
    /\ Retire(call[c].tab)
    /\ UNCHANGED <<seed, life, browserVars>>

\* The time limit, or an error that is none of the others (a handle the close
\* released under the call is one): the store stays.  An operation the page
\* comes to only after its time limit is left out.
Fails(c) ==
    /\ Is(c, {"building", "evaluating"})
    /\ Ends(c, "ended")
    /\ UNCHANGED <<handle, retired, seed, life, browserVars>>

\* "Execution context was destroyed": a navigation took the document.
ContextDied(c) ==
    /\ \/ Is(c, {"building"}) /\ shown[call[c].tab] # call[c].at
       \/ Is(c, {"evaluating"}) /\ shown[call[c].tab] # Store(call[c].store).doc
    /\ Live(call[c].tab)

\* Fault: an act is made again as a read is.
ReadsAgain_Acts(c) == call[c].attempt = 1

\* A pure read is made again once (capture.py, markup.py), an act never.
ReadsAgain(c) == Kind[c] = "read" /\ call[c].attempt = 1

\* DeadContextError at the caller, which a second operation of its own follows
\* or an answer: the stale-uid error, or that the page kept changing.
EndDead(c) ==
    \/ /\ ReadsAgain(c)
       /\ lock' = [lock EXCEPT ![call[c].tab] = Append(Others(c), c)]
       /\ Moves(c, [call[c] EXCEPT !.pc = "queued", !.attempt = 2, !.ran = FALSE])
    \/ /\ ~ReadsAgain(c)
       /\ Ends(c, IF Kind[c] = "act" THEN "stale" ELSE "ended")

\* _drop: the slot is emptied, and what it held is released in an await.
DeadContext(c) ==
    /\ ContextDied(c)
    /\ LET t == call[c].tab
       IN \/ /\ handle[t] # 0
             /\ handle' = [handle EXCEPT ![t] = 0]
             /\ stores' = Freed(handle[t])
             /\ Moves(c, [call[c] EXCEPT !.pc = "dropping"])
             /\ UNCHANGED lock
          \/ /\ handle[t] = 0
             /\ EndDead(c)
             /\ UNCHANGED <<handle, stores>>
    /\ UNCHANGED <<retired, seed, life, shown, loading, connected>>

Dropped(c) ==
    /\ Is(c, {"dropping"})
    /\ EndDead(c)
    /\ UNCHANGED <<handle, retired, seed, life, browserVars>>

\* A cancellation reaches a call at the lock or in any of its awaits.
Cancelled(c) ==
    /\ Is(c, {"queued"} \cup Within)
    /\ Ends(c, "ended")
    /\ UNCHANGED <<handle, retired, seed, life, browserVars>>

-----------------------------------------------------------------------------
(* The close of a tab: Page.close, dispose() and then the target. *)

\* dispose() takes no lock: the retired handles, then the one in the slot.
Dispose(t) ==
    /\ \/ /\ MustRelease(t)
          /\ retired' = Popped(t)
          /\ stores' = Freed(LastRetired(t))
          /\ life' = [life EXCEPT ![t] = "draining"]
          /\ UNCHANGED handle
       \/ /\ ~MustRelease(t) /\ handle[t] # 0
          /\ handle' = [handle EXCEPT ![t] = 0]
          /\ stores' = Freed(handle[t])
          /\ life' = [life EXCEPT ![t] = "leaving"]
          /\ UNCHANGED retired
       \/ /\ ~MustRelease(t) /\ handle[t] = 0
          /\ life' = [life EXCEPT ![t] = "leaving"]
          /\ UNCHANGED <<handle, retired, stores>>
    /\ UNCHANGED <<lock, seed, call, shown, loading, connected>>

Close(t) == life[t] = "open" /\ Dispose(t)
Drained(t) == life[t] = "draining" /\ Dispose(t)

\* The target is gone: closed, or crashed at any time before.
Gone(t) ==
    /\ Live(t)
    /\ life' = [life EXCEPT ![t] = "closed"]
    /\ UNCHANGED <<handle, retired, lock, seed, call, browserVars>>

-----------------------------------------------------------------------------
(* The page. *)

Navigate(t) ==
    /\ Live(t) /\ Len(connected) < MaxDocuments
    /\ shown' = [shown EXCEPT ![t] = Len(connected) + 1]
    /\ loading' = [loading EXCEPT ![t] = TRUE]
    /\ connected' = Append([connected EXCEPT ![shown[t]] = {}], Elements)
    /\ UNCHANGED <<serverVars, stores>>

\* domcontentloaded, and _on_loaded on it.
Loaded(t) ==
    /\ Live(t) /\ loading[t]
    /\ loading' = [loading EXCEPT ![t] = FALSE]
    /\ Retire(t)
    /\ stores' = [s \in DOMAIN stores |-> [Store(s) EXCEPT !.overtaken =
            @ \/ (s = handle[t] /\ Store(s).doc = shown[t])]]
    /\ UNCHANGED <<lock, seed, call, life, shown, connected>>

\* A script of the page takes an element out of the document, or puts it back.
Script(t) ==
    /\ Live(t)
    /\ \E e \in Elements : connected' = [connected EXCEPT ![shown[t]] =
            IF e \in @ THEN @ \ {e} ELSE @ \cup {e}]
    /\ UNCHANGED <<serverVars, shown, loading, stores>>

-----------------------------------------------------------------------------

Next ==
    \/ \E c \in Calls :
        \/ Start(c) \/ Enter(c) \/ Released(c) \/ Built(c) \/ Run(c) \/ Answered(c)
        \/ TargetClosed(c) \/ Fails(c) \/ DeadContext(c) \/ Dropped(c) \/ Cancelled(c)
    \/ \E t \in Busy : Close(t) \/ Drained(t) \/ Gone(t) \/ Navigate(t) \/ Loaded(t) \/ Script(t)

Spec == Init /\ [][Next]_vars

\* The event loop runs what is ready, and every await of a call has a limit
\* (bounded); the page owes no answer.
FairSpec == Spec /\ \A c \in Calls :
    WF_vars(Enter(c) \/ Released(c) \/ Fails(c) \/ Dropped(c))

-----------------------------------------------------------------------------
(* What the registry owes. *)

\* A uid acts on the element it was minted for or on none, whatever tab it is
\* used on, whatever documents came and went and however often the store of a
\* document was built anew (registry.py, UID_BLOCK).
NeverTheWrongElement ==
    \A c \in Calls : call[c].hit \in {NoElement, call[c].meant}

\* Nothing is abandoned or released twice: a store in the heap of a document
\* that an open tab shows is in the slot or retired, in one of them, and a
\* store that was released is in neither.
OneOwner ==
    \A s \in DOMAIN stores :
        LET t == Store(s).tab
            slot == IF handle[t] = s THEN 1 ELSE 0
            waiting == Cardinality({i \in DOMAIN retired[t] : retired[t][i] = s})
        IN /\ slot + waiting + Store(s).freed <= 1
           /\ life[t] = "open" /\ shown[t] = Store(s).doc =>
                slot + waiting + Store(s).freed = 1

\* forget: a release never overtakes an operation that is in flight on the
\* handle, except where the tab itself is being closed.
ReleaseOvertakesNone ==
    [][\A s \in DOMAIN stores : stores'[s].freed > Store(s).freed =>
        \/ life'[Store(s).tab] # "open"
        \/ \A c \in Calls : ~(call'[c].pc = "evaluating" /\ call'[c].store = s)]_vars

\* "Side effects must not be replayed": the page runs an act at most once,
\* also when its context dies after it ran and before it answered.
ActsRunOnce == \A c \in Calls : Kind[c] = "act" => call[c].runs <= 1

\* Of an act: the page did not know the uid, or its context was gone.
Refused(c) ==
    Kind[c] = "act" /\ (call[c].pc = "stale" \/ (call[c].ran /\ call[c].hit = NoElement))

\* The element is not there for the uid to name: another tab's or an earlier
\* document's, or one a script took out, before the act or at a capture.
IsLost(c) ==
    LET doc == call[c].meant[1]
        e == call[c].meant[2]
    IN \/ shown[call[c].tab] # doc \/ life[call[c].tab] # "open"
       \/ e \notin connected[doc]
       \/ e \notin Store(call[c].from).table

\* A call is told that a uid is stale only when it is: neither a failure nor a
\* time limit nor another call's cancellation costs the tab its uids.  The one
\* other cause is domcontentloaded, heard after the store was built.
StaleOnlyWhenLost ==
    [][\A c \in Calls : ~Refused(c) /\ Refused(c)' =>
        IsLost(c) \/ Store(call[c].from).overtaken]_vars

\* The same without that cause: "only a genuinely dead context earns" the loss
\* of a store (registry.py, call), as "this event only ever announces a new
\* document" (page.py, _on_loaded).
UidsLastAsLongAsTheDocument ==
    [][\A c \in Calls : ~Refused(c) /\ Refused(c)' => IsLost(c)]_vars

\* A page that never answers, also to a release, holds neither a call nor the
\* lock for ever (waiting.py, OP_TIMEOUT and DISPOSE_TIMEOUT).
EveryCallEnds == <>[](\A c \in Calls : Is(c, {"idle"} \cup Ended))
=============================================================================
