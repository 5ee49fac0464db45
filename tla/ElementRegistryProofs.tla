------------------------ MODULE ElementRegistryProofs ------------------------
(***************************************************************************)
(* A uid names its own element or none, every store has one owner, nothing *)
(* is released under an operation or replayed, and no uid is refused that  *)
(* is not lost: for any number of tabs, calls, elements and documents.     *)
(*                                                                         *)
(* The argument has four layers, each an invariant that the next one uses: *)
(* the types; the lock, which one call of a tab works under; the owners of *)
(* the stores, whose slot only that call fills; and the uids, which every  *)
(* store takes from a block of its own.                                    *)
(***************************************************************************)
EXTENDS ElementRegistry, FiniteSetTheorems, SequenceTheorems, TLAPS

Pc == {"idle", "queued"} \cup Within \cup Ended
Waits(c) == Is(c, {"queued"} \cup Within)

StoreRecord ==
    [tab : Tabs, doc : Nat, n : Nat, uids : [Elements -> Nat \cup {NoUid}],
     table : SUBSET Elements, freed : Nat, overtaken : BOOLEAN]

Element == (Nat \X Elements) \cup {NoElement}

CallRecord ==
    [pc : Pc, tab : Tabs \cup {0}, attempt : Nat, runs : Nat, ran : BOOLEAN,
     at : Nat, seed : Nat, store : Nat, uid : Nat \cup {NoUid}, from : Nat,
     meant : Element, hit : Element]

TypeOK ==
    /\ handle \in [Tabs -> Nat]
    /\ retired \in [Tabs -> Seq(Nat)]
    /\ lock \in [Tabs -> Seq(Calls)]
    /\ seed \in Nat
    /\ call \in [Calls -> CallRecord]
    /\ life \in [Tabs -> {"open", "draining", "leaving", "closed"}]
    /\ shown \in [Tabs -> Nat]
    /\ loading \in [Tabs -> BOOLEAN]
    /\ connected \in Seq(SUBSET Elements)
    /\ stores \in Seq(StoreRecord)
    \* What refers to something refers to something there is.
    /\ \A t \in Tabs : handle[t] # 0 => handle[t] \in DOMAIN stores
    /\ \A t \in Tabs : \A i \in DOMAIN retired[t] : retired[t][i] \in DOMAIN stores
    /\ \A t \in Tabs : shown[t] \in DOMAIN connected
    /\ \A s \in DOMAIN stores : Store(s).doc \in DOMAIN connected
    /\ \A c \in Calls : Waits(c) => call[c].tab \in Tabs
    /\ \A c \in Calls : Is(c, {"evaluating"}) => call[c].store \in DOMAIN stores

-----------------------------------------------------------------------------
(* The lock. *)

\* A call is at the lock of its tab once, and first when it is within.
LockOK ==
    /\ \A t \in Tabs : \A i \in DOMAIN lock[t] :
          /\ Waits(lock[t][i])
          /\ call[lock[t][i]].tab = t
          /\ \A j \in DOMAIN lock[t] : lock[t][i] = lock[t][j] => i = j
    /\ \A c \in Calls : Waits(c) => \E i \in DOMAIN lock[call[c].tab] : lock[call[c].tab][i] = c
    /\ \A c \in Calls : Is(c, Within) => lock[call[c].tab][1] = c

-----------------------------------------------------------------------------
(* The owners of the stores. *)

\* A document is of one tab, and so are its stores.
DocumentsOK ==
    /\ \A t, u \in Tabs : shown[t] = shown[u] => t = u
    /\ \A s \in DOMAIN stores : \A t \in Tabs : shown[t] = Store(s).doc => Store(s).tab = t

\* Only the holder of the lock fills the slot, and until then it is its own.
SlotOK ==
    \A c \in Calls :
        /\ Is(c, {"building", "dropping"}) => handle[call[c].tab] = 0
        /\ Is(c, {"evaluating"}) =>
              /\ handle[call[c].tab] \in {0, call[c].store}
              /\ Store(call[c].store).tab = call[c].tab

Retired(s) == \E i \in DOMAIN retired[Store(s).tab] : retired[Store(s).tab][i] = s

\* What the slots and the lists of the retired hold is the tab's own, held
\* once and not released; what an open tab shows is held or released.
OwnersOK ==
    /\ \A t \in Tabs : handle[t] # 0 => Store(handle[t]).tab = t /\ Store(handle[t]).freed = 0
    /\ \A t \in Tabs : \A i \in DOMAIN retired[t] :
          /\ Store(retired[t][i]).tab = t
          /\ Store(retired[t][i]).freed = 0
          /\ retired[t][i] # handle[t]
          /\ \A j \in DOMAIN retired[t] : retired[t][i] = retired[t][j] => i = j
    /\ \A s \in DOMAIN stores :
          /\ Store(s).freed <= 1
          /\ life[Store(s).tab] = "open" /\ shown[Store(s).tab] = Store(s).doc =>
                Store(s).freed = 1 \/ handle[Store(s).tab] = s \/ Retired(s)

\* The store of the document that an open tab shows stays in the slot, unless
\* domcontentloaded was heard after it was built.
CurrentOK ==
    \A s \in DOMAIN stores :
        /\ life[Store(s).tab] = "open"
        /\ shown[Store(s).tab] = Store(s).doc
        /\ ~Store(s).overtaken
        => handle[Store(s).tab] = s

-----------------------------------------------------------------------------
(* The uids. *)

\* Of a store: what it has numbered, and the first number of its block.
Named(r) == {e \in Elements : r.uids[e] # NoUid}
Base(r) == r.n - Cardinality(Named(r))
Apart(m, n) == m + UidBlock <= n \/ n + UidBlock <= m

\* A store numbers its elements apart, in a block that no other store has and
\* no call that builds one was given.
NumbersOK(r) ==
    /\ Base(r) \in Nat /\ Base(r) + UidBlock <= seed
    /\ \A e \in Named(r) : r.uids[e] \in Base(r) .. r.n - 1
    /\ \A e, f \in Named(r) : r.uids[e] = r.uids[f] => e = f

UidsOK ==
    /\ \A s \in DOMAIN stores : NumbersOK(Store(s))
    /\ \A s, z \in DOMAIN stores : s # z => Apart(Base(Store(s)), Base(Store(z)))
    /\ \A c \in Calls : Is(c, {"building"}) =>
          /\ call[c].seed + UidBlock <= seed
          /\ \A s \in DOMAIN stores : Apart(call[c].seed, Base(Store(s)))
          /\ \A d \in Calls : Is(d, {"building"}) /\ c # d => Apart(call[c].seed, call[d].seed)

\* What an act names: an element, by the uid a store gave it.
NamesAnElement(r) ==
    /\ r.from \in DOMAIN stores
    /\ r.meant[2] \in Elements
    /\ r.meant = <<Store(r.from).doc, r.meant[2]>>
    /\ r.uid # NoUid
    /\ r.uid = Store(r.from).uids[r.meant[2]]

\* An act is made once, and has hit what it names if it hit anything.
ActOK(c, r) ==
    /\ Kind[c] = "act" /\ r.pc \in {"queued"} \cup Within =>
          NamesAnElement(r) /\ r.runs = IF r.ran THEN 1 ELSE 0
    /\ r.pc \notin {"queued"} \cup Within => r.runs = 0
    /\ r.hit \in {NoElement, r.meant}

ActsOK == \A c \in Calls : ActOK(c, call[c])

-----------------------------------------------------------------------------
(* What the steps do to the calls and to the queue. *)

\* A call moves alone.
LEMMA MovesOne ==
    ASSUME TypeOK, NEW c \in Calls, NEW new \in CallRecord, Moves(c, new)
    PROVE  /\ call' \in [Calls -> CallRecord]
           /\ call'[c] = new
           /\ \A d \in Calls : d # c => call'[d] = call[d]
BY DEF TypeOK, Moves

LEMMA EndIsARecord ==
    /\ Idle \in CallRecord
    /\ \A pc \in Ended : /\ [Idle EXCEPT !.pc = pc] \in CallRecord
                          /\ [Idle EXCEPT !.pc = pc].pc = pc
                          /\ [Idle EXCEPT !.pc = pc].runs = 0
                          /\ [Idle EXCEPT !.pc = pc].hit = NoElement
BY DEF Idle, CallRecord, Pc, Within, Ended, Element, NoElement, NoUid

\* The queue without the call: the others, in their order.
LEMMA OthersInOrder ==
    ASSUME TypeOK, LockOK, NEW c \in Calls, Waits(c)
    PROVE  LET queue == lock[call[c].tab]
           IN /\ call[c].tab \in Tabs
              /\ Others(c) \in Seq(Calls)
              /\ Len(Others(c)) = Len(queue) - 1
              /\ \E p \in 1..Len(queue) :
                    /\ queue[p] = c
                    /\ \A k \in 1..Len(queue) - 1 :
                          Others(c)[k] = IF k < p THEN queue[k] ELSE queue[k + 1]
<1> DEFINE queue == lock[call[c].tab]
           p == CHOOSE j \in DOMAIN queue : queue[j] = c
           before == SubSeq(queue, 1, p - 1)
           after == SubSeq(queue, p + 1, Len(queue))
<1>1. call[c].tab \in Tabs /\ queue \in Seq(Calls)
  BY DEF TypeOK
<1>2. Len(queue) \in Nat /\ DOMAIN queue = 1..Len(queue) /\ \A i \in 1..Len(queue) : queue[i] \in Calls
  BY <1>1, LenProperties, ElementOfSeq
<1>3. p \in 1..Len(queue) /\ queue[p] = c
  <2>1. \E j \in DOMAIN queue : queue[j] = c
    BY DEF LockOK
  <2>2. QED
    BY <1>2, <2>1
<1> HIDE DEF p, queue
<1>4. /\ before \in Seq(Calls) /\ Len(before) = p - 1
      /\ \A k \in 1..p - 1 : before[k] = queue[k]
  <2>1. \A i \in 1..p - 1 : queue[i] \in Calls
    BY <1>2, <1>3
  <2>2. QED
    BY <1>2, <1>3, <2>1, SubSeqProperties
<1>5. /\ after \in Seq(Calls) /\ Len(after) = Len(queue) - p
      /\ \A k \in 1..Len(queue) - p : after[k] = queue[p + k]
  <2>1. \A i \in p + 1..Len(queue) : queue[i] \in Calls
    BY <1>2, <1>3
  <2>2. /\ after \in Seq(Calls)
        /\ Len(after) = IF p + 1 <= Len(queue) THEN Len(queue) - (p + 1) + 1 ELSE 0
        /\ \A k \in 1..Len(queue) - (p + 1) + 1 : after[k] = queue[(p + 1) + k - 1]
    BY <1>2, <1>3, <2>1, SubSeqProperties
  <2>3. Len(queue) - (p + 1) + 1 = Len(queue) - p /\ \A k \in Nat : (p + 1) + k - 1 = p + k
    BY <1>2, <1>3
  <2>4. Len(after) = Len(queue) - p
    <3>1. CASE p + 1 <= Len(queue)
      BY <2>2, <2>3, <3>1
    <3>2. CASE ~(p + 1 <= Len(queue))
      <4>1. Len(queue) - p = 0
        <5> DEFINE n == Len(queue)
        <5>1. n \in Nat /\ p \in 1..n /\ ~(p + 1 <= n)
          BY <1>2, <1>3, <3>2
        <5> HIDE DEF n
        <5>2. n - p = 0
          BY <5>1
        <5>3. QED
          BY <5>2 DEF n
      <4>2. Len(after) = 0
        BY <2>2, <3>2
      <4>3. QED
        BY <4>1, <4>2
    <3>3. QED
      BY <3>1, <3>2
  <2>5. ASSUME NEW k \in 1..Len(queue) - p PROVE after[k] = queue[p + k]
    <3>1. k \in Nat
      OBVIOUS
    <3>2. after[k] = queue[(p + 1) + k - 1]
      BY <2>2, <2>3
    <3>3. QED
      BY <2>3, <3>1, <3>2
  <2>6. QED
    BY <2>2, <2>4, <2>5
<1> HIDE DEF before, after
<1>6. /\ before \o after \in Seq(Calls)
      /\ Len(before \o after) = Len(before) + Len(after)
      /\ \A k \in 1..Len(before) + Len(after) : (before \o after)[k] =
            IF k <= Len(before) THEN before[k] ELSE after[k - Len(before)]
  BY <1>4, <1>5, ConcatProperties
<1>7. \A k \in 1..Len(queue) - 1 :
        (before \o after)[k] = IF k < p THEN queue[k] ELSE queue[k + 1]
  <2> TAKE k \in 1..Len(queue) - 1
  <2>1. CASE k < p
    BY <1>2, <1>3, <1>4, <1>5, <1>6, <2>1
  <2>2. CASE ~(k < p)
    <3> DEFINE m == k - Len(before)
    <3>1. m \in 1..Len(queue) - p /\ p + m = k + 1
      BY <1>2, <1>3, <1>4, <2>2
    <3>2. (before \o after)[k] = after[m]
      BY <1>2, <1>3, <1>4, <1>5, <1>6, <2>2
    <3> HIDE DEF m
    <3>3. after[m] = queue[p + m]
      BY <1>5, <3>1
    <3>4. QED
      BY <2>2, <3>1, <3>2, <3>3
  <2>3. QED
    BY <2>1, <2>2
<1>8. Others(c) = before \o after
  BY DEF Others, before, after, p, queue
<1>9. QED
  <2>1. Others(c) \in Seq(Calls) /\ Len(Others(c)) = Len(queue) - 1
    <3>1. Len(before) + Len(after) = Len(queue) - 1
      <4>1. Len(before) = p - 1 /\ Len(after) = Len(queue) - p
        BY <1>4, <1>5
      <4>2. (p - 1) + (Len(queue) - p) = Len(queue) - 1
        BY <1>2, <1>3
      <4>3. QED
        BY <4>1, <4>2
    <3>2. QED
      BY <1>6, <1>8, <3>1
  <2>2. \A k \in 1..Len(queue) - 1 : Others(c)[k] = IF k < p THEN queue[k] ELSE queue[k + 1]
    BY <1>7, <1>8
  <2> USE DEF queue
  <2>3. QED
    BY <1>1, <1>3, <2>1, <2>2

\* The same, as a set: nothing is lost, doubled or overtaken.
LEMMA OthersOnly ==
    ASSUME TypeOK, LockOK, NEW c \in Calls, Waits(c)
    PROVE  LET queue == lock[call[c].tab]
           IN /\ call[c].tab \in Tabs
              /\ queue \in Seq(Calls)
              /\ Others(c) \in Seq(Calls)
              /\ \A k \in 1..Len(Others(c)) :
                    Others(c)[k] # c /\ \E i \in 1..Len(queue) : queue[i] = Others(c)[k]
              /\ \A k, l \in 1..Len(Others(c)) : Others(c)[k] = Others(c)[l] => k = l
              /\ \A i \in 1..Len(queue) :
                    queue[i] # c => \E k \in 1..Len(Others(c)) : Others(c)[k] = queue[i]
              /\ queue[1] # c => 1 \in 1..Len(Others(c)) /\ Others(c)[1] = queue[1]
<1> DEFINE queue == lock[call[c].tab]
           n == Len(queue)
           others == Others(c)
<1>1. /\ call[c].tab \in Tabs /\ queue \in Seq(Calls)
      /\ others \in Seq(Calls) /\ Len(others) = n - 1
      /\ \E p \in 1..n : /\ queue[p] = c
                         /\ \A k \in 1..n - 1 : others[k] = IF k < p THEN queue[k] ELSE queue[k + 1]
  BY OthersInOrder DEF TypeOK
<1>2. PICK p \in 1..n : /\ queue[p] = c
                        /\ \A k \in 1..n - 1 : others[k] = IF k < p THEN queue[k] ELSE queue[k + 1]
  BY <1>1
<1>3. \A i, j \in 1..n : queue[i] = queue[j] => i = j
  BY <1>1, LenProperties DEF LockOK
<1>4. n \in Nat
  BY <1>1, LenProperties
<1> HIDE DEF n, queue, others
<1>5. ASSUME NEW k \in 1..n - 1
      PROVE  \E i \in 1..n : i # p /\ queue[i] = others[k] /\ (i = IF k < p THEN k ELSE k + 1)
  <2>1. CASE k < p
    BY <1>2, <1>4, <2>1
  <2>2. CASE ~(k < p)
    <3>1. k + 1 \in 1..n /\ k + 1 # p
      BY <1>4, <2>2
    <3>2. QED
      BY <1>2, <2>2, <3>1
  <2>3. QED
    BY <2>1, <2>2
<1>6. \A k \in 1..n - 1 : others[k] # c /\ \E i \in 1..n : queue[i] = others[k]
  BY <1>2, <1>3, <1>5
<1>7. ASSUME NEW k \in 1..n - 1, NEW l \in 1..n - 1, others[k] = others[l] PROVE k = l
  <2>1. PICK i \in 1..n : queue[i] = others[k] /\ (i = IF k < p THEN k ELSE k + 1)
    BY <1>5
  <2>2. PICK j \in 1..n : queue[j] = others[l] /\ (j = IF l < p THEN l ELSE l + 1)
    BY <1>5
  <2>3. i = j
    BY <1>3, <1>7, <2>1, <2>2
  <2>4. QED
    BY <1>4, <2>1, <2>2, <2>3
<1>8. ASSUME NEW i \in 1..n, queue[i] # c PROVE \E k \in 1..n - 1 : others[k] = queue[i]
  <2>1. CASE i < p
    <3>1. i \in 1..n - 1
      BY <1>4, <2>1
    <3>2. QED
      BY <1>2, <2>1, <3>1
  <2>2. CASE p < i
    <3>1. i - 1 \in 1..n - 1 /\ ~(i - 1 < p) /\ (i - 1) + 1 = i
      BY <1>4, <2>2
    <3>2. QED
      BY <1>2, <3>1
  <2>3. i # p
    BY <1>2, <1>8
  <2>4. QED
    BY <1>4, <2>1, <2>2, <2>3
<1>9. ASSUME queue[1] # c PROVE 1 \in 1..n - 1 /\ others[1] = queue[1]
  <2>1. p # 1
    BY <1>2, <1>9
  <2>2. 1 \in 1..n - 1 /\ 1 < p
    BY <1>4, <2>1
  <2>3. QED
    BY <1>2, <2>2
<1>10. Len(others) = n - 1
  BY <1>1 DEF n
<1>11. QED
  BY <1>1, <1>6, <1>7, <1>8, <1>9, <1>10 DEF n, queue, others

\* A call that moves keeps its place, and comes within only from the first.
LEMMA LockKept ==
    ASSUME TypeOK, LockOK, UNCHANGED lock,
           \A d \in Calls :
              /\ Waits(d)' <=> Waits(d)
              /\ Waits(d) => call'[d].tab = call[d].tab
              /\ Is(d, Within)' => Is(d, Within) \/ lock[call[d].tab][1] = d
    PROVE  LockOK'
<1>1. \A t \in Tabs : \A i \in DOMAIN lock[t] : lock[t][i] \in Calls
  BY LenProperties, ElementOfSeq DEF TypeOK
<1>2. \A d \in Calls : Is(d, Within)' => Waits(d)'
  BY DEF Waits, Is
<1>3. QED
  BY <1>1, <1>2 DEF LockOK

\* A call leaves the lock.
LEMMA LockLeft ==
    ASSUME TypeOK, LockOK, NEW c \in Calls, Waits(c), Leave(c), ~Waits(c)',
           \A d \in Calls : d # c => call'[d] = call[d]
    PROVE  LockOK' /\ lock' \in [Tabs -> Seq(Calls)]
<1> DEFINE tab == call[c].tab
           others == Others(c)
<1>1. /\ tab \in Tabs
      /\ others \in Seq(Calls)
      /\ \A k \in 1..Len(others) :
            others[k] # c /\ \E i \in 1..Len(lock[tab]) : lock[tab][i] = others[k]
      /\ \A k, l \in 1..Len(others) : others[k] = others[l] => k = l
      /\ \A i \in 1..Len(lock[tab]) :
            lock[tab][i] # c => \E k \in 1..Len(others) : others[k] = lock[tab][i]
      /\ lock[tab][1] # c => 1 \in 1..Len(others) /\ others[1] = lock[tab][1]
  BY OthersOnly
<1> HIDE DEF others
<1>2. /\ lock' \in [Tabs -> Seq(Calls)]
      /\ lock'[tab] = others
      /\ \A t \in Tabs : t # tab => lock'[t] = lock[t]
  BY <1>1 DEF Leave, TypeOK, others
<1>3. /\ DOMAIN others = 1..Len(others)
      /\ \A t \in Tabs : DOMAIN lock[t] = 1..Len(lock[t]) /\ \A i \in DOMAIN lock[t] : lock[t][i] \in Calls
  BY <1>1, LenProperties, ElementOfSeq DEF TypeOK
<1>4. \A d \in Calls : d # c => (Waits(d)' <=> Waits(d)) /\ (Is(d, Within)' <=> Is(d, Within))
  BY DEF Waits, Is
<1>5. ASSUME NEW t \in Tabs, NEW i \in DOMAIN lock'[t]
      PROVE  /\ Waits(lock[t][i])'
             /\ call'[lock'[t][i]].tab = t
             /\ \A j \in DOMAIN lock'[t] : lock'[t][i] = lock'[t][j] => i = j
  <2>1. CASE t = tab
    <3>1. others[i] # c /\ \E j \in 1..Len(lock[tab]) : lock[tab][j] = others[i]
      BY <1>1, <1>2, <1>3, <1>5, <2>1
    <3>2. PICK j \in 1..Len(lock[tab]) : lock[tab][j] = others[i]
      BY <3>1
    <3>3. lock[tab][j] \in Calls /\ Waits(lock[tab][j]) /\ call[lock[tab][j]].tab = tab
      BY <1>1, <1>3, <3>2 DEF LockOK
    <3>4. call'[others[i]].pc \in {"queued"} \cup Within /\ call'[others[i]].tab = tab
      BY <3>1, <3>2, <3>3 DEF Waits, Is
    <3>5. lock'[t][i] = others[i]
      BY <1>2, <2>1
    <3>6. Waits(lock[t][i])' /\ call'[lock'[t][i]].tab = t
      BY <2>1, <3>4, <3>5 DEF Waits, Is
    <3>7. QED
      BY <1>1, <1>2, <1>3, <1>5, <2>1, <3>6
  <2>2. CASE t # tab
    <3>1. lock[t][i] \in Calls /\ call[lock[t][i]].tab = t /\ Waits(lock[t][i])
      BY <1>2, <1>3, <2>2 DEF LockOK
    <3>2. lock[t][i] # c
      BY <2>2, <3>1
    <3>3. QED
      BY <1>2, <1>4, <2>2, <3>1, <3>2 DEF LockOK
  <2>3. QED
    BY <2>1, <2>2
<1>6. ASSUME NEW d \in Calls, Waits(d)'
      PROVE  /\ \E i \in DOMAIN lock'[call'[d].tab] : lock'[call'[d].tab][i] = d
             /\ Is(d, Within)' => lock'[call'[d].tab][1] = d
  <2>1. d # c /\ call'[d] = call[d] /\ Waits(d) /\ call[d].tab \in Tabs
    BY <1>4, <1>6 DEF TypeOK
  <2>2. PICK i \in DOMAIN lock[call[d].tab] : lock[call[d].tab][i] = d
    BY <2>1 DEF LockOK
  <2>3. Is(d, Within)' => lock[call[d].tab][1] = d
    BY <1>4, <2>1 DEF LockOK
  <2>4. CASE call[d].tab = tab
    <3>1. i \in 1..Len(lock[tab]) /\ lock[tab][i] = d
      BY <1>1, <1>3, <2>2, <2>4
    <3>2. \E k \in 1..Len(others) : others[k] = d
      BY <1>1, <2>1, <3>1
    <3>3. Is(d, Within)' => others[1] = d
      BY <1>1, <2>1, <2>3, <2>4
    <3>4. QED
      BY <1>2, <1>3, <2>1, <2>4, <3>2, <3>3
  <2>5. CASE call[d].tab # tab
    BY <1>2, <2>1, <2>2, <2>3, <2>5
  <2>6. QED
    BY <2>4, <2>5
<1>7. \A d \in Calls : Is(d, Within)' => Waits(d)'
  BY DEF Waits, Is
<1>8. QED
  BY <1>2, <1>5, <1>6, <1>7 DEF LockOK

\* A call comes to the lock: the last of its queue, and within it is none yet.
LEMMA LockJoined ==
    ASSUME TypeOK, LockOK, NEW c \in Calls, ~Waits(c), NEW t \in Tabs,
           lock' = [lock EXCEPT ![t] = Append(@, c)],
           call'[c].pc = "queued", call'[c].tab = t,
           \A d \in Calls : d # c => call'[d] = call[d]
    PROVE  LockOK' /\ lock' \in [Tabs -> Seq(Calls)]
<1> DEFINE n == Len(lock[t])
<1>1. /\ lock' \in [Tabs -> Seq(Calls)]
      /\ \A u \in Tabs : u # t => lock'[u] = lock[u]
      /\ n \in Nat /\ DOMAIN lock'[t] = 1..n + 1
      /\ \A i \in 1..n : lock'[t][i] = lock[t][i]
      /\ lock'[t][n + 1] = c
  <2>1. lock[t] \in Seq(Calls)
    BY DEF TypeOK
  <2>2. /\ Append(lock[t], c) \in Seq(Calls)
        /\ Len(Append(lock[t], c)) = Len(lock[t]) + 1
        /\ \A i \in 1..Len(lock[t]) : Append(lock[t], c)[i] = lock[t][i]
        /\ Append(lock[t], c)[Len(lock[t]) + 1] = c
    BY <2>1, AppendProperties
  <2>3. /\ lock' \in [Tabs -> Seq(Calls)] /\ lock'[t] = Append(lock[t], c)
        /\ \A u \in Tabs : u # t => lock'[u] = lock[u]
    BY <2>2 DEF TypeOK
  <2>4. n \in Nat /\ DOMAIN lock'[t] = 1..n + 1
    BY <2>1, <2>2, <2>3, LenProperties
  <2>5. QED
    BY <2>2, <2>3, <2>4
<1>2. \A u \in Tabs : DOMAIN lock[u] = 1..Len(lock[u]) /\ \A i \in DOMAIN lock[u] : lock[u][i] \in Calls
  BY LenProperties, ElementOfSeq DEF TypeOK
<1>3. \A u \in Tabs : \A i \in DOMAIN lock[u] : lock[u][i] # c
  BY DEF LockOK
<1> HIDE DEF n
<1>4. \A d \in Calls : d # c => (Waits(d)' <=> Waits(d)) /\ (Is(d, Within)' <=> Is(d, Within))
  BY DEF Waits, Is
<1>5. ASSUME NEW u \in Tabs, NEW i \in DOMAIN lock'[u]
      PROVE  /\ call'[lock'[u][i]].pc \in {"queued"} \cup Within
             /\ call'[lock'[u][i]].tab = u
             /\ \A j \in DOMAIN lock'[u] : lock'[u][i] = lock'[u][j] => i = j
  <2>1. CASE u = t
    <3>1. \A j \in 1..n : /\ lock'[t][j] # c /\ lock[t][j] \in Calls /\ Waits(lock[t][j])
                          /\ call[lock[t][j]].tab = t
                          /\ \A k \in 1..n : lock[t][j] = lock[t][k] => j = k
      BY <1>1, <1>2, <1>3 DEF LockOK, n
    <3>2. \A j \in 1..n + 1 : j \in 1..n \/ j = n + 1
      BY <1>1
    <3>3. i \in 1..n + 1
      BY <1>1, <2>1
    <3>4. CASE i \in 1..n
      <4>1. call'[lock[t][i]] = call[lock[t][i]] /\ lock'[u][i] = lock[t][i]
        BY <1>1, <2>1, <3>1, <3>4
      <4>2. call'[lock'[u][i]].pc \in {"queued"} \cup Within /\ call'[lock'[u][i]].tab = u
        BY <2>1, <3>1, <3>4, <4>1 DEF Waits, Is
      <4>3. \A j \in DOMAIN lock'[u] : lock'[u][i] = lock'[u][j] => i = j
        BY <1>1, <2>1, <3>1, <3>2, <3>4
      <4>4. QED
        BY <4>2, <4>3
    <3>5. CASE i = n + 1
      BY <1>1, <2>1, <3>1, <3>2, <3>5
    <3>6. QED
      BY <3>2, <3>3, <3>4, <3>5
  <2>2. CASE u # t
    <3>1. lock'[u] = lock[u] /\ lock[u][i] \in Calls /\ lock[u][i] # c
      BY <1>1, <1>2, <1>3, <1>5, <2>2
    <3>2. call'[lock[u][i]] = call[lock[u][i]]
      BY <3>1
    <3>3. QED
      BY <1>1, <1>5, <3>1, <3>2 DEF LockOK, Waits, Is
  <2>3. QED
    BY <2>1, <2>2
<1>6. ASSUME NEW d \in Calls, Waits(d)'
      PROVE  /\ \E i \in DOMAIN lock'[call'[d].tab] : lock'[call'[d].tab][i] = d
             /\ Is(d, Within)' => lock'[call'[d].tab][1] = d
  <2>1. CASE d = c
    <3>1. ~Is(d, Within)'
      BY <2>1 DEF Is, Within
    <3>2. n + 1 \in DOMAIN lock'[t]
      BY <1>1
    <3>3. QED
      BY <1>1, <2>1, <3>1, <3>2
  <2>2. CASE d # c
    <3>1. call'[d] = call[d] /\ Waits(d) /\ call[d].tab \in Tabs
      BY <1>4, <1>6, <2>2 DEF TypeOK
    <3>2. PICK i \in DOMAIN lock[call[d].tab] : lock[call[d].tab][i] = d
      BY <3>1 DEF LockOK
    <3>3. Is(d, Within)' => lock[call[d].tab][1] = d
      BY <1>4, <2>2, <3>1 DEF LockOK
    <3>4. CASE call[d].tab = t
      <4>1. i \in 1..n /\ 1 \in 1..n /\ i \in 1..n + 1
        BY <1>1, <1>2, <3>2, <3>4 DEF n
      <4>2. QED
        BY <1>1, <3>1, <3>2, <3>3, <3>4, <4>1
    <3>5. CASE call[d].tab # t
      BY <1>1, <3>1, <3>2, <3>3, <3>5
    <3>6. QED
      BY <3>4, <3>5
  <2>3. QED
    BY <2>1, <2>2
<1>7. \A d \in Calls : Is(d, Within)' => Waits(d)'
  BY DEF Waits, Is
<1>8. \A u \in Tabs : \A i \in DOMAIN lock'[u] :
        Waits(lock[u][i])' <=> call'[lock'[u][i]].pc \in {"queued"} \cup Within
  BY DEF Waits, Is
<1>9. QED
  BY <1>1, <1>5, <1>6, <1>7, <1>8 DEF LockOK

\* A call goes from its place to the end of the queue.
LEMMA LockRequeued ==
    ASSUME TypeOK, LockOK, NEW c \in Calls, Waits(c),
           lock' = [lock EXCEPT ![call[c].tab] = Append(Others(c), c)],
           call'[c].pc = "queued", call'[c].tab = call[c].tab,
           \A d \in Calls : d # c => call'[d] = call[d]
    PROVE  LockOK' /\ lock' \in [Tabs -> Seq(Calls)]
<1> DEFINE t == call[c].tab
           others == Others(c)
           n == Len(others)
<1>1. /\ t \in Tabs /\ others \in Seq(Calls)
      /\ \A k \in 1..n : others[k] # c /\ \E i \in 1..Len(lock[t]) : lock[t][i] = others[k]
      /\ \A k, l \in 1..n : others[k] = others[l] => k = l
      /\ \A i \in 1..Len(lock[t]) : lock[t][i] # c => \E k \in 1..n : others[k] = lock[t][i]
      /\ lock[t][1] # c => 1 \in 1..n /\ others[1] = lock[t][1]
  BY OthersOnly
<1> HIDE DEF others
<1>2. /\ lock' \in [Tabs -> Seq(Calls)]
      /\ \A u \in Tabs : u # t => lock'[u] = lock[u]
      /\ n \in Nat /\ DOMAIN lock'[t] = 1..n + 1
      /\ \A i \in 1..n : lock'[t][i] = others[i]
      /\ lock'[t][n + 1] = c
  <2>1. /\ Append(others, c) \in Seq(Calls)
        /\ Len(Append(others, c)) = Len(others) + 1
        /\ \A i \in 1..Len(others) : Append(others, c)[i] = others[i]
        /\ Append(others, c)[Len(others) + 1] = c
    BY <1>1, AppendProperties
  <2>2. /\ lock' \in [Tabs -> Seq(Calls)] /\ lock'[t] = Append(others, c)
        /\ \A u \in Tabs : u # t => lock'[u] = lock[u]
    BY <1>1, <2>1 DEF TypeOK, others
  <2>3. n \in Nat /\ DOMAIN lock'[t] = 1..n + 1
    BY <1>1, <2>1, <2>2, LenProperties
  <2>4. QED
    BY <2>1, <2>2, <2>3
<1>3. \A u \in Tabs : DOMAIN lock[u] = 1..Len(lock[u]) /\ \A i \in DOMAIN lock[u] : lock[u][i] \in Calls
  BY LenProperties, ElementOfSeq DEF TypeOK
<1> HIDE DEF n
<1>4. \A d \in Calls : d # c => (Waits(d)' <=> Waits(d)) /\ (Is(d, Within)' <=> Is(d, Within))
  BY DEF Waits, Is
<1>5. ASSUME NEW u \in Tabs, NEW i \in DOMAIN lock'[u]
      PROVE  /\ call'[lock'[u][i]].pc \in {"queued"} \cup Within
             /\ call'[lock'[u][i]].tab = u
             /\ \A j \in DOMAIN lock'[u] : lock'[u][i] = lock'[u][j] => i = j
  <2>1. CASE u = t
    <3>1. ASSUME NEW k \in 1..n
          PROVE  /\ others[k] # c /\ others[k] \in Calls
                 /\ Waits(others[k]) /\ call[others[k]].tab = t
      <4>1. PICK j \in 1..Len(lock[t]) : lock[t][j] = others[k]
        BY <1>1
      <4>2. QED
        BY <1>1, <1>3, <4>1 DEF LockOK
    <3>2. \A j \in 1..n + 1 : j \in 1..n \/ j = n + 1
      BY <1>2
    <3>3. i \in 1..n + 1
      BY <1>2, <2>1
    <3>4. CASE i \in 1..n
      <4>1. call'[others[i]] = call[others[i]] /\ lock'[u][i] = others[i]
        BY <1>2, <2>1, <3>1, <3>4
      <4>2. call'[lock'[u][i]].pc \in {"queued"} \cup Within /\ call'[lock'[u][i]].tab = u
        BY <2>1, <3>1, <3>4, <4>1 DEF Waits, Is
      <4>3. ASSUME NEW j \in DOMAIN lock'[u], lock'[u][i] = lock'[u][j] PROVE i = j
        <5>1. others[i] # c /\ (j \in 1..n \/ j = n + 1)
          BY <1>2, <2>1, <3>1, <3>2, <3>4
        <5>2. j \in 1..n /\ others[i] = others[j]
          BY <1>2, <2>1, <4>1, <4>3, <5>1
        <5>3. QED
          BY <1>1, <3>4, <5>2
      <4>4. QED
        BY <4>2, <4>3
    <3>5. CASE i = n + 1
      BY <1>2, <2>1, <3>1, <3>2, <3>5
    <3>6. QED
      BY <3>2, <3>3, <3>4, <3>5
  <2>2. CASE u # t
    <3>1. lock'[u] = lock[u] /\ lock[u][i] \in Calls /\ call[lock[u][i]].tab = u
      BY <1>2, <1>3, <1>5, <2>2 DEF LockOK
    <3>2. call'[lock[u][i]] = call[lock[u][i]]
      BY <2>2, <3>1
    <3>3. QED
      BY <1>2, <1>5, <3>1, <3>2 DEF LockOK, Waits, Is
  <2>3. QED
    BY <2>1, <2>2
<1>6. ASSUME NEW d \in Calls, Waits(d)'
      PROVE  /\ \E i \in DOMAIN lock'[call'[d].tab] : lock'[call'[d].tab][i] = d
             /\ Is(d, Within)' => lock'[call'[d].tab][1] = d
  <2>1. CASE d = c
    <3>1. ~Is(d, Within)'
      BY <2>1 DEF Is, Within
    <3>2. n + 1 \in DOMAIN lock'[t]
      BY <1>2
    <3>3. QED
      BY <1>2, <2>1, <3>1, <3>2
  <2>2. CASE d # c
    <3>1. call'[d] = call[d] /\ Waits(d) /\ call[d].tab \in Tabs
      BY <1>4, <1>6, <2>2 DEF TypeOK
    <3>2. PICK i \in DOMAIN lock[call[d].tab] : lock[call[d].tab][i] = d
      BY <3>1 DEF LockOK
    <3>3. Is(d, Within)' => lock[call[d].tab][1] = d
      BY <1>4, <2>2, <3>1 DEF LockOK
    <3>4. CASE call[d].tab = t
      <4>1. PICK k \in 1..n : others[k] = d
        BY <1>1, <1>3, <2>2, <3>2, <3>4
      <4>2. k \in 1..n + 1
        BY <1>2
      <4>3. Is(d, Within)' => 1 \in 1..n /\ others[1] = d
        BY <1>1, <2>2, <3>3, <3>4
      <4>4. QED
        BY <1>2, <3>1, <3>4, <4>1, <4>2, <4>3
    <3>5. CASE call[d].tab # t
      BY <1>2, <3>1, <3>2, <3>3, <3>5
    <3>6. QED
      BY <3>4, <3>5
  <2>3. QED
    BY <2>1, <2>2
<1>7. \A d \in Calls : Is(d, Within)' => Waits(d)'
  BY DEF Waits, Is
<1>8. \A u \in Tabs : \A i \in DOMAIN lock'[u] :
        Waits(lock[u][i])' <=> call'[lock'[u][i]].pc \in {"queued"} \cup Within
  BY DEF Waits, Is
<1>9. QED
  BY <1>2, <1>5, <1>6, <1>7, <1>8 DEF LockOK

-----------------------------------------------------------------------------
(* What the steps do to the stores and to the lists of the retired. *)

\* The updates of a store that the steps make.
LEMMA StoreUpdates ==
    ASSUME NEW r \in StoreRecord
    PROVE  /\ [r EXCEPT !.freed = r.freed + 1] \in StoreRecord
           /\ \A n \in Nat, table \in SUBSET Elements, uids \in [Elements -> Nat \cup {NoUid}] :
                 [r EXCEPT !.n = n, !.table = table, !.uids = uids] \in StoreRecord
           /\ \A b \in BOOLEAN : [r EXCEPT !.overtaken = b] \in StoreRecord
<1>1. [r EXCEPT !.freed = r.freed + 1] \in StoreRecord
  BY DEF StoreRecord
<1>2. ASSUME NEW n \in Nat, NEW table \in SUBSET Elements, NEW uids \in [Elements -> Nat \cup {NoUid}]
      PROVE  [r EXCEPT !.n = n, !.table = table, !.uids = uids] \in StoreRecord
  BY DEF StoreRecord
<1>3. ASSUME NEW b \in BOOLEAN PROVE [r EXCEPT !.overtaken = b] \in StoreRecord
  BY DEF StoreRecord
<1>4. QED
  BY <1>1, <1>2, <1>3

\* A release.
LEMMA FreedOne ==
    ASSUME TypeOK, NEW s \in DOMAIN stores, stores' = Freed(s)
    PROVE  /\ stores' \in Seq(StoreRecord)
           /\ DOMAIN stores' = DOMAIN stores
           /\ stores'[s] = [Store(s) EXCEPT !.freed = Store(s).freed + 1]
           /\ \A z \in DOMAIN stores : z # s => stores'[z] = Store(z)
<1>1. stores \in Seq(StoreRecord) /\ DOMAIN stores = 1..Len(stores) /\ Store(s) \in StoreRecord
  BY LenProperties, ElementOfSeq DEF TypeOK, Store
<1>2. [Store(s) EXCEPT !.freed = Store(s).freed + 1] \in StoreRecord
  BY <1>1, StoreUpdates
<1>3. stores' = [stores EXCEPT ![s] = [Store(s) EXCEPT !.freed = Store(s).freed + 1]]
  BY <1>1 DEF Freed, Store
<1>4. stores' \in Seq(StoreRecord) /\ Len(stores') = Len(stores)
  BY <1>1, <1>2, <1>3, ExceptSeq
<1>5. QED
  BY <1>1, <1>3, <1>4, LenProperties DEF Store

\* The pop of a retired handle.
LEMMA PoppedOne ==
    ASSUME TypeOK, NEW t \in Tabs, MustRelease(t), retired' = Popped(t)
    PROVE  /\ retired' \in [Tabs -> Seq(Nat)]
           /\ \A u \in Tabs : u # t => retired'[u] = retired[u]
           /\ LastRetired(t) \in DOMAIN stores
           /\ Len(retired[t]) \in DOMAIN retired[t]
           /\ DOMAIN retired'[t] = DOMAIN retired[t] \ {Len(retired[t])}
           /\ \A i \in DOMAIN retired'[t] : retired'[t][i] = retired[t][i]
<1> DEFINE n == Len(retired[t])
<1>1. retired[t] \in Seq(Nat) /\ retired[t] # <<>>
  BY DEF TypeOK, MustRelease
<1>2. n \in Nat \ {0} /\ DOMAIN retired[t] = 1..n /\ \A i \in 1..n : retired[t][i] \in Nat
  BY <1>1, EmptySeq, LenProperties, ElementOfSeq
<1> HIDE DEF n
<1>3. \A i \in 1..n - 1 : retired[t][i] \in Nat
  BY <1>2
<1>4. /\ SubSeq(retired[t], 1, n - 1) \in Seq(Nat)
      /\ Len(SubSeq(retired[t], 1, n - 1)) = n - 1
      /\ \A i \in 1..n - 1 : SubSeq(retired[t], 1, n - 1)[i] = retired[t][i]
  <2>1. 1 \in Int /\ n - 1 \in Int
    BY <1>2
  <2>2. /\ SubSeq(retired[t], 1, n - 1) \in Seq(Nat)
        /\ Len(SubSeq(retired[t], 1, n - 1)) = IF 1 <= n - 1 THEN (n - 1) - 1 + 1 ELSE 0
        /\ \A i \in 1..(n - 1) - 1 + 1 : SubSeq(retired[t], 1, n - 1)[i] = retired[t][1 + i - 1]
    BY <1>3, <2>1, SubSeqProperties
  <2>3. (n - 1) - 1 + 1 = n - 1 /\ (~(1 <= n - 1) => n - 1 = 0) /\ \A i \in Nat : 1 + i - 1 = i
    BY <1>2
  <2>4. 1..n - 1 \subseteq Nat
    OBVIOUS
  <2>5. Len(SubSeq(retired[t], 1, n - 1)) = n - 1
    BY <2>2, <2>3
  <2>6. ASSUME NEW i \in 1..n - 1 PROVE SubSeq(retired[t], 1, n - 1)[i] = retired[t][i]
    <3>1. SubSeq(retired[t], 1, n - 1)[i] = retired[t][1 + i - 1]
      BY <2>2, <2>3
    <3>2. QED
      BY <2>3, <2>4, <3>1
  <2>7. QED
    BY <2>2, <2>5, <2>6
<1>5. /\ retired' \in [Tabs -> Seq(Nat)] /\ retired'[t] = SubSeq(retired[t], 1, n - 1)
      /\ \A u \in Tabs : u # t => retired'[u] = retired[u]
  BY <1>4 DEF Popped, TypeOK, n
<1>6. DOMAIN retired'[t] = 1..n - 1 /\ 1..n - 1 = (1..n) \ {n} /\ n \in 1..n
  BY <1>2, <1>4, <1>5, LenProperties
<1>7. LastRetired(t) \in DOMAIN stores
  BY <1>2, <1>6 DEF TypeOK, LastRetired, n
<1>8. QED
  BY <1>2, <1>4, <1>5, <1>6, <1>7 DEF n

\* The retirement of a handle.
LEMMA RetiredOne ==
    ASSUME TypeOK, NEW t \in Tabs, Retire(t)
    PROVE  /\ handle' \in [Tabs -> Nat] /\ retired' \in [Tabs -> Seq(Nat)]
           /\ handle'[t] = 0
           /\ \A u \in Tabs : u # t => handle'[u] = handle[u] /\ retired'[u] = retired[u]
           /\ handle[t] = 0 => retired'[t] = retired[t]
           /\ handle[t] # 0 =>
                /\ Len(retired[t]) \in Nat /\ DOMAIN retired[t] = 1..Len(retired[t])
                /\ DOMAIN retired'[t] = 1..Len(retired[t]) + 1
                /\ \A i \in 1..Len(retired[t]) : retired'[t][i] = retired[t][i]
                /\ retired'[t][Len(retired[t]) + 1] = handle[t]
<1>1. retired[t] \in Seq(Nat) /\ handle[t] \in Nat
  BY DEF TypeOK
<1>2. /\ Append(retired[t], handle[t]) \in Seq(Nat)
      /\ Len(Append(retired[t], handle[t])) = Len(retired[t]) + 1
      /\ \A i \in 1..Len(retired[t]) : Append(retired[t], handle[t])[i] = retired[t][i]
      /\ Append(retired[t], handle[t])[Len(retired[t]) + 1] = handle[t]
  BY <1>1, AppendProperties
<1>3. /\ handle' \in [Tabs -> Nat] /\ retired' \in [Tabs -> Seq(Nat)]
      /\ handle'[t] = 0
      /\ \A u \in Tabs : u # t => handle'[u] = handle[u] /\ retired'[u] = retired[u]
      /\ retired'[t] = IF handle[t] = 0 THEN retired[t] ELSE Append(retired[t], handle[t])
  BY <1>1, <1>2 DEF Retire, TypeOK
<1>4. Len(retired[t]) \in Nat /\ DOMAIN retired[t] = 1..Len(retired[t])
  BY <1>1, LenProperties
<1>5. DOMAIN Append(retired[t], handle[t]) = 1..Len(retired[t]) + 1
  BY <1>2, LenProperties
<1>6. QED
  BY <1>2, <1>3, <1>4, <1>5

\* A store is built for the document the tab shows.
NewStore(c) ==
    [tab |-> call[c].tab, doc |-> shown[call[c].tab], n |-> call[c].seed,
     uids |-> [e \in Elements |-> NoUid], table |-> {}, freed |-> 0, overtaken |-> FALSE]

LEMMA BuiltOne ==
    ASSUME TypeOK, NEW c \in Calls, Built(c)
    PROVE  LET s == Len(stores) + 1
           IN /\ call[c].tab \in Tabs
              /\ stores' \in Seq(StoreRecord)
              /\ DOMAIN stores = 1..Len(stores) /\ Len(stores) \in Nat
              /\ DOMAIN stores' = 1..s
              /\ \A z \in DOMAIN stores : stores'[z] = Store(z)
              /\ stores'[s] = NewStore(c)
              /\ handle' = [handle EXCEPT ![call[c].tab] = s]
              /\ Moves(c, [call[c] EXCEPT !.pc = "evaluating", !.store = s])
<1>1. call[c] \in CallRecord /\ call[c].tab \in Tabs
  BY DEF TypeOK, Built, Waits, Is, Within
<1>2. NewStore(c) \in StoreRecord
  BY <1>1 DEF NewStore, StoreRecord, TypeOK, CallRecord
<1>3. stores \in Seq(StoreRecord) /\ Len(stores) \in Nat /\ DOMAIN stores = 1..Len(stores)
  BY LenProperties DEF TypeOK
<1>4. stores' = Append(stores, NewStore(c))
  BY DEF Built, NewStore
<1>5. /\ stores' \in Seq(StoreRecord) /\ Len(stores') = Len(stores) + 1
      /\ \A z \in 1..Len(stores) : stores'[z] = stores[z]
      /\ stores'[Len(stores) + 1] = NewStore(c)
  BY <1>2, <1>3, <1>4, AppendProperties
<1>6. DOMAIN stores' = 1..Len(stores) + 1
  BY <1>5, LenProperties
<1>7. QED
  BY <1>1, <1>3, <1>5, <1>6 DEF Store, Built

\* Elements of a document are numbered in its store.
LEMMA MintedOne ==
    ASSUME TypeOK, RegistryConstants, NEW s \in DOMAIN stores, Mint(s)
    PROVE  /\ stores' \in Seq(StoreRecord)
           /\ DOMAIN stores' = DOMAIN stores
           /\ \A z \in DOMAIN stores : z # s => stores'[z] = Store(z)
           /\ \E fresh \in SUBSET Elements :
                 /\ \A e \in fresh : Store(s).uids[e] = NoUid
                 /\ IsFiniteSet(fresh) /\ Cardinality(fresh) \in Nat
                 /\ \E new \in [fresh -> Store(s).n .. Store(s).n + Cardinality(fresh) - 1] :
                       /\ \A e, f \in fresh : new[e] = new[f] => e = f
                       /\ stores'[s].uids =
                            [e \in Elements |-> IF e \in fresh THEN new[e] ELSE Store(s).uids[e]]
                 /\ stores'[s].n = Store(s).n + Cardinality(fresh)
           /\ stores'[s].tab = Store(s).tab /\ stores'[s].doc = Store(s).doc
           /\ stores'[s].freed = Store(s).freed /\ stores'[s].overtaken = Store(s).overtaken
<1>1. stores \in Seq(StoreRecord) /\ DOMAIN stores = 1..Len(stores) /\ Store(s) \in StoreRecord
  BY LenProperties, ElementOfSeq DEF TypeOK, Store
<1>2. connected[Store(s).doc] \subseteq Elements
  BY ElementOfSeq, LenProperties DEF TypeOK
<1> DEFINE st == Store(s)
           here == connected[st.doc]
           Fresh(seen) == {e \in seen : st.uids[e] = NoUid}
<1>3. PICK seen \in SUBSET here :
        \E new \in [Fresh(seen) -> st.n .. st.n + Cardinality(Fresh(seen)) - 1] :
            /\ \A e, f \in Fresh(seen) : new[e] = new[f] => e = f
            /\ stores' = [stores EXCEPT ![s] = [st EXCEPT
                    !.n = st.n + Cardinality(Fresh(seen)),
                    !.table = (st.table \cap here) \cup seen,
                    !.uids = [e \in Elements |-> IF e \in Fresh(seen) THEN new[e] ELSE st.uids[e]]]]
  BY DEF Mint
<1> DEFINE fresh == Fresh(seen)
<1>4. PICK new \in [fresh -> st.n .. st.n + Cardinality(fresh) - 1] :
            /\ \A e, f \in fresh : new[e] = new[f] => e = f
            /\ stores' = [stores EXCEPT ![s] = [st EXCEPT
                    !.n = st.n + Cardinality(fresh),
                    !.table = (st.table \cap here) \cup seen,
                    !.uids = [e \in Elements |-> IF e \in fresh THEN new[e] ELSE st.uids[e]]]]
  BY <1>3
<1>5. fresh \subseteq Elements /\ \A e \in fresh : st.uids[e] = NoUid
  BY <1>2
<1>6. IsFiniteSet(fresh) /\ Cardinality(fresh) \in Nat
  BY <1>5, FS_Subset, FS_CardinalityType DEF RegistryConstants
<1>7. seen \subseteq Elements /\ here \subseteq Elements
  BY <1>2
<1> DEFINE uids == [e \in Elements |-> IF e \in fresh THEN new[e] ELSE st.uids[e]]
           rec == [st EXCEPT !.n = st.n + Cardinality(fresh),
                             !.table = (st.table \cap here) \cup seen,
                             !.uids = uids]
<1> HIDE DEF fresh, here
<1>8. uids \in [Elements -> Nat \cup {NoUid}]
  <2>1. st.n \in Nat /\ st.uids \in [Elements -> Nat \cup {NoUid}]
    BY <1>1 DEF StoreRecord
  <2>2. \A e \in fresh : new[e] \in Nat
    BY <1>6, <2>1
  <2>3. QED
    BY <2>1, <2>2
<1> HIDE DEF uids
<1>9. /\ rec \in StoreRecord
      /\ rec.uids = uids /\ rec.n = st.n + Cardinality(fresh)
      /\ rec.tab = st.tab /\ rec.doc = st.doc /\ rec.freed = st.freed /\ rec.overtaken = st.overtaken
  <2>1. st.n \in Nat
    BY <1>1 DEF StoreRecord
  <2>2. st.n + Cardinality(fresh) \in Nat /\ (st.table \cap here) \cup seen \in SUBSET Elements
    BY <1>6, <1>7, <2>1
  <2>3. rec \in StoreRecord
    BY <1>1, <1>8, <2>2, StoreUpdates
  <2>4. QED
    BY <1>1, <2>3 DEF StoreRecord
<1>10. stores' = [stores EXCEPT ![s] = rec]
  BY <1>4 DEF uids
<1> HIDE DEF rec
<1>11. /\ stores' \in Seq(StoreRecord) /\ DOMAIN stores' = DOMAIN stores
       /\ stores'[s] = rec /\ \A z \in DOMAIN stores : z # s => stores'[z] = Store(z)
  BY <1>1, <1>9, <1>10, ExceptSeq, LenProperties DEF Store
<1>12. QED
  BY <1>4, <1>5, <1>6, <1>9, <1>11 DEF uids

\* domcontentloaded marks what it overtakes.
LEMMA OvertakenOne ==
    ASSUME TypeOK, NEW t \in Tabs, Loaded(t)
    PROVE  /\ stores' \in Seq(StoreRecord)
           /\ DOMAIN stores' = DOMAIN stores
           /\ \A s \in DOMAIN stores :
                 stores'[s] = [Store(s) EXCEPT !.overtaken =
                    Store(s).overtaken \/ (s = handle[t] /\ Store(s).doc = shown[t])]
<1>1. stores \in Seq(StoreRecord) /\ DOMAIN stores = 1..Len(stores) /\ Len(stores) \in Nat
  BY LenProperties DEF TypeOK
<1>2. \A s \in 1..Len(stores) : Store(s) \in StoreRecord
  BY <1>1, ElementOfSeq DEF Store
<1>3. stores' = [s \in 1..Len(stores) |-> [Store(s) EXCEPT !.overtaken =
                    Store(s).overtaken \/ (s = handle[t] /\ Store(s).doc = shown[t])]]
  BY <1>1 DEF Loaded
<1>4. \A s \in 1..Len(stores) : [Store(s) EXCEPT !.overtaken =
                    Store(s).overtaken \/ (s = handle[t] /\ Store(s).doc = shown[t])] \in StoreRecord
  BY <1>2 DEF StoreRecord
<1>5. stores' \in Seq(StoreRecord)
  BY <1>1, <1>3, <1>4
<1>6. QED
  BY <1>1, <1>3, <1>5

-----------------------------------------------------------------------------
(* The types, and the lock. *)

\* A call that moves refers to what there is, when its new record does.
LEMMA CallsRefer ==
    ASSUME TypeOK, NEW c \in Calls, NEW new \in CallRecord, Moves(c, new),
           DOMAIN stores \subseteq DOMAIN stores',
           new.pc \in {"queued"} \cup Within => new.tab \in Tabs,
           new.pc = "evaluating" => new.store \in DOMAIN stores'
    PROVE  /\ call' \in [Calls -> CallRecord]
           /\ \A d \in Calls : Waits(d)' => call'[d].tab \in Tabs
           /\ \A d \in Calls : Is(d, {"evaluating"})' => call'[d].store \in DOMAIN stores'
BY MovesOne DEF TypeOK, Waits, Is

\* The holder of the lock proceeds.
LEMMA ProceedKeeps ==
    ASSUME TypeOK, LockOK, RegistryConstants, NEW c \in Calls,
           Waits(c), lock[call[c].tab][1] = c, Proceed(c)
    PROVE  TypeOK' /\ LockOK'
<1> DEFINE t == call[c].tab
<1>1. t \in Tabs /\ call[c] \in CallRecord
  BY DEF TypeOK
<1>2. UNCHANGED <<handle, lock, life, shown, loading, connected>>
  BY DEF Proceed
<1>3. ASSUME NEW new \in CallRecord, Moves(c, new), new.tab = t, new.pc \in Within
      PROVE  LockOK'
  <2>1. \A d \in Calls : /\ Waits(d)' <=> Waits(d)
                         /\ Waits(d) => call'[d].tab = call[d].tab
                         /\ Is(d, Within)' => Is(d, Within) \/ lock[call[d].tab][1] = d
    BY <1>3, MovesOne DEF Waits, Is
  <2>2. QED
    BY <1>2, <2>1, LockKept
<1>4. CASE MustRelease(t) /\ retired' = Popped(t) /\ stores' = Freed(LastRetired(t))
           /\ Moves(c, [call[c] EXCEPT !.pc = "releasing"]) /\ UNCHANGED seed
  <2> DEFINE new == [call[c] EXCEPT !.pc = "releasing"]
  <2>1. new \in CallRecord /\ new.pc = "releasing" /\ new.tab = t
    BY <1>1 DEF CallRecord, Pc, Within
  <2> HIDE DEF new
  <2>2. LastRetired(t) \in DOMAIN stores
    BY <1>1, <1>4, PoppedOne
  <2>3. /\ stores' \in Seq(StoreRecord) /\ DOMAIN stores' = DOMAIN stores
        /\ \A z \in DOMAIN stores : stores'[z].doc = stores[z].doc
    <3>1. /\ stores' \in Seq(StoreRecord) /\ DOMAIN stores' = DOMAIN stores
          /\ \A z \in DOMAIN stores : z # LastRetired(t) => stores'[z] = Store(z)
          /\ stores'[LastRetired(t)] =
                [Store(LastRetired(t)) EXCEPT !.freed = Store(LastRetired(t)).freed + 1]
      BY <1>4, <2>2, FreedOne
    <3>2. Store(LastRetired(t)) \in StoreRecord
      BY <2>2, ElementOfSeq, LenProperties DEF TypeOK, Store
    <3>3. stores'[LastRetired(t)].doc = Store(LastRetired(t)).doc
      BY <3>1, <3>2 DEF StoreRecord
    <3>4. QED
      BY <3>1, <3>3 DEF Store
  <2>4. /\ retired' \in [Tabs -> Seq(Nat)]
        /\ \A u \in Tabs : \A i \in DOMAIN retired'[u] : retired'[u][i] \in DOMAIN stores
    <3>1. /\ retired' \in [Tabs -> Seq(Nat)]
          /\ \A u \in Tabs : u # t => retired'[u] = retired[u]
          /\ DOMAIN retired'[t] = DOMAIN retired[t] \ {Len(retired[t])}
          /\ \A i \in DOMAIN retired'[t] : retired'[t][i] = retired[t][i]
      BY <1>1, <1>4, PoppedOne
    <3>2. QED
      BY <1>1, <3>1 DEF TypeOK
  <2>5. Moves(c, new)
    BY <1>4 DEF new
  <2>6. /\ call' \in [Calls -> CallRecord]
        /\ \A d \in Calls : Waits(d)' => call'[d].tab \in Tabs
        /\ \A d \in Calls : Is(d, {"evaluating"})' => call'[d].store \in DOMAIN stores'
    BY <1>1, <2>1, <2>3, <2>5, CallsRefer
  <2>7. LockOK'
    BY <1>3, <2>1, <2>5 DEF Within
  <2>8. TypeOK'
    BY <1>2, <1>4, <2>3, <2>4, <2>6 DEF TypeOK, Store
  <2>9. QED
    BY <2>7, <2>8
<1>5. CASE ~MustRelease(t) /\ handle[t] # 0
           /\ Moves(c, [call[c] EXCEPT !.pc = "evaluating", !.store = handle[t]])
           /\ UNCHANGED <<retired, stores, seed>>
  <2> DEFINE new == [call[c] EXCEPT !.pc = "evaluating", !.store = handle[t]]
  <2>1. handle[t] \in DOMAIN stores /\ handle[t] \in Nat
    BY <1>1, <1>5 DEF TypeOK
  <2>2. new \in CallRecord /\ new.pc = "evaluating" /\ new.tab = t /\ new.store = handle[t]
    BY <1>1, <2>1 DEF CallRecord, Pc, Within
  <2> HIDE DEF new
  <2>3. Moves(c, new)
    BY <1>5 DEF new
  <2>4. /\ call' \in [Calls -> CallRecord]
        /\ \A d \in Calls : Waits(d)' => call'[d].tab \in Tabs
        /\ \A d \in Calls : Is(d, {"evaluating"})' => call'[d].store \in DOMAIN stores'
    BY <1>1, <1>5, <2>1, <2>2, <2>3, CallsRefer
  <2>5. LockOK'
    BY <1>3, <2>2, <2>3 DEF Within
  <2>6. TypeOK'
    BY <1>2, <1>5, <2>4 DEF TypeOK, Store
  <2>7. QED
    BY <2>5, <2>6
<1>6. CASE ~MustRelease(t) /\ handle[t] = 0 /\ seed' = Following(seed)
           /\ Moves(c, [call[c] EXCEPT !.pc = "building", !.seed = seed, !.at = shown[t]])
           /\ UNCHANGED <<retired, stores>>
  <2> DEFINE new == [call[c] EXCEPT !.pc = "building", !.seed = seed, !.at = shown[t]]
  <2>1. seed \in Nat /\ shown[t] \in Nat /\ seed' \in Nat
    BY <1>1, <1>6 DEF TypeOK, Following, RegistryConstants
  <2>2. new \in CallRecord /\ new.pc = "building" /\ new.tab = t
    BY <1>1, <2>1 DEF CallRecord, Pc, Within
  <2> HIDE DEF new
  <2>3. Moves(c, new)
    BY <1>6 DEF new
  <2>4. /\ call' \in [Calls -> CallRecord]
        /\ \A d \in Calls : Waits(d)' => call'[d].tab \in Tabs
        /\ \A d \in Calls : Is(d, {"evaluating"})' => call'[d].store \in DOMAIN stores'
    BY <1>1, <1>6, <2>2, <2>3, CallsRefer
  <2>5. LockOK'
    BY <1>3, <2>2, <2>3 DEF Within
  <2>6. TypeOK'
    BY <1>2, <1>6, <2>1, <2>4 DEF TypeOK, Store
  <2>7. QED
    BY <2>5, <2>6
<1>7. QED
  BY <1>4, <1>5, <1>6 DEF Proceed

\* What TypeOK says of the calls.
CallsTyped ==
    /\ lock \in [Tabs -> Seq(Calls)]
    /\ call \in [Calls -> CallRecord]
    /\ \A c \in Calls : Waits(c) => call[c].tab \in Tabs
    /\ \A c \in Calls : Is(c, {"evaluating"}) => call[c].store \in DOMAIN stores

LEMMA EndsKeeps ==
    ASSUME TypeOK, LockOK, NEW c \in Calls, Waits(c), NEW how \in Ended, Ends(c, how),
           DOMAIN stores \subseteq DOMAIN stores'
    PROVE  CallsTyped' /\ LockOK'
<1> DEFINE new == [Idle EXCEPT !.pc = how]
<1>1. new \in CallRecord /\ new.pc = how
  BY EndIsARecord
<1> HIDE DEF new
<1>2. Moves(c, new) /\ Leave(c)
  BY DEF Ends, new
<1>3. how \notin {"queued"} \cup Within
  BY DEF Ended, Within
<1>4. call'[c] = new /\ \A d \in Calls : d # c => call'[d] = call[d]
  BY <1>1, <1>2, MovesOne
<1>5. ~Waits(c)'
  BY <1>1, <1>3, <1>4 DEF Waits, Is
<1>6. LockOK' /\ lock' \in [Tabs -> Seq(Calls)]
  BY <1>2, <1>4, <1>5, LockLeft
<1>7. new.pc \notin {"queued"} \cup Within /\ new.pc # "evaluating"
  BY <1>1, <1>3 DEF Within
<1>8. /\ call' \in [Calls -> CallRecord]
      /\ \A d \in Calls : Waits(d)' => call'[d].tab \in Tabs
      /\ \A d \in Calls : Is(d, {"evaluating"})' => call'[d].store \in DOMAIN stores'
  BY <1>1, <1>2, <1>7, CallsRefer
<1>9. QED
  BY <1>6, <1>8 DEF CallsTyped

LEMMA EndDeadKeeps ==
    ASSUME TypeOK, LockOK, RegistryConstants, NEW c \in Calls, Waits(c), EndDead(c),
           DOMAIN stores \subseteq DOMAIN stores'
    PROVE  CallsTyped' /\ LockOK'
<1>1. CASE /\ lock' = [lock EXCEPT ![call[c].tab] = Append(Others(c), c)]
           /\ Moves(c, [call[c] EXCEPT !.pc = "queued", !.attempt = 2, !.ran = FALSE])
  <2> DEFINE new == [call[c] EXCEPT !.pc = "queued", !.attempt = 2, !.ran = FALSE]
  <2>1. call[c] \in CallRecord /\ call[c].tab \in Tabs
    BY DEF TypeOK
  <2>2. new \in CallRecord /\ new.pc = "queued" /\ new.tab = call[c].tab
    BY <2>1 DEF CallRecord, Pc
  <2> HIDE DEF new
  <2>3. Moves(c, new)
    BY <1>1 DEF new
  <2>4. call'[c] = new /\ \A d \in Calls : d # c => call'[d] = call[d]
    BY <2>2, <2>3, MovesOne
  <2>5. LockOK' /\ lock' \in [Tabs -> Seq(Calls)]
    BY <1>1, <2>2, <2>4, LockRequeued
  <2>6. /\ call' \in [Calls -> CallRecord]
        /\ \A d \in Calls : Waits(d)' => call'[d].tab \in Tabs
        /\ \A d \in Calls : Is(d, {"evaluating"})' => call'[d].store \in DOMAIN stores'
    BY <2>1, <2>2, <2>3, CallsRefer
  <2>7. QED
    BY <2>5, <2>6 DEF CallsTyped
<1>2. CASE \E how \in Ended : Ends(c, how)
  BY <1>2, EndsKeeps
<1>3. QED
  BY <1>1, <1>2 DEF EndDead, Ended

\* A tool addresses a tab, an act with what it names.
LEMMA StartIsAMove ==
    ASSUME TypeOK, RegistryConstants, NEW c \in Calls, Start(c)
    PROVE  \E t \in Tabs, new \in CallRecord :
              /\ lock' = [lock EXCEPT ![t] = Append(@, c)]
              /\ Moves(c, new) /\ new.pc = "queued" /\ new.tab = t
              /\ new.runs = 0 /\ ~new.ran /\ new.hit = NoElement
              /\ Kind[c] = "act" => NamesAnElement(new)
<1>1. PICK t \in Tabs :
        /\ lock' = [lock EXCEPT ![t] = Append(@, c)]
        /\ \/ /\ Kind[c] = "read"
              /\ Moves(c, [Idle EXCEPT !.pc = "queued", !.tab = t, !.attempt = 1])
           \/ \E s \in DOMAIN stores : \E e \in Elements :
                  /\ Store(s).uids[e] # NoUid
                  /\ Moves(c, [Idle EXCEPT !.pc = "queued", !.tab = t, !.attempt = 1,
                        !.meant = <<Store(s).doc, e>>, !.from = s, !.uid = Store(s).uids[e]])
  BY DEF Start
<1>2. CASE Kind[c] = "read" /\ Moves(c, [Idle EXCEPT !.pc = "queued", !.tab = t, !.attempt = 1])
  <2> DEFINE new == [Idle EXCEPT !.pc = "queued", !.tab = t, !.attempt = 1]
  <2>1. /\ new \in CallRecord /\ new.pc = "queued" /\ new.tab = t
        /\ new.runs = 0 /\ new.ran = FALSE /\ new.hit = NoElement
    BY DEF Idle, CallRecord, Pc, Within, Ended, Element, NoElement, NoUid
  <2>2. Moves(c, new) /\ Kind[c] # "act"
    BY <1>2
  <2> HIDE DEF new
  <2>3. QED
    BY <1>1, <2>1, <2>2
<1>3. ASSUME NEW s \in DOMAIN stores, NEW e \in Elements, Store(s).uids[e] # NoUid,
             Moves(c, [Idle EXCEPT !.pc = "queued", !.tab = t, !.attempt = 1,
                        !.meant = <<Store(s).doc, e>>, !.from = s, !.uid = Store(s).uids[e]])
      PROVE  \E new \in CallRecord :
                /\ Moves(c, new) /\ new.pc = "queued" /\ new.tab = t
                /\ new.runs = 0 /\ ~new.ran /\ new.hit = NoElement
                /\ NamesAnElement(new)
  <2> DEFINE meant == <<Store(s).doc, e>>
             uid == Store(s).uids[e]
             new == [Idle EXCEPT !.pc = "queued", !.tab = t, !.attempt = 1,
                        !.meant = meant, !.from = s, !.uid = uid]
  <2>1. s \in Nat /\ Store(s) \in StoreRecord
    BY LenProperties, ElementOfSeq DEF TypeOK, Store
  <2>2. meant \in Element /\ uid \in Nat \cup {NoUid} /\ uid # NoUid /\ meant[2] = e
    BY <1>3, <2>1 DEF StoreRecord, Element
  <2>3. meant = <<Store(s).doc, e>> /\ uid = Store(s).uids[e]
    OBVIOUS
  <2> HIDE DEF meant, uid
  <2>4. /\ new \in CallRecord /\ new.pc = "queued" /\ new.tab = t
        /\ new.runs = 0 /\ new.ran = FALSE /\ new.hit = NoElement
        /\ new.from = s /\ new.meant = meant /\ new.uid = uid
    BY <2>1, <2>2 DEF Idle, CallRecord, Pc, Within, Ended, Element, NoElement, NoUid
  <2>5. Moves(c, new)
    BY <1>3 DEF meant, uid
  <2> HIDE DEF new
  <2>6. NamesAnElement(new)
    BY <2>2, <2>3, <2>4 DEF NamesAnElement
  <2>7. QED
    BY <2>4, <2>5, <2>6
<1>4. QED
  BY <1>1, <1>2, <1>3

LEMMA StartKeeps ==
    ASSUME TypeOK, LockOK, RegistryConstants, NEW c \in Calls, Start(c)
    PROVE  TypeOK' /\ LockOK'
<1>1. ~Waits(c)
  BY DEF Start, Waits, Is, Within
<1>2. UNCHANGED <<handle, retired, seed, life, shown, loading, connected, stores>>
  BY DEF Start, browserVars
<1>3. PICK t \in Tabs, new \in CallRecord :
        /\ lock' = [lock EXCEPT ![t] = Append(@, c)]
        /\ Moves(c, new) /\ new.pc = "queued" /\ new.tab = t
  BY StartIsAMove
<1>4. call'[c] = new /\ \A d \in Calls : d # c => call'[d] = call[d]
  BY <1>3, MovesOne
<1>5. LockOK' /\ lock' \in [Tabs -> Seq(Calls)]
  BY <1>1, <1>3, <1>4, LockJoined
<1>6. /\ call' \in [Calls -> CallRecord]
      /\ \A d \in Calls : Waits(d)' => call'[d].tab \in Tabs
      /\ \A d \in Calls : Is(d, {"evaluating"})' => call'[d].store \in DOMAIN stores'
  BY <1>2, <1>3, CallsRefer
<1>7. TypeOK'
  BY <1>2, <1>5, <1>6 DEF TypeOK, Store
<1>8. QED
  BY <1>5, <1>7

LEMMA BuiltKeeps ==
    ASSUME TypeOK, LockOK, NEW c \in Calls, Built(c)
    PROVE  TypeOK' /\ LockOK'
<1> DEFINE t == call[c].tab
           s == Len(stores) + 1
           new == [call[c] EXCEPT !.pc = "evaluating", !.store = s]
<1>1. /\ t \in Tabs
      /\ stores' \in Seq(StoreRecord)
      /\ DOMAIN stores = 1..Len(stores) /\ Len(stores) \in Nat
      /\ DOMAIN stores' = 1..s
      /\ \A z \in DOMAIN stores : stores'[z] = Store(z)
      /\ stores'[s] = NewStore(c)
      /\ handle' = [handle EXCEPT ![t] = s]
      /\ Moves(c, new)
  BY BuiltOne
<1>2. UNCHANGED <<retired, lock, seed, life, shown, loading, connected>>
  BY DEF Built
<1> HIDE DEF s
<1>3. s \in DOMAIN stores' /\ s \in Nat /\ DOMAIN stores \subseteq DOMAIN stores'
      /\ \A z \in DOMAIN stores' : z \in DOMAIN stores \/ z = s
  BY <1>1 DEF s
<1>4. new \in CallRecord /\ new.pc = "evaluating" /\ new.tab = t /\ new.store = s
  <2>1. call[c] \in CallRecord
    BY DEF TypeOK
  <2>2. QED
    BY <1>3, <2>1 DEF CallRecord, Pc, Within
<1> HIDE DEF new
<1>5. CallsTyped'
  <2>1. /\ call' \in [Calls -> CallRecord]
        /\ \A d \in Calls : Waits(d)' => call'[d].tab \in Tabs
        /\ \A d \in Calls : Is(d, {"evaluating"})' => call'[d].store \in DOMAIN stores'
    BY <1>1, <1>3, <1>4, CallsRefer
  <2>2. QED
    BY <1>2, <2>1 DEF CallsTyped, TypeOK
<1>6. LockOK'
  <2>1. Is(c, Within) /\ Waits(c)
    BY DEF Built, Is, Within, Waits
  <2>2. \A d \in Calls : /\ Waits(d)' <=> Waits(d)
                         /\ Waits(d) => call'[d].tab = call[d].tab
                         /\ Is(d, Within)' => Is(d, Within) \/ lock[call[d].tab][1] = d
    BY <1>1, <1>4, <2>1, MovesOne DEF Waits, Is, Within
  <2>3. QED
    BY <1>2, <2>2, LockKept
<1>7. \A z \in DOMAIN stores' : stores'[z].doc \in DOMAIN connected
  <2>1. NewStore(c).doc \in DOMAIN connected
    BY <1>1 DEF TypeOK, NewStore
  <2>2. QED
    BY <1>1, <1>3, <2>1 DEF TypeOK, Store
<1>8. handle' \in [Tabs -> Nat] /\ \A u \in Tabs : handle'[u] # 0 => handle'[u] \in DOMAIN stores'
  BY <1>1, <1>3 DEF TypeOK
<1>9. TypeOK'
  BY <1>1, <1>2, <1>3, <1>5, <1>7, <1>8 DEF TypeOK, CallsTyped, Store
<1>10. QED
  BY <1>6, <1>9

\* The page runs the operation: the record says so, and what an act hit.
LEMMA RunIsAMove ==
    ASSUME TypeOK, RegistryConstants, NEW c \in Calls, Run(c)
    PROVE  \E new \in CallRecord :
              /\ Moves(c, new)
              /\ new.pc = "evaluating" /\ new.tab = call[c].tab /\ new.store = call[c].store
              /\ new.ran = TRUE /\ new.runs = call[c].runs + 1
              /\ new.from = call[c].from /\ new.meant = call[c].meant /\ new.uid = call[c].uid
              /\ \/ Kind[c] = "read" /\ new.hit = call[c].hit
                 \/ /\ Kind[c] = "act" /\ new.hit = call[c].hit
                    /\ Picked(call[c].store, call[c].uid) = {}
                 \/ Kind[c] = "act" /\ new.hit \in Picked(call[c].store, call[c].uid)
<1> DEFINE s == call[c].store
           old == call[c]
           n == old.runs + 1
           Ran(r) == /\ r \in CallRecord
                     /\ r.pc = "evaluating" /\ r.tab = old.tab /\ r.store = old.store
                     /\ r.ran = TRUE /\ r.runs = n
                     /\ r.from = old.from /\ r.meant = old.meant /\ r.uid = old.uid
           ran == [call[c] EXCEPT !.ran = TRUE, !.runs = @ + 1]
<1>1. /\ s \in DOMAIN stores /\ old \in CallRecord /\ old.pc = "evaluating"
  BY DEF Run, TypeOK, Is
<1>2. n \in Nat
  BY <1>1 DEF CallRecord
<1>3. ran = [old EXCEPT !.ran = TRUE, !.runs = n]
  BY <1>1 DEF CallRecord
<1>5. Picked(s, old.uid) \subseteq Element
  <2>1. Store(s) \in StoreRecord
    BY <1>1, LenProperties, ElementOfSeq DEF TypeOK, Store
  <2>2. QED
    BY <2>1 DEF StoreRecord, Element, Picked
<1>6. NoElement \in Element
  BY DEF Element
<1> HIDE DEF n
<1>7. Ran(ran) /\ ran.hit = old.hit /\ \A e \in Element : Ran([ran EXCEPT !.hit = e]) /\ [ran EXCEPT !.hit = e].hit = e
  <2> HIDE DEF ran, old
  <2>1. Ran(ran) /\ ran.hit = old.hit
    <3>1. old \in CallRecord /\ n \in Nat /\ ran = [old EXCEPT !.ran = TRUE, !.runs = n]
      BY <1>1, <1>2, <1>3
    <3>2. /\ ran \in CallRecord
          /\ ran.pc = old.pc /\ ran.tab = old.tab /\ ran.store = old.store
          /\ ran.ran = TRUE /\ ran.runs = n
          /\ ran.from = old.from /\ ran.meant = old.meant /\ ran.uid = old.uid
          /\ ran.hit = old.hit
      BY <3>1 DEF CallRecord
    <3>3. QED
      BY <1>1, <3>2
  <2>2. ASSUME NEW r, Ran(r), NEW e \in Element
        PROVE  Ran([r EXCEPT !.hit = e]) /\ [r EXCEPT !.hit = e].hit = e
    BY <2>2 DEF CallRecord
  <2>3. QED
    BY <2>1, <2>2
<1>8. \/ Kind[c] = "read" /\ Moves(c, ran)
      \/ Kind[c] = "act" /\ Picked(s, old.uid) = {} /\ Moves(c, ran)
      \/ Kind[c] = "act" /\ \E e \in Picked(s, old.uid) : Moves(c, [ran EXCEPT !.hit = e])
  BY DEF Run
<1> HIDE DEF ran
<1>9. CASE Kind[c] = "read" /\ Moves(c, ran)
  BY <1>7, <1>9 DEF n
<1>10. CASE Kind[c] = "act" /\ Picked(s, old.uid) = {} /\ Moves(c, ran)
  BY <1>7, <1>10 DEF n
<1>11. ASSUME Kind[c] = "act", NEW e \in Picked(s, old.uid), Moves(c, [ran EXCEPT !.hit = e])
       PROVE  \E new \in CallRecord :
                 /\ Moves(c, new) /\ Ran(new) /\ new.hit \in Picked(s, old.uid) /\ new.hit = e
  BY <1>5, <1>7, <1>11
<1>12. QED
  BY <1>8, <1>9, <1>10, <1>11 DEF n

LEMMA RunKeeps ==
    ASSUME TypeOK, LockOK, RegistryConstants, NEW c \in Calls, Run(c)
    PROVE  TypeOK' /\ LockOK'
<1> DEFINE s == call[c].store
<1>1. /\ s \in DOMAIN stores /\ call[c] \in CallRecord /\ call[c].tab \in Tabs
      /\ Is(c, Within) /\ Waits(c)
  BY DEF Run, TypeOK, Is, Waits, Within
<1>2. UNCHANGED <<handle, retired, lock, seed, life, shown, loading, connected>>
  BY DEF Run
<1>3. PICK new \in CallRecord : /\ Moves(c, new) /\ new.pc = "evaluating"
                                /\ new.tab = call[c].tab /\ new.store = s
  BY RunIsAMove
<1>4. /\ stores' \in Seq(StoreRecord) /\ DOMAIN stores' = DOMAIN stores
      /\ \A z \in DOMAIN stores : stores'[z].doc = stores[z].doc
  <2>1. CASE UNCHANGED stores
    BY <2>1 DEF TypeOK
  <2>2. CASE Mint(s)
    BY <1>1, <2>2, MintedOne DEF Store
  <2>3. QED
    BY <2>1, <2>2 DEF Run
<1>5. /\ call' \in [Calls -> CallRecord]
      /\ \A d \in Calls : Waits(d)' => call'[d].tab \in Tabs
      /\ \A d \in Calls : Is(d, {"evaluating"})' => call'[d].store \in DOMAIN stores'
  BY <1>1, <1>3, <1>4, CallsRefer
<1>6. LockOK'
  <2>1. \A d \in Calls : /\ Waits(d)' <=> Waits(d)
                         /\ Waits(d) => call'[d].tab = call[d].tab
                         /\ Is(d, Within)' => Is(d, Within) \/ lock[call[d].tab][1] = d
    BY <1>1, <1>3, MovesOne DEF Waits, Is, Within
  <2>2. QED
    BY <1>2, <2>1, LockKept
<1>7. TypeOK'
  BY <1>2, <1>4, <1>5 DEF TypeOK, Store
<1>8. QED
  BY <1>6, <1>7

\* The slot is emptied, and what it held may be released.
LEMMA SlotEmptied ==
    ASSUME TypeOK, NEW t \in Tabs, handle' = [handle EXCEPT ![t] = 0],
           UNCHANGED stores \/ (handle[t] # 0 /\ stores' = Freed(handle[t]))
    PROVE  /\ handle' \in [Tabs -> Nat]
           /\ \A u \in Tabs : handle'[u] # 0 => handle'[u] \in DOMAIN stores'
           /\ stores' \in Seq(StoreRecord) /\ DOMAIN stores' = DOMAIN stores
           /\ \A z \in DOMAIN stores : stores'[z].doc = stores[z].doc
<1>1. CASE UNCHANGED stores
  BY <1>1 DEF TypeOK
<1>2. CASE handle[t] # 0 /\ stores' = Freed(handle[t])
  <2>1. handle[t] \in DOMAIN stores
    BY <1>2 DEF TypeOK
  <2>2. /\ stores' \in Seq(StoreRecord) /\ DOMAIN stores' = DOMAIN stores
        /\ stores'[handle[t]] = [Store(handle[t]) EXCEPT !.freed = Store(handle[t]).freed + 1]
        /\ \A z \in DOMAIN stores : z # handle[t] => stores'[z] = Store(z)
    BY <1>2, <2>1, FreedOne
  <2>3. Store(handle[t]) \in StoreRecord
    BY <2>1, LenProperties, ElementOfSeq DEF TypeOK, Store
  <2>4. stores'[handle[t]].doc = Store(handle[t]).doc
    BY <2>2, <2>3 DEF StoreRecord
  <2>5. QED
    BY <2>2, <2>4 DEF TypeOK, Store
<1>3. QED
  BY <1>1, <1>2

LEMMA EndingsKeep ==
    ASSUME TypeOK, LockOK, RegistryConstants, NEW c \in Calls,
           Answered(c) \/ TargetClosed(c) \/ Fails(c) \/ Cancelled(c) \/ Dropped(c) \/ DeadContext(c)
    PROVE  TypeOK' /\ LockOK'
<1>1. Waits(c)
  BY DEF Answered, TargetClosed, Fails, Cancelled, Dropped, DeadContext, ContextDied, Waits, Is, Within
<1>2. call[c].tab \in Tabs /\ call[c] \in CallRecord
  BY <1>1 DEF TypeOK
<1>3. CASE Answered(c) \/ Fails(c) \/ Cancelled(c)
  <2>1. (\E how \in Ended : Ends(c, how)) /\ UNCHANGED <<handle, retired, seed, life, browserVars>>
    BY <1>3 DEF Answered, Fails, Cancelled, Ended
  <2>2. CallsTyped' /\ LockOK'
    BY <1>1, <2>1, EndsKeeps DEF browserVars
  <2>3. QED
    BY <2>1, <2>2 DEF TypeOK, CallsTyped, browserVars, Store
<1>4. CASE TargetClosed(c)
  <2>1. /\ Ends(c, "ended") /\ UNCHANGED <<retired, seed, life, browserVars>>
        /\ handle' = [handle EXCEPT ![call[c].tab] = 0]
    BY <1>4 DEF TargetClosed
  <2>2. CallsTyped' /\ LockOK'
    BY <1>1, <2>1, EndsKeeps DEF browserVars, Ended
  <2>3. handle' \in [Tabs -> Nat] /\ \A u \in Tabs : handle'[u] # 0 => handle'[u] \in DOMAIN stores'
    BY <1>2, <2>1, SlotEmptied DEF browserVars
  <2>4. QED
    BY <2>1, <2>2, <2>3 DEF TypeOK, CallsTyped, browserVars, Store
<1>5. CASE Dropped(c)
  <2>1. EndDead(c) /\ UNCHANGED <<handle, retired, seed, life, browserVars>>
    BY <1>5 DEF Dropped
  <2>2. CallsTyped' /\ LockOK'
    BY <1>1, <2>1, EndDeadKeeps DEF browserVars
  <2>3. QED
    BY <2>1, <2>2 DEF TypeOK, CallsTyped, browserVars, Store
<1>6. CASE DeadContext(c)
  <2> DEFINE t == call[c].tab
             new == [call[c] EXCEPT !.pc = "dropping"]
  <2>1. UNCHANGED <<retired, seed, life, shown, loading, connected>>
    BY <1>6 DEF DeadContext
  <2>2. CASE /\ handle[t] # 0 /\ handle' = [handle EXCEPT ![t] = 0]
             /\ stores' = Freed(handle[t]) /\ Moves(c, new) /\ UNCHANGED lock
    <3>1. new \in CallRecord /\ new.pc = "dropping" /\ new.tab = t
      BY <1>2 DEF CallRecord, Pc, Within
    <3> HIDE DEF new
    <3>2. /\ handle' \in [Tabs -> Nat]
          /\ \A u \in Tabs : handle'[u] # 0 => handle'[u] \in DOMAIN stores'
          /\ stores' \in Seq(StoreRecord) /\ DOMAIN stores' = DOMAIN stores
          /\ \A z \in DOMAIN stores : stores'[z].doc = stores[z].doc
      BY <1>2, <2>2, SlotEmptied
    <3>3. /\ call' \in [Calls -> CallRecord]
          /\ \A d \in Calls : Waits(d)' => call'[d].tab \in Tabs
          /\ \A d \in Calls : Is(d, {"evaluating"})' => call'[d].store \in DOMAIN stores'
      BY <1>2, <2>2, <3>1, <3>2, CallsRefer
    <3>4. Is(c, Within)
      BY <1>6 DEF DeadContext, ContextDied, Is, Within
    <3>5. \A d \in Calls : /\ Waits(d)' <=> Waits(d)
                           /\ Waits(d) => call'[d].tab = call[d].tab
                           /\ Is(d, Within)' => Is(d, Within) \/ lock[call[d].tab][1] = d
      BY <1>1, <2>2, <3>1, <3>4, MovesOne DEF Waits, Is, Within
    <3>6. LockOK'
      BY <2>2, <3>5, LockKept
    <3>7. TypeOK'
      BY <2>1, <2>2, <3>2, <3>3 DEF TypeOK, Store
    <3>8. QED
      BY <3>6, <3>7
  <2>3. CASE EndDead(c) /\ UNCHANGED <<handle, stores>>
    <3>1. CallsTyped' /\ LockOK'
      BY <1>1, <2>3, EndDeadKeeps
    <3>2. QED
      BY <2>1, <2>3, <3>1 DEF TypeOK, CallsTyped, Store
  <2>4. QED
    BY <1>6, <2>2, <2>3 DEF DeadContext
<1>7. QED
  BY <1>3, <1>4, <1>5, <1>6

LEMMA DisposeKeeps ==
    ASSUME TypeOK, NEW t \in Tabs, Dispose(t)
    PROVE  TypeOK'
<1>1. UNCHANGED <<lock, seed, call, shown, loading, connected>>
  BY DEF Dispose
<1>2. CASE /\ MustRelease(t) /\ retired' = Popped(t) /\ stores' = Freed(LastRetired(t))
           /\ life' = [life EXCEPT ![t] = "draining"] /\ UNCHANGED handle
  <2>1. /\ retired' \in [Tabs -> Seq(Nat)]
        /\ \A u \in Tabs : u # t => retired'[u] = retired[u]
        /\ LastRetired(t) \in DOMAIN stores
        /\ DOMAIN retired'[t] = DOMAIN retired[t] \ {Len(retired[t])}
        /\ \A i \in DOMAIN retired'[t] : retired'[t][i] = retired[t][i]
    BY <1>2, PoppedOne
  <2>2. /\ stores' \in Seq(StoreRecord) /\ DOMAIN stores' = DOMAIN stores
        /\ stores'[LastRetired(t)] =
                [Store(LastRetired(t)) EXCEPT !.freed = Store(LastRetired(t)).freed + 1]
        /\ \A z \in DOMAIN stores : z # LastRetired(t) => stores'[z] = Store(z)
    BY <1>2, <2>1, FreedOne
  <2>3. Store(LastRetired(t)) \in StoreRecord
    BY <2>1, LenProperties, ElementOfSeq DEF TypeOK, Store
  <2>4. \A z \in DOMAIN stores : stores'[z].doc = stores[z].doc
    BY <2>2, <2>3 DEF StoreRecord, Store
  <2>5. \A u \in Tabs : \A i \in DOMAIN retired'[u] : retired'[u][i] \in DOMAIN stores
    BY <2>1 DEF TypeOK
  <2>6. QED
    BY <1>1, <1>2, <2>1, <2>2, <2>4, <2>5 DEF TypeOK, Store, Waits, Is
<1>3. CASE /\ handle[t] # 0 /\ handle' = [handle EXCEPT ![t] = 0] /\ stores' = Freed(handle[t])
           /\ life' = [life EXCEPT ![t] = "leaving"] /\ UNCHANGED retired
  <2>1. /\ handle' \in [Tabs -> Nat]
        /\ \A u \in Tabs : handle'[u] # 0 => handle'[u] \in DOMAIN stores'
        /\ stores' \in Seq(StoreRecord) /\ DOMAIN stores' = DOMAIN stores
        /\ \A z \in DOMAIN stores : stores'[z].doc = stores[z].doc
    BY <1>3, SlotEmptied
  <2>2. QED
    BY <1>1, <1>3, <2>1 DEF TypeOK, Store, Waits, Is
<1>4. CASE life' = [life EXCEPT ![t] = "leaving"] /\ UNCHANGED <<handle, retired, stores>>
  BY <1>1, <1>4 DEF TypeOK, Store, Waits, Is
<1>5. QED
  BY <1>2, <1>3, <1>4 DEF Dispose

LEMMA PageKeeps ==
    ASSUME TypeOK, NEW t \in Tabs, Gone(t) \/ Navigate(t) \/ Loaded(t) \/ Script(t)
    PROVE  TypeOK' /\ UNCHANGED <<lock, call>>
<1>1. CASE Gone(t)
  BY <1>1 DEF Gone, browserVars, TypeOK, Store, Waits, Is
<1>2. CASE Navigate(t)
  <2> DEFINE left == [connected EXCEPT ![shown[t]] = {}]
  <2>1. shown[t] \in 1..Len(connected) /\ Len(connected) \in Nat /\ DOMAIN connected = 1..Len(connected)
    BY LenProperties DEF TypeOK
  <2>2. left \in Seq(SUBSET Elements) /\ Len(left) = Len(connected)
    BY <2>1, ExceptSeq DEF TypeOK
  <2> HIDE DEF left
  <2>3. connected' = Append(left, Elements)
    BY <1>2 DEF Navigate, left
  <2>4. connected' \in Seq(SUBSET Elements) /\ Len(connected') = Len(connected) + 1
    BY <2>2, <2>3, AppendProperties
  <2>5. DOMAIN connected' = 1..Len(connected) + 1
    BY <2>4, LenProperties
  <2>6. /\ shown' \in [Tabs -> Nat] /\ loading' \in [Tabs -> BOOLEAN]
        /\ \A u \in Tabs : shown'[u] \in DOMAIN connected'
    BY <1>2, <2>1, <2>5 DEF Navigate, TypeOK
  <2>7. \A s \in DOMAIN stores : Store(s).doc \in DOMAIN connected'
    BY <2>1, <2>5 DEF TypeOK
  <2>8. QED
    BY <1>2, <2>4, <2>6, <2>7 DEF Navigate, serverVars, TypeOK, Store, Waits, Is
<1>3. CASE Loaded(t)
  <2>1. /\ stores' \in Seq(StoreRecord) /\ DOMAIN stores' = DOMAIN stores
        /\ \A s \in DOMAIN stores : stores'[s] = [Store(s) EXCEPT !.overtaken =
                    Store(s).overtaken \/ (s = handle[t] /\ Store(s).doc = shown[t])]
    BY <1>3, OvertakenOne
  <2>2. \A s \in DOMAIN stores : stores'[s].doc = stores[s].doc
    <3>1. \A s \in DOMAIN stores : Store(s) \in StoreRecord
      BY LenProperties, ElementOfSeq DEF TypeOK, Store
    <3>2. QED
      BY <2>1, <3>1 DEF StoreRecord, Store
  <2>3. UNCHANGED <<lock, seed, call, life, shown, connected>> /\ loading' \in [Tabs -> BOOLEAN] /\ Retire(t)
    BY <1>3 DEF Loaded, TypeOK
  <2>4. /\ handle' \in [Tabs -> Nat] /\ retired' \in [Tabs -> Seq(Nat)]
        /\ handle'[t] = 0
        /\ \A u \in Tabs : u # t => handle'[u] = handle[u] /\ retired'[u] = retired[u]
        /\ handle[t] = 0 => retired'[t] = retired[t]
        /\ handle[t] # 0 =>
              /\ Len(retired[t]) \in Nat /\ DOMAIN retired[t] = 1..Len(retired[t])
              /\ DOMAIN retired'[t] = 1..Len(retired[t]) + 1
              /\ \A i \in 1..Len(retired[t]) : retired'[t][i] = retired[t][i]
              /\ retired'[t][Len(retired[t]) + 1] = handle[t]
    BY <2>3, RetiredOne
  <2>5. \A u \in Tabs : \A i \in DOMAIN retired'[u] : retired'[u][i] \in DOMAIN stores
    <3> SUFFICES ASSUME NEW u \in Tabs, NEW i \in DOMAIN retired'[u]
                 PROVE  retired'[u][i] \in DOMAIN stores
      OBVIOUS
    <3>1. CASE u # t \/ handle[t] = 0
      BY <2>4, <3>1 DEF TypeOK
    <3>2. CASE u = t /\ handle[t] # 0
      <4>1. i \in 1..Len(retired[t]) \/ i = Len(retired[t]) + 1
        BY <2>4, <3>2
      <4>2. QED
        BY <2>4, <3>2, <4>1 DEF TypeOK
    <3>3. QED
      BY <3>1, <3>2
  <2>6. QED
    BY <2>1, <2>2, <2>3, <2>4, <2>5 DEF TypeOK, Store, Waits, Is
<1>4. CASE Script(t)
  <2>1. PICK e \in Elements : connected' = [connected EXCEPT ![shown[t]] =
                IF e \in @ THEN @ \ {e} ELSE @ \cup {e}]
    BY <1>4 DEF Script
  <2> DEFINE d == shown[t]
             here == IF e \in connected[d] THEN connected[d] \ {e} ELSE connected[d] \cup {e}
  <2>2. d \in 1..Len(connected) /\ connected \in Seq(SUBSET Elements)
    BY LenProperties DEF TypeOK
  <2>3. connected[d] \in SUBSET Elements
    BY <2>2, ElementOfSeq
  <2>4. here \in SUBSET Elements
    BY <2>3
  <2>5. connected' = [connected EXCEPT ![d] = here]
    BY <2>1
  <2> HIDE DEF d, here
  <2>6. connected' \in Seq(SUBSET Elements) /\ DOMAIN connected' = DOMAIN connected
    BY <2>2, <2>4, <2>5, ExceptSeq, LenProperties
  <2>7. QED
    BY <1>4, <2>6 DEF Script, serverVars, TypeOK, Store, Waits, Is
<1>5. QED
  BY <1>1, <1>2, <1>3, <1>4

LEMMA TypeInvariant ==
    ASSUME TypeOK, LockOK, RegistryConstants, [Next]_vars
    PROVE  TypeOK' /\ LockOK'
<1>1. ASSUME NEW c \in Calls, Enter(c) \/ Released(c) PROVE TypeOK' /\ LockOK'
  <2>1. Waits(c) /\ Proceed(c)
    BY <1>1 DEF Enter, Released, Waits, Is, Within
  <2>2. lock[call[c].tab][1] = c
    <3>1. CASE Enter(c)
      BY <3>1, <2>1 DEF Enter, HasLock, TypeOK
    <3>2. CASE Released(c)
      BY <3>2 DEF Released, LockOK, Is, Within
    <3>3. QED
      BY <1>1, <3>1, <3>2
  <2>3. QED
    BY <2>1, <2>2, ProceedKeeps
<1>2. ASSUME NEW t \in Tabs,
             Close(t) \/ Drained(t) \/ Gone(t) \/ Navigate(t) \/ Loaded(t) \/ Script(t)
      PROVE  TypeOK' /\ LockOK'
  <2>1. CASE Dispose(t)
    <3>1. TypeOK' /\ UNCHANGED <<lock, call>>
      BY <2>1, DisposeKeeps DEF Dispose
    <3>2. LockOK'
      BY <3>1, LockKept DEF Waits, Is
    <3>3. QED
      BY <3>1, <3>2
  <2>2. CASE Gone(t) \/ Navigate(t) \/ Loaded(t) \/ Script(t)
    <3>1. TypeOK' /\ UNCHANGED <<lock, call>>
      BY <2>2, PageKeeps
    <3>2. LockOK'
      BY <3>1, LockKept DEF Waits, Is
    <3>3. QED
      BY <3>1, <3>2
  <2>3. QED
    BY <1>2, <2>1, <2>2 DEF Close, Drained
<1>3. CASE UNCHANGED vars
  <2>1. TypeOK' /\ UNCHANGED <<lock, call>>
    BY <1>3 DEF vars, serverVars, browserVars, TypeOK, Store, Waits, Is
  <2>2. LockOK'
    BY <2>1, LockKept DEF Waits, Is
  <2>3. QED
    BY <2>1, <2>2
<1>4. Busy \subseteq Tabs
  BY DEF RegistryConstants
<1>5. QED
  BY <1>1, <1>2, <1>3, <1>4, StartKeeps, BuiltKeeps, RunKeeps, EndingsKeep DEF Next

\* The documents of the tabs at first are as many.
LEMMA FirstDocuments ==
    ASSUME RegistryConstants, Init
    PROVE  /\ Cardinality(Tabs) \in Nat
           /\ shown \in [Tabs -> 1..Cardinality(Tabs)]
           /\ \A t, u \in Tabs : shown[t] = shown[u] => t = u
<1> DEFINE n == Cardinality(Tabs)
           Distinct(d) == \A t, u \in Tabs : d[t] = d[u] => t = u
<1>1. n \in Nat /\ ExistsBijection(1..n, Tabs)
  BY FS_CardinalityType DEF RegistryConstants
<1>2. PICK f \in [1..n -> Tabs] : \A t \in Tabs : \E k \in 1..n : f[k] = t
  BY <1>1 DEF ExistsBijection, Bijection, Injection, Surjection
<1> HIDE DEF n
<1>3. \E d \in [Tabs -> 1..n] : Distinct(d)
  <2> DEFINE d == [t \in Tabs |-> CHOOSE k \in 1..n : f[k] = t]
  <2>1. \A t \in Tabs : d[t] \in 1..n /\ f[d[t]] = t
    BY <1>2
  <2>2. d \in [Tabs -> 1..n]
    BY <2>1
  <2>3. Distinct(d)
    BY <2>1
  <2>4. QED
    BY <2>2, <2>3
<1>4. shown = CHOOSE d \in [Tabs -> 1..n] : Distinct(d)
  BY DEF Init, n
<1>5. shown \in [Tabs -> 1..n] /\ Distinct(shown)
  BY <1>3, <1>4
<1>6. QED
  BY <1>1, <1>5 DEF n

LEMMA InitTypes ==
    ASSUME RegistryConstants, Init
    PROVE  TypeOK /\ LockOK
<1>1. /\ Cardinality(Tabs) \in Nat
      /\ shown \in [Tabs -> 1..Cardinality(Tabs)]
  BY FirstDocuments
<1>2. connected \in Seq(SUBSET Elements) /\ DOMAIN connected = 1..Cardinality(Tabs)
  <2> DEFINE n == Cardinality(Tabs)
  <2>1. n \in Nat /\ connected = [d \in 1..n |-> Elements]
    BY <1>1 DEF Init
  <2> HIDE DEF n
  <2>2. Elements \in SUBSET Elements
    OBVIOUS
  <2>3. connected \in [1..n -> SUBSET Elements]
    BY <2>1, <2>2
  <2>4. connected \in Seq(SUBSET Elements) /\ DOMAIN connected = 1..n
    BY <2>1, <2>3
  <2>5. QED
    BY <2>4 DEF n
<1>3. stores = <<>> /\ stores \in Seq(StoreRecord) /\ DOMAIN stores = {}
  BY EmptySeq, LenProperties DEF Init
<1>4. \A t \in Tabs : retired[t] = <<>> /\ lock[t] = <<>>
  BY DEF Init
<1>5. <<>> \in Seq(Nat) /\ <<>> \in Seq(Calls) /\ DOMAIN <<>> = {}
  BY EmptySeq, LenProperties
<1>6. \A c \in Calls : call[c] = Idle /\ ~Waits(c) /\ ~Is(c, {"evaluating"}) /\ ~Is(c, Within)
  BY DEF Init, Idle, Waits, Is, Within
<1>7. TypeOK
  <2>1. /\ handle = [t \in Tabs |-> 0] /\ retired = [t \in Tabs |-> <<>>]
        /\ lock = [t \in Tabs |-> <<>>] /\ seed = 0 /\ call = [c \in Calls |-> Idle]
        /\ life = [t \in Tabs |-> "open"] /\ loading = [t \in Tabs |-> FALSE]
    BY DEF Init
  <2>2. shown \in [Tabs -> Nat] /\ \A t \in Tabs : shown[t] \in DOMAIN connected
    BY <1>1, <1>2
  <2>3. /\ handle \in [Tabs -> Nat] /\ retired \in [Tabs -> Seq(Nat)]
        /\ lock \in [Tabs -> Seq(Calls)] /\ seed \in Nat /\ call \in [Calls -> CallRecord]
        /\ life \in [Tabs -> {"open", "draining", "leaving", "closed"}]
        /\ loading \in [Tabs -> BOOLEAN]
    BY <1>5, <2>1, EndIsARecord
  <2>4. \A t \in Tabs : handle[t] = 0 /\ DOMAIN retired[t] = {}
    BY <1>4, <1>5, <2>1
  <2>5. QED
    BY <1>2, <1>3, <1>6, <2>2, <2>3, <2>4 DEF TypeOK
<1>8. LockOK
  BY <1>4, <1>5, <1>6 DEF LockOK
<1>9. QED
  BY <1>7, <1>8

\* Of every reachable state: the types, and one call of a tab at work.
THEOREM TypeCorrect == Spec => [](TypeOK /\ LockOK)
<1>1. Init => TypeOK /\ LockOK
  BY InitTypes, RegistryConstants
<1>2. TypeOK /\ LockOK /\ [Next]_vars => (TypeOK /\ LockOK)'
  BY TypeInvariant, RegistryConstants
<1>3. QED
  BY <1>1, <1>2, PTL DEF Spec

-----------------------------------------------------------------------------
(* The owners of the stores. *)

OwnInv == DocumentsOK /\ SlotOK /\ OwnersOK /\ CurrentOK

LEMMA StoreTypes ==
    ASSUME TypeOK
    PROVE  \A s \in DOMAIN stores :
              /\ Store(s) \in StoreRecord
              /\ Store(s).tab \in Tabs /\ Store(s).doc \in Nat /\ Store(s).freed \in Nat
              /\ s \in Nat /\ s # 0
<1>1. stores \in Seq(StoreRecord) /\ DOMAIN stores = 1..Len(stores) /\ Len(stores) \in Nat
  BY LenProperties DEF TypeOK
<1>2. \A s \in DOMAIN stores : Store(s) \in StoreRecord
  BY <1>1, ElementOfSeq DEF Store
<1>3. QED
  BY <1>1, <1>2 DEF StoreRecord

\* Two calls of a tab are not within.
LEMMA AloneWithin ==
    ASSUME LockOK, NEW c \in Calls, NEW d \in Calls,
           Is(c, Within), Is(d, Within), call[c].tab = call[d].tab
    PROVE  c = d
BY DEF LockOK

\* The stores are where they were.
SameStores ==
    /\ DOMAIN stores' = DOMAIN stores
    /\ \A s \in DOMAIN stores :
          /\ stores'[s].tab = Store(s).tab /\ stores'[s].doc = Store(s).doc
          /\ stores'[s].freed = Store(s).freed
          /\ stores'[s].overtaken = Store(s).overtaken
Quiet == UNCHANGED <<handle, retired, shown>> /\ SameStores

\* Nor is anything lost when a tab is no longer open.
ClosesAtMost == \A t \in Tabs : life'[t] = "open" => life[t] = "open"

LEMMA QuietKeeps ==
    ASSUME TypeOK, DocumentsOK, OwnersOK, CurrentOK, Quiet, ClosesAtMost
    PROVE  DocumentsOK' /\ OwnersOK' /\ CurrentOK'
<1> USE StoreTypes DEF Quiet, SameStores
<1>1. DocumentsOK'
  BY DEF DocumentsOK, Store
<1>2. OwnersOK'
  <2>1. ASSUME NEW t \in Tabs, handle'[t] # 0
        PROVE  Store(handle[t])'.tab = t /\ Store(handle[t])'.freed = 0
    BY <2>1 DEF OwnersOK, TypeOK, Store
  <2>2. ASSUME NEW t \in Tabs, NEW i \in DOMAIN retired'[t]
        PROVE  /\ Store(retired[t][i])'.tab = t
               /\ Store(retired[t][i])'.freed = 0
               /\ retired'[t][i] # handle'[t]
               /\ \A j \in DOMAIN retired'[t] : retired'[t][i] = retired'[t][j] => i = j
    <3>1. i \in DOMAIN retired[t] /\ retired'[t][i] = retired[t][i] /\ retired[t][i] \in DOMAIN stores
      BY <2>2 DEF TypeOK
    <3>2. /\ Store(retired[t][i]).tab = t
          /\ Store(retired[t][i]).freed = 0
          /\ retired[t][i] # handle[t]
          /\ \A j \in DOMAIN retired[t] : retired[t][i] = retired[t][j] => i = j
      BY <3>1 DEF OwnersOK
    <3>3. QED
      BY <3>1, <3>2 DEF Store
  <2>3. ASSUME NEW s \in DOMAIN stores
        PROVE  /\ Store(s)'.freed <= 1
               /\ life'[Store(s)'.tab] = "open" /\ shown'[Store(s)'.tab] = Store(s)'.doc =>
                     Store(s)'.freed = 1 \/ handle'[Store(s)'.tab] = s \/ Retired(s)'
    BY DEF OwnersOK, Store, ClosesAtMost, Retired
  <2>4. QED
    BY <2>1, <2>2, <2>3 DEF OwnersOK
<1>3. CurrentOK'
  BY DEF CurrentOK, Store, ClosesAtMost
<1>4. QED
  BY <1>1, <1>2, <1>3

\* A retired store is released.
LEMMA PopKeeps ==
    ASSUME TypeOK, DocumentsOK, OwnersOK, CurrentOK, NEW t \in Tabs, MustRelease(t),
           retired' = Popped(t), stores' = Freed(LastRetired(t)),
           UNCHANGED <<handle, shown>>, ClosesAtMost
    PROVE  /\ DocumentsOK' /\ OwnersOK' /\ CurrentOK'
           /\ DOMAIN stores' = DOMAIN stores
           /\ \A s \in DOMAIN stores : stores'[s].tab = Store(s).tab
<1> DEFINE r == LastRetired(t)
           n == Len(retired[t])
<1>1. /\ \A u \in Tabs : u # t => retired'[u] = retired[u]
      /\ r \in DOMAIN stores
      /\ n \in DOMAIN retired[t] /\ retired[t][n] = r
      /\ DOMAIN retired'[t] = DOMAIN retired[t] \ {n}
      /\ \A i \in DOMAIN retired'[t] : retired'[t][i] = retired[t][i]
  BY PoppedOne DEF LastRetired
<1>2. /\ DOMAIN stores' = DOMAIN stores
      /\ stores'[r] = [Store(r) EXCEPT !.freed = Store(r).freed + 1]
      /\ \A z \in DOMAIN stores : z # r => stores'[z] = Store(z)
  BY <1>1, FreedOne
<1> HIDE DEF r, n
<1>3. /\ \A z \in DOMAIN stores : /\ stores'[z].tab = Store(z).tab
                                  /\ stores'[z].doc = Store(z).doc
                                  /\ stores'[z].overtaken = Store(z).overtaken
      /\ stores'[r].freed = Store(r).freed + 1
  BY <1>1, <1>2, StoreTypes DEF StoreRecord
<1>4. /\ Store(r).tab = t /\ Store(r).freed = 0 /\ r # handle[t]
      /\ \A i \in DOMAIN retired[t] : retired[t][i] = r => i = n
  BY <1>1 DEF OwnersOK
<1>5. DocumentsOK'
  BY <1>2, <1>3 DEF DocumentsOK, Store
<1>6. OwnersOK'
  <2>1. ASSUME NEW u \in Tabs, handle'[u] # 0
        PROVE  Store(handle[u])'.tab = u /\ Store(handle[u])'.freed = 0
    <3>1. /\ handle'[u] = handle[u] /\ handle[u] # 0 /\ handle[u] \in DOMAIN stores
          /\ Store(handle[u]).tab = u /\ Store(handle[u]).freed = 0
      BY <2>1 DEF OwnersOK, TypeOK
    <3>2. handle[u] # r
      BY <1>4, <3>1
    <3>3. QED
      BY <1>2, <3>1, <3>2 DEF Store
  <2>2. ASSUME NEW u \in Tabs, NEW i \in DOMAIN retired'[u]
        PROVE  /\ Store(retired[u][i])'.tab = u
               /\ Store(retired[u][i])'.freed = 0
               /\ retired'[u][i] # handle'[u]
               /\ \A j \in DOMAIN retired'[u] : retired'[u][i] = retired'[u][j] => i = j
    <3>1. i \in DOMAIN retired[u] /\ retired'[u][i] = retired[u][i] /\ retired[u][i] \in DOMAIN stores
      BY <1>1, <2>2 DEF TypeOK
    <3>2. /\ Store(retired[u][i]).tab = u
          /\ Store(retired[u][i]).freed = 0
          /\ retired[u][i] # handle[u]
          /\ \A j \in DOMAIN retired[u] : retired[u][i] = retired[u][j] => i = j
      BY <3>1 DEF OwnersOK
    <3>3. retired[u][i] # r
      BY <1>1, <1>4, <2>2, <3>1, <3>2
    <3>4. \A j \in DOMAIN retired'[u] : j \in DOMAIN retired[u] /\ retired'[u][j] = retired[u][j]
      BY <1>1
    <3>5. QED
      BY <1>2, <3>1, <3>2, <3>3, <3>4 DEF Store
  <2>3. ASSUME NEW s \in DOMAIN stores
        PROVE  /\ Store(s)'.freed <= 1
               /\ life'[Store(s)'.tab] = "open" /\ shown'[Store(s)'.tab] = Store(s)'.doc =>
                     Store(s)'.freed = 1 \/ handle'[Store(s)'.tab] = s \/ Retired(s)'
    <3>1. CASE s = r
      BY <1>3, <1>4, <3>1 DEF Store
    <3>2. CASE s # r
      <4>1. Retired(s) => Retired(s)'
        BY <1>1, <1>3, <1>4, <3>2, StoreTypes DEF Retired, Store
      <4>2. QED
        BY <1>2, <3>2, <4>1, StoreTypes DEF OwnersOK, Store, ClosesAtMost
    <3>3. QED
      BY <3>1, <3>2
  <2>4. QED
    BY <1>2, <2>1, <2>2, <2>3 DEF OwnersOK
<1>7. CurrentOK'
  BY <1>2, <1>3, StoreTypes DEF CurrentOK, Store, ClosesAtMost
<1>8. QED
  BY <1>2, <1>3, <1>5, <1>6, <1>7

\* The slot is emptied: of a tab that is not open, or of another document.
LEMMA EmptyKeeps ==
    ASSUME TypeOK, DocumentsOK, OwnersOK, CurrentOK, NEW t \in Tabs,
           handle' = [handle EXCEPT ![t] = 0],
           \/ UNCHANGED stores /\ life'[t] # "open"
           \/ handle[t] # 0 /\ stores' = Freed(handle[t]),
           UNCHANGED <<retired, shown>>, ClosesAtMost,
           handle[t] # 0 => life'[t] # "open" \/ shown[t] # Store(handle[t]).doc
    PROVE  /\ DocumentsOK' /\ OwnersOK' /\ CurrentOK'
           /\ DOMAIN stores' = DOMAIN stores
           /\ \A s \in DOMAIN stores : stores'[s].tab = Store(s).tab
<1> DEFINE h == handle[t]
<1>1. handle'[t] = 0 /\ \A u \in Tabs : u # t => handle'[u] = handle[u]
  BY DEF TypeOK
<1>2. /\ DOMAIN stores' = DOMAIN stores
      /\ \A z \in DOMAIN stores : /\ stores'[z].tab = Store(z).tab
                                  /\ stores'[z].doc = Store(z).doc
                                  /\ stores'[z].overtaken = Store(z).overtaken
                                  /\ z # h => stores'[z].freed = Store(z).freed
      /\ h # 0 => \/ stores'[h].freed = Store(h).freed
                  \/ stores'[h].freed = 1
      /\ h # 0 /\ life'[t] = "open" => stores'[h].freed = 1
  <2>1. CASE UNCHANGED stores /\ life'[t] # "open"
    BY <2>1 DEF Store
  <2>2. CASE h # 0 /\ stores' = Freed(h)
    <3>1. h \in DOMAIN stores /\ Store(h).freed = 0 /\ Store(h) \in StoreRecord
      BY <2>2, StoreTypes DEF TypeOK, OwnersOK
    <3>2. /\ DOMAIN stores' = DOMAIN stores
          /\ stores'[h] = [Store(h) EXCEPT !.freed = Store(h).freed + 1]
          /\ \A z \in DOMAIN stores : z # h => stores'[z] = Store(z)
      BY <2>2, <3>1, FreedOne
    <3>3. /\ stores'[h].freed = 1 /\ stores'[h].tab = Store(h).tab /\ stores'[h].doc = Store(h).doc
          /\ stores'[h].overtaken = Store(h).overtaken
      BY <3>1, <3>2 DEF StoreRecord
    <3>4. QED
      BY <3>2, <3>3
  <2>3. QED
    BY <2>1, <2>2
<1>3. h # 0 => h \in DOMAIN stores /\ Store(h).tab = t /\ Store(h).freed = 0
               /\ \A u \in Tabs : \A i \in DOMAIN retired[u] : retired[u][i] # h
  BY DEF OwnersOK, TypeOK
<1> HIDE DEF h
<1>4. DocumentsOK'
  BY <1>2 DEF DocumentsOK, Store
<1>5. OwnersOK'
  <2>1. ASSUME NEW u \in Tabs, handle'[u] # 0
        PROVE  Store(handle[u])'.tab = u /\ Store(handle[u])'.freed = 0
    <3>1. u # t /\ handle'[u] = handle[u] /\ handle[u] \in DOMAIN stores
          /\ Store(handle[u]).tab = u /\ Store(handle[u]).freed = 0
      BY <1>1, <2>1 DEF OwnersOK, TypeOK
    <3>2. handle[u] # h
      BY <1>3, <3>1, StoreTypes
    <3>3. QED
      BY <1>2, <3>1, <3>2 DEF Store
  <2>2. ASSUME NEW u \in Tabs, NEW i \in DOMAIN retired'[u]
        PROVE  /\ Store(retired[u][i])'.tab = u
               /\ Store(retired[u][i])'.freed = 0
               /\ retired'[u][i] # handle'[u]
               /\ \A j \in DOMAIN retired'[u] : retired'[u][i] = retired'[u][j] => i = j
    <3>1. i \in DOMAIN retired[u] /\ retired[u][i] \in DOMAIN stores /\ retired[u][i] # h
      BY <1>3, <2>2, StoreTypes DEF TypeOK
    <3>2. /\ Store(retired[u][i]).tab = u
          /\ Store(retired[u][i]).freed = 0
          /\ retired[u][i] # handle[u]
          /\ \A j \in DOMAIN retired[u] : retired[u][i] = retired[u][j] => i = j
      BY <3>1 DEF OwnersOK
    <3>3. retired[u][i] # handle'[u]
      BY <1>1, <3>1, <3>2, StoreTypes
    <3>4. QED
      BY <1>2, <3>1, <3>2, <3>3 DEF Store
  <2>3. ASSUME NEW s \in DOMAIN stores
        PROVE  /\ Store(s)'.freed <= 1
               /\ life'[Store(s)'.tab] = "open" /\ shown'[Store(s)'.tab] = Store(s)'.doc =>
                     Store(s)'.freed = 1 \/ handle'[Store(s)'.tab] = s \/ Retired(s)'
    <3>1. CASE s = h
      BY <1>2, <1>3, <3>1, StoreTypes DEF Store
    <3>2. CASE s # h
      <4>1. Retired(s) => Retired(s)'
        BY <1>2, StoreTypes DEF Retired, Store
      <4>2. handle[Store(s).tab] = s => handle'[Store(s).tab] = s
        BY <1>1, <3>2, StoreTypes DEF h
      <4>3. QED
        BY <1>2, <3>2, <4>1, <4>2, StoreTypes DEF OwnersOK, Store, ClosesAtMost
    <3>3. QED
      BY <3>1, <3>2
  <2>4. QED
    BY <1>2, <2>1, <2>2, <2>3 DEF OwnersOK
<1>6. CurrentOK'
  <2> SUFFICES ASSUME NEW s \in DOMAIN stores,
                      life'[Store(s).tab] = "open", shown[Store(s).tab] = Store(s).doc,
                      ~Store(s).overtaken
               PROVE  handle'[Store(s).tab] = s
    BY <1>2 DEF CurrentOK, Store
  <2>1. handle[Store(s).tab] = s
    BY StoreTypes DEF CurrentOK, ClosesAtMost
  <2>2. Store(s).tab # t
    BY <2>1, StoreTypes
  <2>3. QED
    BY <1>1, <2>1, <2>2, StoreTypes
<1>7. QED
  BY <1>2, <1>4, <1>5, <1>6

\* A store is built into the empty slot.
LEMMA BuiltOwners ==
    ASSUME TypeOK, LockOK, OwnInv, NEW c \in Calls, Built(c)
    PROVE  OwnInv'
<1> DEFINE t == call[c].tab
           s == Len(stores) + 1
           new == [call[c] EXCEPT !.pc = "evaluating", !.store = s]
<1> USE DEF OwnInv
<1>1. /\ t \in Tabs
      /\ DOMAIN stores = 1..Len(stores) /\ Len(stores) \in Nat
      /\ DOMAIN stores' = 1..s
      /\ \A z \in DOMAIN stores : stores'[z] = Store(z)
      /\ stores'[s] = NewStore(c)
      /\ handle' = [handle EXCEPT ![t] = s]
      /\ Moves(c, new)
  BY BuiltOne
<1>2. UNCHANGED <<retired, life, shown>>
  BY DEF Built
<1>3. /\ s \notin DOMAIN stores /\ s \in Nat /\ s # 0
      /\ \A z \in DOMAIN stores' : z \in DOMAIN stores \/ z = s
      /\ \A z \in DOMAIN stores : z \in DOMAIN stores'
      /\ s \in DOMAIN stores'
  BY <1>1
<1>4. /\ new \in CallRecord /\ new.pc = "evaluating" /\ new.store = s /\ new.tab = t
  <2>1. call[c] \in CallRecord
    BY DEF TypeOK
  <2>2. QED
    BY <1>3, <2>1 DEF CallRecord, Pc, Within
<1>5. call'[c] = new /\ \A d \in Calls : d # c => call'[d] = call[d]
  BY <1>1, <1>4, MovesOne
<1> HIDE DEF s, new
<1>6. /\ stores'[s].tab = t /\ stores'[s].doc = shown[t] /\ stores'[s].freed = 0
      /\ handle[t] = 0
      /\ handle'[t] = s /\ \A u \in Tabs : u # t => handle'[u] = handle[u]
  <2>1. handle[t] = 0
    BY DEF Built, SlotOK, Is
  <2>2. QED
    BY <1>1, <2>1 DEF NewStore, TypeOK
<1>7. DocumentsOK'
  BY <1>1, <1>2, <1>3, <1>6 DEF DocumentsOK, Store
<1>8. SlotOK'
  <2> SUFFICES ASSUME NEW d \in Calls
               PROVE  /\ Is(d, {"building", "dropping"})' => handle'[call'[d].tab] = 0
                      /\ Is(d, {"evaluating"})' =>
                            /\ handle'[call'[d].tab] \in {0, call'[d].store}
                            /\ Store(call[d].store)'.tab = call'[d].tab
    BY DEF SlotOK
  <2>1. CASE d = c
    BY <1>4, <1>5, <1>6, <2>1 DEF Is, Store
  <2>2. CASE d # c
    <3>1. call'[d] = call[d] /\ Is(c, Within)
      BY <1>5, <2>2 DEF Built, Is, Within
    <3>2. ASSUME Is(d, Within)
          PROVE  call[d].tab \in Tabs /\ handle'[call[d].tab] = handle[call[d].tab]
      <4>1. call[d].tab \in Tabs
        BY <3>2 DEF TypeOK, Waits, Is
      <4>2. call[d].tab # t
        BY <2>2, <3>1, <3>2, AloneWithin
      <4>3. QED
        BY <1>6, <4>1, <4>2
    <3>3. Is(d, {"building", "dropping"})' => Is(d, {"building", "dropping"}) /\ Is(d, Within)
      BY <3>1 DEF Is, Within
    <3>4. Is(d, {"evaluating"})' =>
            Is(d, {"evaluating"}) /\ Is(d, Within) /\ call[d].store \in DOMAIN stores
      BY <3>1 DEF Is, Within, TypeOK
    <3>5. QED
      BY <1>1, <3>1, <3>2, <3>3, <3>4 DEF SlotOK, Store
  <2>3. QED
    BY <2>1, <2>2
<1>9. OwnersOK'
  <2>1. ASSUME NEW u \in Tabs, handle'[u] # 0
        PROVE  Store(handle[u])'.tab = u /\ Store(handle[u])'.freed = 0
    <3>1. CASE u = t
      BY <1>6, <3>1 DEF Store
    <3>2. CASE u # t
      BY <1>1, <1>6, <2>1, <3>2 DEF OwnersOK, TypeOK, Store
    <3>3. QED
      BY <3>1, <3>2
  <2>2. ASSUME NEW u \in Tabs, NEW i \in DOMAIN retired'[u]
        PROVE  /\ Store(retired[u][i])'.tab = u
               /\ Store(retired[u][i])'.freed = 0
               /\ retired'[u][i] # handle'[u]
               /\ \A j \in DOMAIN retired'[u] : retired'[u][i] = retired'[u][j] => i = j
    <3>1. i \in DOMAIN retired[u] /\ retired'[u][i] = retired[u][i] /\ retired[u][i] \in DOMAIN stores
      BY <1>2, <2>2 DEF TypeOK
    <3>2. /\ Store(retired[u][i]).tab = u
          /\ Store(retired[u][i]).freed = 0
          /\ retired[u][i] # handle[u]
          /\ \A j \in DOMAIN retired[u] : retired[u][i] = retired[u][j] => i = j
      BY <3>1 DEF OwnersOK
    <3>3. retired[u][i] # handle'[u]
      BY <1>3, <1>6, <3>1, <3>2
    <3>4. QED
      BY <1>1, <1>2, <3>1, <3>2, <3>3 DEF Store
  <2>3. ASSUME NEW z \in DOMAIN stores'
        PROVE  /\ Store(z)'.freed <= 1
               /\ life'[Store(z)'.tab] = "open" /\ shown'[Store(z)'.tab] = Store(z)'.doc =>
                     Store(z)'.freed = 1 \/ handle'[Store(z)'.tab] = z \/ Retired(z)'
    <3>1. CASE z = s
      BY <1>6, <3>1 DEF Store
    <3>2. CASE z # s
      <4>1. z \in DOMAIN stores /\ stores'[z] = Store(z)
        BY <1>1, <1>3, <2>3, <3>2
      <4>2. Retired(z) => Retired(z)'
        BY <1>2, <4>1 DEF Retired, Store
      <4>3. handle[Store(z).tab] = z => handle'[Store(z).tab] = z
        BY <1>6, <4>1, StoreTypes
      <4>4. QED
        BY <1>2, <4>1, <4>2, <4>3 DEF OwnersOK, Store
    <3>3. QED
      BY <3>1, <3>2
  <2>4. QED
    BY <2>1, <2>2, <2>3 DEF OwnersOK
<1>10. CurrentOK'
  <2> SUFFICES ASSUME NEW z \in DOMAIN stores',
                      life[stores'[z].tab] = "open", shown[stores'[z].tab] = stores'[z].doc,
                      ~stores'[z].overtaken
               PROVE  handle'[stores'[z].tab] = z
    BY <1>2 DEF CurrentOK, Store
  <2>1. CASE z = s
    BY <1>6, <2>1
  <2>2. CASE z # s
    <3>1. z \in DOMAIN stores /\ stores'[z] = Store(z)
      BY <1>1, <1>3, <2>2
    <3>2. handle[Store(z).tab] = z
      BY <3>1 DEF CurrentOK
    <3>3. QED
      BY <1>6, <3>1, <3>2, StoreTypes
  <2>3. QED
    BY <2>1, <2>2
<1>11. QED
  BY <1>7, <1>8, <1>9, <1>10

\* domcontentloaded retires what is in the slot.
LEMMA LoadedOwners ==
    ASSUME TypeOK, OwnInv, NEW t \in Tabs, Loaded(t)
    PROVE  OwnInv'
<1> DEFINE h == handle[t]
           m == Len(retired[t])
<1> USE DEF OwnInv
<1>1. /\ DOMAIN stores' = DOMAIN stores
      /\ \A s \in DOMAIN stores :
            stores'[s] = [Store(s) EXCEPT !.overtaken =
                Store(s).overtaken \/ (s = h /\ Store(s).doc = shown[t])]
  BY OvertakenOne
<1>2. \A s \in DOMAIN stores :
        /\ stores'[s].tab = Store(s).tab /\ stores'[s].doc = Store(s).doc
        /\ stores'[s].freed = Store(s).freed
        /\ stores'[s].overtaken = (Store(s).overtaken \/ (s = h /\ Store(s).doc = shown[t]))
  BY <1>1, StoreTypes DEF StoreRecord
<1>3. UNCHANGED <<lock, call, life, shown>> /\ Retire(t)
  BY DEF Loaded
<1>4. /\ handle'[t] = 0
      /\ \A u \in Tabs : u # t => handle'[u] = handle[u] /\ retired'[u] = retired[u]
      /\ h = 0 => retired'[t] = retired[t]
      /\ h # 0 =>
            /\ m \in Nat /\ DOMAIN retired[t] = 1..m /\ DOMAIN retired'[t] = 1..m + 1
            /\ \A i \in 1..m : retired'[t][i] = retired[t][i]
            /\ retired'[t][m + 1] = h
  BY <1>3, RetiredOne
<1> HIDE DEF m
<1>5. h # 0 => h \in DOMAIN stores /\ Store(h).tab = t /\ Store(h).freed = 0
  BY DEF OwnersOK, TypeOK
<1> HIDE DEF h
<1>6. DocumentsOK'
  BY <1>1, <1>2, <1>3 DEF DocumentsOK, Store
<1>7. SlotOK'
  <2> SUFFICES ASSUME NEW d \in Calls
               PROVE  /\ Is(d, {"building", "dropping"})' => handle'[call'[d].tab] = 0
                      /\ Is(d, {"evaluating"})' =>
                            /\ handle'[call'[d].tab] \in {0, call'[d].store}
                            /\ Store(call[d].store)'.tab = call'[d].tab
    BY DEF SlotOK
  <2>1. /\ Is(d, {"building", "dropping"}) \/ Is(d, {"evaluating"}) => call[d].tab \in Tabs
        /\ Is(d, {"evaluating"}) => call[d].store \in DOMAIN stores
    BY DEF TypeOK, Waits, Is, Within
  <2>2. QED
    BY <1>2, <1>3, <1>4, <2>1 DEF SlotOK, Store, Is
<1>8. OwnersOK'
  <2>1. ASSUME NEW u \in Tabs, handle'[u] # 0
        PROVE  Store(handle[u])'.tab = u /\ Store(handle[u])'.freed = 0
    <3>1. u # t /\ handle'[u] = handle[u] /\ handle[u] \in DOMAIN stores
      BY <1>4, <2>1 DEF TypeOK
    <3>2. QED
      BY <1>2, <3>1, <2>1 DEF OwnersOK, Store
  <2>2. ASSUME NEW u \in Tabs, NEW i \in DOMAIN retired'[u]
        PROVE  /\ Store(retired[u][i])'.tab = u
               /\ Store(retired[u][i])'.freed = 0
               /\ retired'[u][i] # handle'[u]
               /\ \A j \in DOMAIN retired'[u] : retired'[u][i] = retired'[u][j] => i = j
    <3>1. ASSUME NEW j \in DOMAIN retired[u]
          PROVE  /\ retired[u][j] \in DOMAIN stores
                 /\ Store(retired[u][j]).tab = u
                 /\ Store(retired[u][j]).freed = 0
                 /\ retired[u][j] # handle[u] /\ retired[u][j] # handle'[u]
                 /\ \A k \in DOMAIN retired[u] : retired[u][j] = retired[u][k] => j = k
      <4>1. /\ retired[u][j] \in DOMAIN stores
            /\ Store(retired[u][j]).tab = u
            /\ Store(retired[u][j]).freed = 0
            /\ retired[u][j] # handle[u]
            /\ \A k \in DOMAIN retired[u] : retired[u][j] = retired[u][k] => j = k
        BY DEF OwnersOK, TypeOK
      <4>2. retired[u][j] # handle'[u]
        BY <1>4, <4>1, StoreTypes
      <4>3. QED
        BY <4>1, <4>2
    <3>2. CASE u # t \/ h = 0
      <4>1. retired'[u] = retired[u]
        BY <1>4, <3>2
      <4>2. QED
        BY <1>2, <3>1, <4>1, <2>2 DEF Store
    <3>3. CASE u = t /\ h # 0
      <4>1. /\ DOMAIN retired[u] = 1..m /\ DOMAIN retired'[u] = 1..m + 1 /\ m \in Nat
            /\ \A j \in 1..m + 1 : j \in 1..m \/ j = m + 1
            /\ \A j \in 1..m : retired'[u][j] = retired[u][j]
            /\ retired'[u][m + 1] = h /\ handle[u] = h /\ handle'[u] = 0
        BY <1>4, <3>3 DEF h
      <4>2. \A j \in 1..m : retired'[u][j] # h
        BY <3>1, <4>1
      <4>3. CASE i \in 1..m
        <5>1. ASSUME NEW j \in DOMAIN retired'[u], retired'[u][i] = retired'[u][j] PROVE i = j
          <6>1. j \in 1..m
            BY <4>1, <4>2, <4>3, <5>1
          <6>2. QED
            BY <3>1, <4>1, <4>3, <5>1, <6>1
        <5>2. QED
          BY <1>2, <3>1, <4>1, <4>3, <5>1 DEF Store
      <4>4. CASE i = m + 1
        <5>1. \A j \in DOMAIN retired'[u] : retired'[u][i] = retired'[u][j] => i = j
          BY <4>1, <4>2, <4>4
        <5>2. Store(retired[u][i])' = stores'[h]
          BY <4>1, <4>4 DEF Store
        <5>3. QED
          BY <1>2, <1>5, <3>3, <4>1, <4>4, <5>1, <5>2
      <4>5. QED
        BY <2>2, <4>1, <4>3, <4>4
    <3>4. QED
      BY <3>2, <3>3
  <2>3. ASSUME NEW s \in DOMAIN stores
        PROVE  /\ Store(s)'.freed <= 1
               /\ life'[Store(s)'.tab] = "open" /\ shown'[Store(s)'.tab] = Store(s)'.doc =>
                     Store(s)'.freed = 1 \/ handle'[Store(s)'.tab] = s \/ Retired(s)'
    <3>1. CASE s = h
      <4>1. h # 0 /\ Store(s)'.tab = t /\ Store(s)'.freed = 0
        BY <1>2, <1>5, <3>1, StoreTypes DEF Store
      <4>2. m + 1 \in DOMAIN retired'[t] /\ retired'[t][m + 1] = s
        BY <1>4, <3>1, <4>1
      <4>3. Retired(s)'
        BY <4>1, <4>2 DEF Retired
      <4>4. QED
        BY <4>1, <4>3
    <3>2. CASE s # h
      <4>1. ASSUME Retired(s) PROVE Retired(s)'
        <5>1. PICK i \in DOMAIN retired[Store(s).tab] : retired[Store(s).tab][i] = s
          BY <4>1 DEF Retired
        <5>2. CASE Store(s).tab # t \/ h = 0
          BY <1>2, <1>4, <5>1, <5>2, StoreTypes DEF Retired, Store
        <5>3. CASE Store(s).tab = t /\ h # 0
          <6>1. i \in 1..m + 1 /\ retired'[t][i] = s
            BY <1>4, <5>1, <5>3
          <6>2. QED
            BY <1>2, <1>4, <5>3, <6>1 DEF Retired, Store
        <5>4. QED
          BY <5>2, <5>3
      <4>2. handle[Store(s).tab] = s => handle'[Store(s).tab] = s
        BY <1>4, <3>2, StoreTypes DEF h
      <4>3. QED
        BY <1>2, <1>3, <4>1, <4>2 DEF OwnersOK, Store
    <3>3. QED
      BY <3>1, <3>2
  <2>4. QED
    BY <1>1, <2>1, <2>2, <2>3 DEF OwnersOK
<1>9. CurrentOK'
  <2> SUFFICES ASSUME NEW s \in DOMAIN stores,
                      life[Store(s).tab] = "open", shown[Store(s).tab] = Store(s).doc,
                      ~Store(s).overtaken, ~(s = h /\ Store(s).doc = shown[t])
               PROVE  handle'[Store(s).tab] = s
    BY <1>1, <1>2, <1>3 DEF CurrentOK, Store
  <2>1. handle[Store(s).tab] = s
    BY DEF CurrentOK
  <2>2. Store(s).tab # t
    BY <2>1 DEF h
  <2>3. QED
    BY <1>4, <2>1, <2>2, StoreTypes
<1>10. QED
  BY <1>6, <1>7, <1>8, <1>9

\* A new document has no store.
LEMMA NavigateOwners ==
    ASSUME TypeOK, OwnInv, NEW t \in Tabs, Navigate(t)
    PROVE  OwnInv'
<1> USE DEF OwnInv
<1>1. UNCHANGED <<handle, retired, call, life, stores>>
  BY DEF Navigate, serverVars
<1>2. /\ shown'[t] = Len(connected) + 1
      /\ \A u \in Tabs : u # t => shown'[u] = shown[u]
      /\ \A u \in Tabs : shown[u] # Len(connected) + 1
      /\ \A s \in DOMAIN stores : Store(s).doc # Len(connected) + 1
  <2>1. DOMAIN connected = 1..Len(connected) /\ Len(connected) \in Nat
    BY LenProperties DEF TypeOK
  <2>2. Len(connected) + 1 \notin DOMAIN connected
    BY <2>1
  <2>3. QED
    BY <2>2 DEF Navigate, TypeOK
<1>3. DocumentsOK'
  BY <1>1, <1>2 DEF DocumentsOK, Store
<1>4. SlotOK'
  BY <1>1 DEF SlotOK, Is, Store
<1>5. OwnersOK'
  <2>1. \A s \in DOMAIN stores : shown'[Store(s).tab] = Store(s).doc => shown[Store(s).tab] = Store(s).doc
    BY <1>2, StoreTypes
  <2>2. \A s \in DOMAIN stores : Retired(s)' <=> Retired(s)
    BY <1>1 DEF Retired, Store
  <2>3. QED
    BY <1>1, <2>1, <2>2 DEF OwnersOK, Store
<1>6. CurrentOK'
  BY <1>1, <1>2, StoreTypes DEF CurrentOK, Store
<1>7. QED
  BY <1>3, <1>4, <1>5, <1>6

\* A slot that is at most emptied stays with the holder of the lock.
LEMMA SlotKept ==
    ASSUME TypeOK, SlotOK, OwnersOK,
           \A t \in Tabs : handle'[t] \in {0, handle[t]},
           DOMAIN stores' = DOMAIN stores,
           \A s \in DOMAIN stores : stores'[s].tab = Store(s).tab,
           \A d \in Calls :
              /\ Is(d, {"building", "dropping"})' =>
                    \/ handle'[call'[d].tab] = 0
                    \/ Is(d, {"building", "dropping"}) /\ call'[d].tab = call[d].tab
              /\ Is(d, {"evaluating"})' =>
                    \/ /\ Is(d, {"evaluating"})
                       /\ call'[d].tab = call[d].tab /\ call'[d].store = call[d].store
                    \/ /\ call'[d].tab \in Tabs /\ handle[call'[d].tab] = call'[d].store
                       /\ call'[d].store # 0
    PROVE  SlotOK'
<1> SUFFICES ASSUME NEW d \in Calls
             PROVE  /\ Is(d, {"building", "dropping"})' => handle'[call'[d].tab] = 0
                    /\ Is(d, {"evaluating"})' =>
                          /\ handle'[call'[d].tab] \in {0, call'[d].store}
                          /\ Store(call[d].store)'.tab = call'[d].tab
  BY DEF SlotOK
<1>1. ASSUME Is(d, {"building", "dropping"})' PROVE handle'[call'[d].tab] = 0
  <2>1. Is(d, {"building", "dropping"}) => call[d].tab \in Tabs /\ handle[call[d].tab] = 0
    BY DEF SlotOK, TypeOK, Waits, Is, Within
  <2>2. QED
    BY <1>1, <2>1
<1>2. ASSUME Is(d, {"evaluating"})'
      PROVE  /\ handle'[call'[d].tab] \in {0, call'[d].store}
             /\ Store(call[d].store)'.tab = call'[d].tab
  <2>1. CASE /\ Is(d, {"evaluating"})
             /\ call'[d].tab = call[d].tab /\ call'[d].store = call[d].store
    <3>1. /\ call[d].tab \in Tabs /\ call[d].store \in DOMAIN stores
          /\ handle[call[d].tab] \in {0, call[d].store} /\ Store(call[d].store).tab = call[d].tab
      BY <2>1 DEF SlotOK, TypeOK, Waits, Is, Within
    <3>2. QED
      BY <2>1, <3>1 DEF Store
  <2>2. CASE /\ call'[d].tab \in Tabs /\ handle[call'[d].tab] = call'[d].store
             /\ call'[d].store # 0
    <3>1. call'[d].store \in DOMAIN stores /\ Store(call'[d].store).tab = call'[d].tab
      BY <2>2 DEF OwnersOK, TypeOK
    <3>2. QED
      BY <2>2, <3>1 DEF Store
  <2>3. QED
    BY <1>2, <2>1, <2>2
<1>3. QED
  BY <1>1, <1>2

\* A call that is not evaluating, building or dropping has no part in the slot.
LEMMA SlotOfOthers ==
    ASSUME TypeOK, SlotOK, OwnersOK, NEW c \in Calls, NEW new \in CallRecord, Moves(c, new),
           new.pc \notin {"building", "dropping", "evaluating"},
           \A t \in Tabs : handle'[t] \in {0, handle[t]},
           DOMAIN stores' = DOMAIN stores,
           \A s \in DOMAIN stores : stores'[s].tab = Store(s).tab
    PROVE  SlotOK'
<1>1. call'[c] = new /\ \A d \in Calls : d # c => call'[d] = call[d]
  BY MovesOne
<1>2. \A d \in Calls :
        Is(d, {"building", "dropping"})' \/ Is(d, {"evaluating"})' => d # c
  BY <1>1 DEF Is
<1>3. \A d \in Calls :
        /\ Is(d, {"building", "dropping"})' =>
              Is(d, {"building", "dropping"}) /\ call'[d].tab = call[d].tab
        /\ Is(d, {"evaluating"})' =>
              /\ Is(d, {"evaluating"})
              /\ call'[d].tab = call[d].tab /\ call'[d].store = call[d].store
  BY <1>1, <1>2 DEF Is
<1>4. QED
  BY <1>3, SlotKept

\* A call that ends, or is made again.
LEMMA EndIsAMove ==
    ASSUME TypeOK, NEW c \in Calls, (\E how \in Ended : Ends(c, how)) \/ EndDead(c)
    PROVE  \E new \in CallRecord : Moves(c, new) /\ new.pc \in {"queued"} \cup Ended
<1>1. ASSUME NEW how \in Ended, Ends(c, how)
      PROVE  \E new \in CallRecord : Moves(c, new) /\ new.pc \in {"queued"} \cup Ended
  BY <1>1, EndIsARecord DEF Ends
<1>2. CASE Moves(c, [call[c] EXCEPT !.pc = "queued", !.attempt = 2, !.ran = FALSE])
  <2>1. call[c] \in CallRecord
    BY DEF TypeOK
  <2>2. /\ [call[c] EXCEPT !.pc = "queued", !.attempt = 2, !.ran = FALSE] \in CallRecord
        /\ [call[c] EXCEPT !.pc = "queued", !.attempt = 2, !.ran = FALSE].pc = "queued"
    BY <2>1 DEF CallRecord, Pc
  <2>3. QED
    BY <1>2, <2>2
<1>3. QED
  BY <1>1, <1>2 DEF EndDead, Ended

LEMMA CallOwners ==
    ASSUME TypeOK, LockOK, OwnInv, NEW c \in Calls,
           \/ Start(c) \/ Enter(c) \/ Released(c) \/ Run(c) \/ Answered(c)
           \/ TargetClosed(c) \/ Fails(c) \/ DeadContext(c) \/ Dropped(c) \/ Cancelled(c),
           RegistryConstants
    PROVE  OwnInv'
<1> USE DEF OwnInv
<1>1. UNCHANGED life /\ ClosesAtMost
  BY DEF Start, Enter, Released, Proceed, Run, Answered, TargetClosed, Fails, DeadContext,
         Dropped, Cancelled, ClosesAtMost
<1>2. ASSUME UNCHANGED <<handle, retired, shown, stores>>,
             \E new \in CallRecord : Moves(c, new) /\ new.pc \in {"queued"} \cup Ended
      PROVE  OwnInv'
  <2>1. PICK new \in CallRecord : Moves(c, new) /\ new.pc \in {"queued"} \cup Ended
    BY <1>2
  <2>2. Quiet
    BY <1>2 DEF Quiet, SameStores, Store
  <2>3. SlotOK'
    BY <1>2, <2>1, <2>2, SlotOfOthers DEF Ended, Quiet, SameStores
  <2>4. QED
    BY <1>1, <2>2, <2>3, QuietKeeps
<1>3. CASE Start(c)
  <2>1. UNCHANGED <<handle, retired, shown, stores>>
    BY <1>3 DEF Start, browserVars
  <2>2. PICK new \in CallRecord : Moves(c, new) /\ new.pc = "queued"
    BY <1>3, StartIsAMove
  <2>3. QED
    BY <1>2, <2>1, <2>2
<1>4. CASE Enter(c) \/ Released(c)
  <2> DEFINE t == call[c].tab
  <2>1. t \in Tabs /\ call[c] \in CallRecord /\ UNCHANGED <<handle, shown>>
    BY <1>4 DEF Enter, Released, Proceed, TypeOK, Waits, Is, Within
  <2>2. CASE MustRelease(t) /\ retired' = Popped(t) /\ stores' = Freed(LastRetired(t))
             /\ Moves(c, [call[c] EXCEPT !.pc = "releasing"])
    <3>1. /\ DocumentsOK' /\ OwnersOK' /\ CurrentOK'
          /\ DOMAIN stores' = DOMAIN stores
          /\ \A s \in DOMAIN stores : stores'[s].tab = Store(s).tab
      BY <1>1, <2>1, <2>2, PopKeeps
    <3>2. /\ [call[c] EXCEPT !.pc = "releasing"] \in CallRecord
          /\ [call[c] EXCEPT !.pc = "releasing"].pc = "releasing"
      BY <2>1 DEF CallRecord, Pc, Within
    <3>3. SlotOK'
      BY <2>1, <2>2, <3>1, <3>2, SlotOfOthers
    <3>4. QED
      BY <3>1, <3>3
  <2>3. CASE /\ handle[t] # 0
             /\ Moves(c, [call[c] EXCEPT !.pc = "evaluating", !.store = handle[t]])
             /\ UNCHANGED <<retired, stores>>
    <3> DEFINE new == [call[c] EXCEPT !.pc = "evaluating", !.store = handle[t]]
    <3>1. new \in CallRecord /\ new.pc = "evaluating" /\ new.tab = t /\ new.store = handle[t]
      BY <2>1 DEF CallRecord, Pc, Within, TypeOK
    <3>2. call'[c] = new /\ \A d \in Calls : d # c => call'[d] = call[d]
      BY <2>3, <3>1, MovesOne
    <3> HIDE DEF new
    <3>3. Quiet
      BY <2>1, <2>3 DEF Quiet, SameStores, Store
    <3>4. \A d \in Calls :
            /\ Is(d, {"building", "dropping"})' =>
                  Is(d, {"building", "dropping"}) /\ call'[d].tab = call[d].tab
            /\ Is(d, {"evaluating"})' =>
                  \/ /\ Is(d, {"evaluating"})
                     /\ call'[d].tab = call[d].tab /\ call'[d].store = call[d].store
                  \/ /\ call'[d].tab \in Tabs /\ handle[call'[d].tab] = call'[d].store
                     /\ call'[d].store # 0
      BY <2>1, <2>3, <3>1, <3>2 DEF Is
    <3>5. SlotOK'
      BY <3>3, <3>4, SlotKept DEF Quiet, SameStores
    <3>6. QED
      BY <1>1, <3>3, <3>5, QuietKeeps
  <2>4. CASE /\ handle[t] = 0
             /\ Moves(c, [call[c] EXCEPT !.pc = "building", !.seed = seed, !.at = shown[t]])
             /\ UNCHANGED <<retired, stores>>
    <3> DEFINE new == [call[c] EXCEPT !.pc = "building", !.seed = seed, !.at = shown[t]]
    <3>1. new \in CallRecord /\ new.pc = "building" /\ new.tab = t
      BY <2>1 DEF CallRecord, Pc, Within, TypeOK
    <3>2. call'[c] = new /\ \A d \in Calls : d # c => call'[d] = call[d]
      BY <2>4, <3>1, MovesOne
    <3> HIDE DEF new
    <3>3. Quiet
      BY <2>1, <2>4 DEF Quiet, SameStores, Store
    <3>4. \A d \in Calls :
            /\ Is(d, {"building", "dropping"})' =>
                  \/ handle'[call'[d].tab] = 0
                  \/ Is(d, {"building", "dropping"}) /\ call'[d].tab = call[d].tab
            /\ Is(d, {"evaluating"})' =>
                  /\ Is(d, {"evaluating"})
                  /\ call'[d].tab = call[d].tab /\ call'[d].store = call[d].store
      BY <2>1, <2>4, <3>1, <3>2 DEF Is
    <3>5. SlotOK'
      BY <3>3, <3>4, SlotKept DEF Quiet, SameStores
    <3>6. QED
      BY <1>1, <3>3, <3>5, QuietKeeps
  <2>5. QED
    BY <1>4, <2>2, <2>3, <2>4 DEF Enter, Released, Proceed
<1>5. CASE Run(c)
  <2> DEFINE s == call[c].store
  <2>1. s \in DOMAIN stores /\ call[c] \in CallRecord /\ call[c].pc = "evaluating"
    BY <1>5 DEF Run, TypeOK, Is
  <2>2. UNCHANGED <<handle, retired, shown>>
    BY <1>5 DEF Run
  <2>3. UNCHANGED stores \/ Mint(s)
    BY <1>5 DEF Run
  <2>4. Quiet
    <3>1. CASE UNCHANGED stores
      BY <2>2, <3>1 DEF Quiet, SameStores, Store
    <3>2. CASE Mint(s)
      BY <2>1, <2>2, <3>2, MintedOne DEF Quiet, SameStores
    <3>3. QED
      BY <2>3, <3>1, <3>2
  <2>5. /\ \A d \in Calls : d # c => call'[d] = call[d]
        /\ call'[c].pc = call[c].pc /\ call'[c].tab = call[c].tab /\ call'[c].store = call[c].store
    <3>1. PICK new \in CallRecord : /\ Moves(c, new) /\ new.pc = "evaluating"
                                    /\ new.tab = call[c].tab /\ new.store = call[c].store
      BY <1>5, RunIsAMove
    <3>2. QED
      BY <2>1, <3>1, MovesOne
  <2>6. \A d \in Calls :
            /\ Is(d, {"building", "dropping"})' =>
                  Is(d, {"building", "dropping"}) /\ call'[d].tab = call[d].tab
            /\ Is(d, {"evaluating"})' =>
                  /\ Is(d, {"evaluating"})
                  /\ call'[d].tab = call[d].tab /\ call'[d].store = call[d].store
    BY <2>5 DEF Is
  <2>7. SlotOK'
    BY <2>4, <2>6, SlotKept DEF Quiet, SameStores
  <2>8. QED
    BY <1>1, <2>4, <2>7, QuietKeeps
<1>6. CASE Answered(c) \/ Fails(c) \/ Cancelled(c) \/ Dropped(c)
  <2>1. UNCHANGED <<handle, retired, shown, stores>>
    BY <1>6 DEF Answered, Fails, Cancelled, Dropped, browserVars
  <2>2. (\E how \in Ended : Ends(c, how)) \/ EndDead(c)
    BY <1>6 DEF Answered, Fails, Cancelled, Dropped, Ended
  <2>3. QED
    BY <1>2, <2>1, <2>2, EndIsAMove
<1>7. CASE TargetClosed(c)
  <2>1. /\ handle' = [handle EXCEPT ![call[c].tab] = 0]
        /\ UNCHANGED <<retired, shown, stores>>
        /\ Ends(c, "ended") /\ life[call[c].tab] = "closed" /\ call[c].tab \in Tabs
    BY <1>7 DEF TargetClosed, browserVars, Live, TypeOK, Waits, Is, Within
  <2>2. /\ DocumentsOK' /\ OwnersOK' /\ CurrentOK'
        /\ DOMAIN stores' = DOMAIN stores
        /\ \A s \in DOMAIN stores : stores'[s].tab = Store(s).tab
    BY <1>1, <2>1, EmptyKeeps
  <2>3. PICK new \in CallRecord : Moves(c, new) /\ new.pc \in {"queued"} \cup Ended
    BY <2>1, EndIsAMove DEF Ended
  <2>4. \A u \in Tabs : handle'[u] \in {0, handle[u]}
    BY <2>1 DEF TypeOK
  <2>5. SlotOK'
    BY <2>2, <2>3, <2>4, SlotOfOthers DEF Ended
  <2>6. QED
    BY <2>2, <2>5
<1>8. CASE DeadContext(c)
  <2> DEFINE t == call[c].tab
  <2>1. t \in Tabs /\ call[c] \in CallRecord /\ UNCHANGED <<retired, shown>>
    BY <1>8 DEF DeadContext, ContextDied, TypeOK, Waits, Is, Within
  <2>2. CASE /\ handle[t] # 0 /\ handle' = [handle EXCEPT ![t] = 0]
             /\ stores' = Freed(handle[t])
             /\ Moves(c, [call[c] EXCEPT !.pc = "dropping"])
    <3>1. shown[t] # Store(handle[t]).doc
      BY <1>8, <2>2 DEF DeadContext, ContextDied, SlotOK, Is
    <3>2. /\ DocumentsOK' /\ OwnersOK' /\ CurrentOK'
          /\ DOMAIN stores' = DOMAIN stores
          /\ \A s \in DOMAIN stores : stores'[s].tab = Store(s).tab
      BY <1>1, <2>1, <2>2, <3>1, EmptyKeeps
    <3> DEFINE new == [call[c] EXCEPT !.pc = "dropping"]
    <3>3. new \in CallRecord /\ new.pc = "dropping" /\ new.tab = t
      BY <2>1 DEF CallRecord, Pc, Within
    <3>4. call'[c] = new /\ \A d \in Calls : d # c => call'[d] = call[d]
      BY <2>2, <3>3, MovesOne
    <3> HIDE DEF new
    <3>5. \A u \in Tabs : handle'[u] \in {0, handle[u]}
      BY <2>2 DEF TypeOK
    <3>6. handle'[t] = 0
      BY <2>1, <2>2 DEF TypeOK
    <3>7. \A d \in Calls :
            /\ Is(d, {"building", "dropping"})' =>
                  \/ handle'[call'[d].tab] = 0
                  \/ Is(d, {"building", "dropping"}) /\ call'[d].tab = call[d].tab
            /\ Is(d, {"evaluating"})' =>
                  /\ Is(d, {"evaluating"})
                  /\ call'[d].tab = call[d].tab /\ call'[d].store = call[d].store
      BY <3>3, <3>4, <3>6 DEF Is
    <3>8. SlotOK'
      BY <3>2, <3>5, <3>7, SlotKept
    <3>9. QED
      BY <3>2, <3>8
  <2>3. CASE EndDead(c) /\ UNCHANGED <<handle, stores>>
    BY <1>2, <2>1, <2>3, EndIsAMove
  <2>4. QED
    BY <1>8, <2>2, <2>3 DEF DeadContext
<1>9. QED
  BY <1>3, <1>4, <1>5, <1>6, <1>7, <1>8

LEMMA TabOwners ==
    ASSUME TypeOK, LockOK, OwnInv, NEW t \in Tabs,
           Close(t) \/ Drained(t) \/ Gone(t) \/ Navigate(t) \/ Loaded(t) \/ Script(t)
    PROVE  OwnInv'
<1> USE DEF OwnInv
<1>1. ASSUME UNCHANGED call, \A u \in Tabs : handle'[u] \in {0, handle[u]},
             DOMAIN stores' = DOMAIN stores,
             \A s \in DOMAIN stores : stores'[s].tab = Store(s).tab
      PROVE  SlotOK'
  BY <1>1, SlotKept DEF Is
<1>2. ASSUME UNCHANGED <<call, handle, retired, shown, stores>>, ClosesAtMost
      PROVE  OwnInv'
  <2>1. Quiet
    BY <1>2 DEF Quiet, SameStores, Store
  <2>2. SlotOK'
    BY <1>1, <1>2 DEF Store
  <2>3. QED
    BY <1>2, <2>1, <2>2, QuietKeeps
<1>3. CASE Dispose(t)
  <2>1. UNCHANGED <<call, shown>>
    BY <1>3 DEF Dispose
  <2>2. life'[t] # "open" /\ ClosesAtMost
    BY <1>3 DEF Dispose, ClosesAtMost, TypeOK
  <2>3. CASE MustRelease(t) /\ retired' = Popped(t) /\ stores' = Freed(LastRetired(t)) /\ UNCHANGED handle
    <3>1. /\ DocumentsOK' /\ OwnersOK' /\ CurrentOK'
          /\ DOMAIN stores' = DOMAIN stores
          /\ \A s \in DOMAIN stores : stores'[s].tab = Store(s).tab
      BY <2>1, <2>2, <2>3, PopKeeps
    <3>2. SlotOK'
      BY <1>1, <2>1, <2>3, <3>1
    <3>3. QED
      BY <3>1, <3>2
  <2>4. CASE /\ handle[t] # 0 /\ handle' = [handle EXCEPT ![t] = 0]
             /\ stores' = Freed(handle[t]) /\ UNCHANGED retired
    <3>1. /\ DocumentsOK' /\ OwnersOK' /\ CurrentOK'
          /\ DOMAIN stores' = DOMAIN stores
          /\ \A s \in DOMAIN stores : stores'[s].tab = Store(s).tab
      BY <2>1, <2>2, <2>4, EmptyKeeps
    <3>2. \A u \in Tabs : handle'[u] \in {0, handle[u]}
      BY <2>4 DEF TypeOK
    <3>3. SlotOK'
      BY <1>1, <2>1, <3>1, <3>2
    <3>4. QED
      BY <3>1, <3>3
  <2>5. CASE UNCHANGED <<handle, retired, stores>>
    BY <1>2, <2>1, <2>2, <2>5
  <2>6. QED
    BY <1>3, <2>3, <2>4, <2>5 DEF Dispose
<1>4. CASE Gone(t)
  <2>1. UNCHANGED <<call, handle, retired, shown, stores>> /\ ClosesAtMost
    BY <1>4 DEF Gone, browserVars, ClosesAtMost, TypeOK
  <2>2. QED
    BY <1>2, <2>1
<1>5. CASE Script(t)
  <2>1. UNCHANGED <<call, handle, retired, shown, stores>> /\ ClosesAtMost
    BY <1>5 DEF Script, serverVars, ClosesAtMost
  <2>2. QED
    BY <1>2, <2>1
<1>6. QED
  BY <1>3, <1>4, <1>5, LoadedOwners, NavigateOwners DEF Close, Drained

LEMMA OwnersInvariant ==
    ASSUME TypeOK, LockOK, OwnInv, RegistryConstants, [Next]_vars
    PROVE  OwnInv'
<1>1. CASE UNCHANGED vars
  BY <1>1 DEF vars, serverVars, browserVars, OwnInv, DocumentsOK, SlotOK, OwnersOK, CurrentOK,
              Store, Is, Retired
<1>2. CASE Next
  <2>1. Busy \subseteq Tabs
    BY DEF RegistryConstants
  <2>2. QED
    BY <1>2, <2>1, CallOwners, BuiltOwners, TabOwners DEF Next
<1>3. QED
  BY <1>1, <1>2

LEMMA InitOwners ==
    ASSUME RegistryConstants, Init
    PROVE  OwnInv
<1>1. \A t, u \in Tabs : shown[t] = shown[u] => t = u
  BY FirstDocuments
<1>2. DOMAIN stores = {} /\ \A t \in Tabs : handle[t] = 0 /\ DOMAIN retired[t] = {}
  <2>1. DOMAIN <<>> = {}
    OBVIOUS
  <2>2. QED
    BY <2>1 DEF Init
<1>3. \A c \in Calls : call[c].pc = "idle"
  BY DEF Init, Idle
<1>4. QED
  BY <1>1, <1>2, <1>3 DEF OwnInv, DocumentsOK, SlotOK, OwnersOK, CurrentOK, Is

\* Of every reachable state: the owners too.
THEOREM OwnersCorrect == Spec => [](TypeOK /\ LockOK /\ OwnInv)
<1>1. Init => OwnInv
  BY InitOwners, RegistryConstants
<1>2. (TypeOK /\ LockOK) /\ OwnInv /\ [Next]_vars => OwnInv'
  BY OwnersInvariant, RegistryConstants
<1>3. QED
  BY <1>1, <1>2, TypeCorrect, PTL DEF Spec

\* Nothing is abandoned or released twice, whatever dies, fails or is closed
\* under the calls (registry.py, forget, dispose and _drop).
THEOREM OneOwnerTheorem == Spec => []OneOwner
<1>1. ASSUME TypeOK, OwnInv PROVE OneOwner
  <2> SUFFICES ASSUME NEW s \in DOMAIN stores
      PROVE  LET t == Store(s).tab
                 slot == IF handle[t] = s THEN 1 ELSE 0
                 waiting == Cardinality({i \in DOMAIN retired[t] : retired[t][i] = s})
             IN /\ slot + waiting + Store(s).freed <= 1
                /\ life[t] = "open" /\ shown[t] = Store(s).doc =>
                     slot + waiting + Store(s).freed = 1
    BY DEF OneOwner
  <2> DEFINE t == Store(s).tab
             places == {i \in DOMAIN retired[t] : retired[t][i] = s}
             freed == Store(s).freed
  <2>1. t \in Tabs /\ freed \in {0, 1} /\ s # 0
    BY <1>1, StoreTypes DEF OwnInv, OwnersOK
  <2>2. CASE Retired(s)
    <3>1. PICK i \in DOMAIN retired[t] : retired[t][i] = s
      BY <2>2 DEF Retired
    <3>2. places = {i} /\ handle[t] # s /\ freed = 0
      BY <1>1, <2>1, <3>1 DEF OwnInv, OwnersOK
    <3>3. Cardinality(places) = 1
      BY <3>2, FS_Singleton
    <3>4. QED
      BY <3>2, <3>3
  <2>3. CASE ~Retired(s)
    <3>1. places = {}
      BY <2>3 DEF Retired
    <3>2. Cardinality(places) = 0
      BY <3>1, FS_EmptySet
    <3>3. handle[t] = s => freed = 0
      BY <1>1, <2>1 DEF OwnInv, OwnersOK
    <3>4. life[t] = "open" /\ shown[t] = Store(s).doc => freed = 1 \/ handle[t] = s
      BY <1>1, <2>3 DEF OwnInv, OwnersOK
    <3>5. QED
      BY <2>1, <3>2, <3>3, <3>4
  <2>4. QED
    BY <2>2, <2>3
<1>2. QED
  BY <1>1, OwnersCorrect, PTL

-----------------------------------------------------------------------------
(* A release, and the operations in flight. *)

\* Whatever a step releases, it was in the slot or waiting.
LEMMA ReleaseIsAlone ==
    ASSUME TypeOK, LockOK, OwnInv, RegistryConstants, Next,
           NEW s \in DOMAIN stores, stores'[s].freed > Store(s).freed
    PROVE  \/ life'[Store(s).tab] # "open"
           \/ \A c \in Calls : ~(call'[c].pc = "evaluating" /\ call'[c].store = s)
<1> USE StoreTypes
<1>0. Store(s).freed \in Nat /\ stores'[s].freed # Store(s).freed /\ stores'[s] # Store(s)
  OBVIOUS
<1>1. \A u \in Tabs : handle[u] # 0 => Store(handle[u]).tab = u
  BY DEF OwnInv, OwnersOK
<1>2. ASSUME NEW c \in Calls, Is(c, {"queued"} \cup Within), lock[call[c].tab][1] = c,
             NEW new \in CallRecord, Moves(c, new), new.pc # "evaluating",
             call[c].tab = Store(s).tab, NEW d \in Calls
      PROVE  ~(call'[d].pc = "evaluating" /\ call'[d].store = s)
  <2> SUFFICES ASSUME call'[d].pc = "evaluating", call'[d].store = s PROVE FALSE
    OBVIOUS
  <2>1. d # c /\ call'[d] = call[d]
    BY <1>2, MovesOne
  <2>2. Is(d, {"evaluating"}) /\ Is(d, Within) /\ call[d].store = s
    BY <2>1 DEF Is, Within
  <2>3. call[d].tab = Store(s).tab
    BY <2>2 DEF OwnInv, SlotOK
  <2>4. lock[call[d].tab][1] = d
    BY <2>2 DEF LockOK
  <2>5. QED
    BY <1>2, <2>1, <2>3, <2>4
<1>3. ASSUME NEW c \in Calls, Enter(c) \/ Released(c)
      PROVE  \A d \in Calls : ~(call'[d].pc = "evaluating" /\ call'[d].store = s)
  <2> DEFINE t == call[c].tab
             new == [call[c] EXCEPT !.pc = "releasing"]
  <2>1. Waits(c) /\ t \in Tabs /\ call[c] \in CallRecord
    BY <1>3 DEF Enter, Released, TypeOK, Waits, Is, Within
  <2>2. lock[t][1] = c
    BY <1>3 DEF Enter, Released, HasLock, LockOK, Is, Within
  <2>3. MustRelease(t) /\ retired' = Popped(t) /\ stores' = Freed(LastRetired(t)) /\ Moves(c, new)
    BY <1>3 DEF Enter, Released, Proceed, Store
  <2>4. LastRetired(t) \in DOMAIN stores /\ Len(retired[t]) \in DOMAIN retired[t]
    BY <2>1, <2>3, PoppedOne
  <2>5. s = LastRetired(t)
    BY <1>0, <2>3, <2>4, FreedOne
  <2>6. Store(s).tab = t
    BY <2>1, <2>4, <2>5 DEF OwnInv, OwnersOK, LastRetired
  <2>7. new \in CallRecord /\ new.pc = "releasing"
    BY <2>1 DEF CallRecord, Pc, Within
  <2>8. QED
    BY <1>2, <2>1, <2>2, <2>3, <2>6, <2>7 DEF Waits
<1>4. ASSUME NEW c \in Calls, DeadContext(c)
      PROVE  \A d \in Calls : ~(call'[d].pc = "evaluating" /\ call'[d].store = s)
  <2> DEFINE t == call[c].tab
             new == [call[c] EXCEPT !.pc = "dropping"]
  <2>1. Is(c, Within) /\ Waits(c) /\ t \in Tabs /\ call[c] \in CallRecord
    BY <1>4 DEF DeadContext, ContextDied, TypeOK, Waits, Is, Within
  <2>2. handle[t] # 0 /\ stores' = Freed(handle[t]) /\ Moves(c, new)
    BY <1>4 DEF DeadContext, Store
  <2>3. handle[t] \in DOMAIN stores
    BY <2>1, <2>2 DEF TypeOK
  <2>4. s = handle[t] /\ Store(s).tab = t
    BY <1>0, <1>1, <2>1, <2>2, <2>3, FreedOne
  <2>5. lock[t][1] = c
    BY <2>1 DEF LockOK
  <2>6. new \in CallRecord /\ new.pc = "dropping"
    BY <2>1 DEF CallRecord, Pc, Within
  <2>7. QED
    BY <1>2, <2>1, <2>2, <2>4, <2>5, <2>6 DEF Waits
<1>5. ASSUME NEW t \in Tabs, Dispose(t) PROVE life'[Store(s).tab] # "open"
  <2>1. CASE MustRelease(t) /\ retired' = Popped(t) /\ stores' = Freed(LastRetired(t))
             /\ life' = [life EXCEPT ![t] = "draining"]
    <3>1. LastRetired(t) \in DOMAIN stores /\ Len(retired[t]) \in DOMAIN retired[t]
      BY <2>1, PoppedOne
    <3>2. s = LastRetired(t)
      BY <1>0, <2>1, <3>1, FreedOne
    <3>3. Store(s).tab = t
      BY <3>1, <3>2 DEF OwnInv, OwnersOK, LastRetired
    <3>4. QED
      BY <2>1, <3>3 DEF TypeOK
  <2>2. CASE handle[t] # 0 /\ stores' = Freed(handle[t]) /\ life' = [life EXCEPT ![t] = "leaving"]
    <3>1. handle[t] \in DOMAIN stores
      BY <2>2 DEF TypeOK
    <3>2. s = handle[t] /\ Store(s).tab = t
      BY <1>0, <1>1, <2>2, <3>1, FreedOne
    <3>3. QED
      BY <2>2, <3>2 DEF TypeOK
  <2>3. CASE UNCHANGED stores
    BY <2>3 DEF Store
  <2>4. QED
    BY <1>5, <2>1, <2>2, <2>3 DEF Dispose
<1>6. ASSUME NEW c \in Calls,
             \/ Start(c) \/ Built(c) \/ Run(c) \/ Answered(c)
             \/ TargetClosed(c) \/ Fails(c) \/ Dropped(c) \/ Cancelled(c)
      PROVE  FALSE
  <2>1. CASE UNCHANGED stores
    BY <2>1 DEF Store
  <2>2. CASE Built(c)
    BY <1>0, <2>2, BuiltOne
  <2>3. CASE Run(c)
    <3>1. call[c].store \in DOMAIN stores
      BY <2>3 DEF Run, TypeOK
    <3>2. Mint(call[c].store)
      BY <2>1, <2>3 DEF Run
    <3>3. stores'[s].freed = Store(s).freed
      BY <3>1, <3>2, MintedOne
    <3>4. QED
      BY <3>3
  <2>4. QED
    BY <1>6, <2>1, <2>2, <2>3 DEF Start, Answered, TargetClosed, Fails, Dropped, Cancelled, browserVars
<1>7. ASSUME NEW t \in Tabs, Gone(t) \/ Navigate(t) \/ Loaded(t) \/ Script(t) PROVE FALSE
  <2>1. CASE UNCHANGED stores
    BY <2>1 DEF Store
  <2>2. CASE Loaded(t)
    <3>1. stores'[s] = [Store(s) EXCEPT !.overtaken =
                Store(s).overtaken \/ (s = handle[t] /\ Store(s).doc = shown[t])]
      BY <2>2, OvertakenOne
    <3>2. stores'[s].freed = Store(s).freed
      BY <3>1 DEF StoreRecord
    <3>3. QED
      BY <3>2
  <2>3. QED
    BY <1>7, <2>1, <2>2 DEF Gone, Navigate, Script, browserVars
<1>8. Busy \subseteq Tabs
  BY DEF RegistryConstants
<1>9. QED
  BY <1>3, <1>4, <1>5, <1>6, <1>7, <1>8 DEF Next, Close, Drained

\* A release never overtakes an operation that is in flight on the handle,
\* except where the tab itself is being closed (registry.py, forget).
THEOREM ReleaseOvertakesNoneTheorem == Spec => ReleaseOvertakesNone
<1>1. TypeOK /\ LockOK /\ OwnInv /\ [Next]_vars =>
        [\A s \in DOMAIN stores : stores'[s].freed > Store(s).freed =>
            \/ life'[Store(s).tab] # "open"
            \/ \A c \in Calls : ~(call'[c].pc = "evaluating" /\ call'[c].store = s)]_vars
  BY ReleaseIsAlone, RegistryConstants
<1>2. QED
  BY <1>1, OwnersCorrect, PTL DEF Spec, ReleaseOvertakesNone

-----------------------------------------------------------------------------
(* The uids, and what acts hit. *)

\* The numbering of more elements stays in the block of the store.
LEMMA MintStaysInBlock ==
    ASSUME RegistryConstants, NEW r \in StoreRecord, NEW q \in StoreRecord,
           NEW fresh \in SUBSET Elements, \A e \in fresh : r.uids[e] = NoUid,
           NEW new \in [fresh -> r.n .. r.n + Cardinality(fresh) - 1],
           \A e, f \in fresh : new[e] = new[f] => e = f,
           q.uids = [e \in Elements |-> IF e \in fresh THEN new[e] ELSE r.uids[e]],
           q.n = r.n + Cardinality(fresh),
           NumbersOK(r)
    PROVE  Base(q) = Base(r) /\ NumbersOK(q)
<1>1. /\ IsFiniteSet(Named(r)) /\ IsFiniteSet(fresh)
      /\ Cardinality(Named(r)) \in Nat /\ Cardinality(fresh) \in Nat
  BY FS_Subset, FS_CardinalityType DEF RegistryConstants, Named
<1>2. r.n \in Nat /\ q.n \in Nat
  BY DEF StoreRecord
<1>3. \A e \in fresh : new[e] \in Nat /\ new[e] # NoUid
  BY <1>1, <1>2 DEF NoUid
<1>4. Named(q) = Named(r) \cup fresh /\ Named(r) \cap fresh = {}
  BY <1>3 DEF Named
<1>5. Cardinality(Named(q)) = Cardinality(Named(r)) + Cardinality(fresh)
  <2>1. Cardinality(Named(r) \cup fresh) =
            Cardinality(Named(r)) + Cardinality(fresh) - Cardinality(Named(r) \cap fresh)
    BY <1>1, FS_Union
  <2>2. Cardinality(Named(r) \cap fresh) = 0
    BY <1>4, FS_EmptySet
  <2>3. QED
    BY <1>1, <1>4, <2>1, <2>2
<1>6. Base(q) = Base(r)
  BY <1>1, <1>2, <1>5 DEF Base
<1>7. Base(r) \in Nat /\ \A e \in Named(r) : r.uids[e] \in Base(r) .. r.n - 1
  BY DEF NumbersOK
<1>8. \A e \in Named(q) : \/ e \in Named(r) /\ e \notin fresh /\ q.uids[e] = r.uids[e]
                          \/ e \in fresh /\ q.uids[e] = new[e]
  BY <1>4 DEF Named
<1>9. Base(r) <= r.n
  BY <1>1, <1>2 DEF Base
<1>10. ASSUME NEW e \in Named(q) PROVE q.uids[e] \in Base(r) .. q.n - 1
  <2>1. CASE e \in Named(r) /\ q.uids[e] = r.uids[e]
    BY <1>1, <1>2, <1>7, <2>1
  <2>2. CASE e \in fresh /\ q.uids[e] = new[e]
    <3>1. new[e] \in r.n .. r.n + Cardinality(fresh) - 1
      BY <2>2
    <3>2. QED
      BY <1>1, <1>2, <1>7, <1>9, <2>2, <3>1
  <2>3. QED
    BY <1>8, <2>1, <2>2
<1>11. ASSUME NEW e \in Named(q), NEW f \in Named(q), q.uids[e] = q.uids[f] PROVE e = f
  <2>1. \A x \in Named(r) : r.uids[x] < r.n
    BY <1>2, <1>7
  <2>2. \A x \in fresh : new[x] >= r.n
    BY <1>1, <1>2
  <2>3. ASSUME NEW x \in Named(r), NEW y \in fresh PROVE r.uids[x] # new[y]
    <3>1. r.uids[x] \in Nat /\ new[y] \in Nat
      BY <1>2, <1>3, <1>7
    <3>2. QED
      BY <1>2, <2>1, <2>2, <3>1
  <2>4. QED
    BY <1>8, <1>11, <2>3 DEF NumbersOK
<1>12. QED
  BY <1>6, <1>10, <1>11 DEF NumbersOK

\* A store keeps within its block.
LEMMA BlockIsLargeEnough ==
    ASSUME RegistryConstants, NEW r \in StoreRecord
    PROVE  Base(r) \in Int /\ r.n \in Nat /\ r.n <= Base(r) + UidBlock
<1>1. Named(r) \in SUBSET Elements
  BY DEF Named
<1>2. Cardinality(Named(r)) \in Nat /\ Cardinality(Elements) \in Nat
      /\ Cardinality(Named(r)) <= Cardinality(Elements)
  BY <1>1, FS_Subset, FS_CardinalityType DEF RegistryConstants
<1>3. r.n \in Nat
  BY DEF StoreRecord
<1>4. QED
  BY <1>2, <1>3 DEF Base, RegistryConstants

\* So a uid is of one element of one store.
LEMMA UidNamesOne ==
    ASSUME RegistryConstants, TypeOK, UidsOK,
           NEW s \in DOMAIN stores, NEW z \in DOMAIN stores, NEW e \in Elements, NEW f \in Elements,
           Store(s).uids[e] = Store(z).uids[f], Store(s).uids[e] # NoUid
    PROVE  s = z /\ e = f
<1>1. Store(s) \in StoreRecord /\ Store(z) \in StoreRecord
  BY StoreTypes
<1>2. e \in Named(Store(s)) /\ f \in Named(Store(z))
  BY DEF Named
<1>3. /\ Store(s).uids[e] \in Base(Store(s)) .. Store(s).n - 1
      /\ Store(z).uids[f] \in Base(Store(z)) .. Store(z).n - 1
  BY <1>2 DEF UidsOK, NumbersOK
<1>4. s = z
  <2> SUFFICES ASSUME s # z PROVE FALSE
    OBVIOUS
  <2>1. Apart(Base(Store(s)), Base(Store(z)))
    BY DEF UidsOK
  <2>2. /\ Base(Store(s)) \in Int /\ Store(s).n \in Nat /\ Store(s).n <= Base(Store(s)) + UidBlock
        /\ Base(Store(z)) \in Int /\ Store(z).n \in Nat /\ Store(z).n <= Base(Store(z)) + UidBlock
    BY <1>1, BlockIsLargeEnough
  <2>3. UidBlock \in Nat
    BY DEF RegistryConstants
  <2>4. Store(s).uids[e] \in Int /\ Store(s).uids[e] < Base(Store(s)) + UidBlock
        /\ Store(s).uids[e] >= Base(Store(s))
    BY <1>3, <2>2, <2>3
  <2>5. Store(z).uids[f] \in Int /\ Store(z).uids[f] < Base(Store(z)) + UidBlock
        /\ Store(z).uids[f] >= Base(Store(z))
    BY <1>3, <2>2, <2>3
  <2> DEFINE a == Base(Store(s))
             b == Base(Store(z))
             u == Store(s).uids[e]
  <2>6. /\ a \in Int /\ b \in Int /\ u \in Int
        /\ a + UidBlock <= b \/ b + UidBlock <= a
        /\ a <= u /\ u < a + UidBlock /\ b <= u /\ u < b + UidBlock
    BY <2>1, <2>2, <2>4, <2>5 DEF Apart
  <2> HIDE DEF a, b, u
  <2>7. QED
    BY <2>3, <2>6
<1>5. QED
  BY <1>2, <1>4 DEF UidsOK, NumbersOK

\* The stores number what they numbered.
SameNumbers ==
    /\ DOMAIN stores' = DOMAIN stores
    /\ \A s \in DOMAIN stores :
          stores'[s].n = Store(s).n /\ stores'[s].uids = Store(s).uids /\ stores'[s].doc = Store(s).doc

\* A release numbers nothing.
LEMMA FreedNumbers ==
    ASSUME TypeOK, NEW s \in DOMAIN stores, stores' = Freed(s)
    PROVE  SameNumbers
<1>1. /\ DOMAIN stores' = DOMAIN stores
      /\ stores'[s] = [Store(s) EXCEPT !.freed = Store(s).freed + 1]
      /\ \A z \in DOMAIN stores : z # s => stores'[z] = Store(z)
  BY FreedOne
<1>2. Store(s) \in StoreRecord
  BY StoreTypes
<1>3. stores'[s].n = Store(s).n /\ stores'[s].uids = Store(s).uids /\ stores'[s].doc = Store(s).doc
  BY <1>1, <1>2 DEF StoreRecord
<1>4. QED
  BY <1>1, <1>3 DEF SameNumbers

LEMMA NamesStill ==
    ASSUME SameNumbers, NEW r, NamesAnElement(r)
    PROVE  /\ r.from \in DOMAIN stores' /\ r.meant[2] \in Elements
           /\ r.meant = <<stores'[r.from].doc, r.meant[2]>>
           /\ r.uid # NoUid /\ r.uid = stores'[r.from].uids[r.meant[2]]
BY DEF SameNumbers, NamesAnElement

\* No store is built and no block given away: at most a call moves.
LEMMA NumbersKept ==
    ASSUME TypeOK, UidsOK, ActsOK, SameNumbers, UNCHANGED seed,
           \/ UNCHANGED call
           \/ \E c \in Calls, new \in CallRecord :
                 Moves(c, new) /\ new.pc # "building" /\ ActOK(c, new)
    PROVE  UidsOK' /\ ActsOK'
<1>1. \A d \in Calls : ActOK(d, call'[d])
      /\ (Is(d, {"building"})' => Is(d, {"building"}) /\ call'[d].seed = call[d].seed)
  <2>1. CASE UNCHANGED call
    BY <2>1 DEF ActsOK, Is
  <2>2. ASSUME NEW c \in Calls, NEW new \in CallRecord,
               Moves(c, new), new.pc # "building", ActOK(c, new)
        PROVE  \A d \in Calls : ActOK(d, call'[d])
                 /\ (Is(d, {"building"})' => Is(d, {"building"}) /\ call'[d].seed = call[d].seed)
    <3>1. call'[c] = new /\ \A d \in Calls : d # c => call'[d] = call[d]
      BY <2>2, MovesOne
    <3>2. QED
      BY <2>2, <3>1 DEF ActsOK, Is
  <2>3. QED
    BY <2>1, <2>2
<1>2. \A s \in DOMAIN stores : Base(stores'[s]) = Base(Store(s)) /\ Named(stores'[s]) = Named(Store(s))
  BY DEF SameNumbers, Base, Named
<1>3. UidsOK'
  <2>1. \A s \in DOMAIN stores : NumbersOK(Store(s))'
    <3> SUFFICES ASSUME NEW s \in DOMAIN stores PROVE NumbersOK(Store(s))'
      OBVIOUS
    <3>1. NumbersOK(Store(s))
      BY DEF UidsOK
    <3>2. stores'[s].n = Store(s).n /\ stores'[s].uids = Store(s).uids
      BY DEF SameNumbers
    <3>3. /\ Base(stores'[s]) \in Nat /\ Base(stores'[s]) + UidBlock <= seed'
          /\ \A e \in Named(stores'[s]) : stores'[s].uids[e] \in Base(stores'[s]) .. stores'[s].n - 1
          /\ \A e, f \in Named(stores'[s]) : stores'[s].uids[e] = stores'[s].uids[f] => e = f
      BY <1>2, <3>1, <3>2 DEF NumbersOK
    <3>4. QED
      BY <3>3 DEF NumbersOK, Store
  <2>2. \A s, z \in DOMAIN stores : s # z => Apart(Base(stores'[s]), Base(stores'[z]))
    BY <1>2 DEF UidsOK
  <2>3. \A c \in Calls : Is(c, {"building"})' =>
            /\ call'[c].seed + UidBlock <= seed'
            /\ \A s \in DOMAIN stores : Apart(call'[c].seed, Base(stores'[s]))
            /\ \A d \in Calls : Is(d, {"building"})' /\ c # d => Apart(call'[c].seed, call'[d].seed)
    BY <1>1, <1>2 DEF UidsOK
  <2>4. QED
    BY <2>1, <2>2, <2>3 DEF UidsOK, Store, SameNumbers
<1>4. ActsOK'
  <2> SUFFICES ASSUME NEW d \in Calls PROVE ActOK(d, call[d])'
    BY DEF ActsOK
  <2>1. ActOK(d, call'[d])
    BY <1>1
  <2>2. NamesAnElement(call'[d]) =>
           /\ call'[d].from \in DOMAIN stores' /\ call'[d].meant[2] \in Elements
           /\ call'[d].meant = <<stores'[call'[d].from].doc, call'[d].meant[2]>>
           /\ call'[d].uid # NoUid
           /\ call'[d].uid = stores'[call'[d].from].uids[call'[d].meant[2]]
    BY NamesStill
  <2>3. NamesAnElement(call'[d]) => NamesAnElement(call[d])'
    BY <2>2 DEF NamesAnElement, Store
  <2>4. QED
    BY <2>1, <2>3 DEF ActOK
<1>5. QED
  BY <1>3, <1>4

\* A call on its way still names what it named.
LEMMA ActKept ==
    ASSUME NEW c \in Calls, NEW r, NEW new, ActOK(c, r),
           r.pc \in {"queued"} \cup Within, new.pc \in {"queued"} \cup Within,
           new.from = r.from, new.meant = r.meant, new.uid = r.uid, new.hit = r.hit,
           Kind[c] = "act" => new.ran = r.ran /\ new.runs = r.runs
    PROVE  ActOK(c, new)
BY DEF ActOK, NamesAnElement

\* A call that ends names nothing; one that is made again is a read.
LEMMA EndIsOK ==
    ASSUME TypeOK, ActsOK, NEW c \in Calls, Waits(c), (\E how \in Ended : Ends(c, how)) \/ EndDead(c)
    PROVE  \E new \in CallRecord : Moves(c, new) /\ new.pc # "building" /\ ActOK(c, new)
<1>1. ASSUME NEW how \in Ended, Ends(c, how)
      PROVE  \E new \in CallRecord : Moves(c, new) /\ new.pc # "building" /\ ActOK(c, new)
  <2> DEFINE new == [Idle EXCEPT !.pc = how]
  <2>1. Moves(c, new) /\ new \in CallRecord /\ new.pc = how /\ new.runs = 0 /\ new.hit = NoElement
    BY <1>1, EndIsARecord DEF Ends
  <2> HIDE DEF new
  <2>2. how \notin {"queued"} \cup Within
    BY DEF Ended, Within
  <2>3. new.pc # "building" /\ ActOK(c, new)
    BY <2>1, <2>2 DEF ActOK, Within
  <2>4. QED
    BY <2>1, <2>3
<1>2. CASE ReadsAgain(c) /\ Moves(c, [call[c] EXCEPT !.pc = "queued", !.attempt = 2, !.ran = FALSE])
  <2> DEFINE new == [call[c] EXCEPT !.pc = "queued", !.attempt = 2, !.ran = FALSE]
  <2>1. call[c] \in CallRecord /\ call[c].pc \in {"queued"} \cup Within /\ ActOK(c, call[c])
    BY DEF TypeOK, Waits, Is, ActsOK
  <2>2. /\ new \in CallRecord /\ new.pc = "queued"
        /\ new.from = call[c].from /\ new.meant = call[c].meant
        /\ new.uid = call[c].uid /\ new.hit = call[c].hit
    BY <2>1 DEF CallRecord, Pc
  <2>3. Moves(c, new) /\ Kind[c] # "act"
    BY <1>2 DEF ReadsAgain
  <2> HIDE DEF new
  <2>4. ActOK(c, new)
    BY <2>1, <2>2, <2>3, ActKept
  <2>5. QED
    BY <2>2, <2>3, <2>4
<1>3. QED
  BY <1>1, <1>2 DEF EndDead, Ended

\* The steps of a call that neither build nor run.
LEMMA CallNumbers ==
    ASSUME TypeOK, UidsOK, ActsOK, RegistryConstants, NEW c \in Calls,
           \/ Start(c) \/ Answered(c) \/ TargetClosed(c) \/ Fails(c) \/ DeadContext(c)
           \/ Dropped(c) \/ Cancelled(c)
    PROVE  UidsOK' /\ ActsOK'
<1>1. CASE Start(c)
  <2>1. UNCHANGED <<seed, stores>>
    BY <1>1 DEF Start, browserVars
  <2>2. PICK new \in CallRecord :
            /\ Moves(c, new) /\ new.pc = "queued"
            /\ new.runs = 0 /\ ~new.ran /\ new.hit = NoElement
            /\ Kind[c] = "act" => NamesAnElement(new)
    BY <1>1, StartIsAMove
  <2>3. ActOK(c, new)
    BY <2>2 DEF ActOK, Within
  <2>4. SameNumbers
    BY <2>1 DEF SameNumbers, Store
  <2>5. QED
    BY <2>1, <2>2, <2>3, <2>4, NumbersKept
<1>2. CASE Answered(c) \/ TargetClosed(c) \/ Fails(c) \/ Cancelled(c) \/ Dropped(c)
  <2>1. UNCHANGED <<seed, stores>> /\ Waits(c)
    BY <1>2 DEF Answered, TargetClosed, Fails, Cancelled, Dropped, browserVars, Waits, Is, Within
  <2>2. (\E how \in Ended : Ends(c, how)) \/ EndDead(c)
    BY <1>2 DEF Answered, TargetClosed, Fails, Cancelled, Dropped, Ended
  <2>3. SameNumbers
    BY <2>1 DEF SameNumbers, Store
  <2>4. QED
    BY <2>1, <2>2, <2>3, EndIsOK, NumbersKept
<1>3. CASE DeadContext(c)
  <2> DEFINE t == call[c].tab
             new == [call[c] EXCEPT !.pc = "dropping"]
  <2>1. t \in Tabs /\ call[c] \in CallRecord /\ Waits(c) /\ UNCHANGED seed
    BY <1>3 DEF DeadContext, ContextDied, TypeOK, Waits, Is, Within
  <2>2. CASE handle[t] # 0 /\ stores' = Freed(handle[t]) /\ Moves(c, new)
    <3>1. handle[t] \in DOMAIN stores
      BY <2>1, <2>2 DEF TypeOK
    <3>2. SameNumbers
      BY <2>2, <3>1, FreedNumbers
    <3>3. /\ new \in CallRecord /\ new.pc = "dropping"
          /\ new.from = call[c].from /\ new.meant = call[c].meant /\ new.uid = call[c].uid
          /\ new.hit = call[c].hit /\ new.ran = call[c].ran /\ new.runs = call[c].runs
      BY <2>1 DEF CallRecord, Pc, Within
    <3>4. Moves(c, new)
      BY <2>2
    <3> HIDE DEF new
    <3>5. ActOK(c, new)
      <4>1. call[c].pc \in {"queued"} \cup Within /\ new.pc \in {"queued"} \cup Within
        BY <2>1, <3>3 DEF Waits, Is, Within
      <4>2. QED
        BY <3>3, <4>1, ActKept DEF ActsOK
    <3>6. QED
      BY <2>1, <3>2, <3>3, <3>4, <3>5, NumbersKept
  <2>3. CASE EndDead(c) /\ UNCHANGED stores
    <3>1. SameNumbers
      BY <2>3 DEF SameNumbers, Store
    <3>2. QED
      BY <2>1, <2>3, <3>1, EndIsOK, NumbersKept
  <2>4. QED
    BY <1>3, <2>2, <2>3 DEF DeadContext
<1>4. QED
  BY <1>1, <1>2, <1>3

\* What a store has named keeps its name.
KeepsNames ==
    /\ DOMAIN stores \subseteq DOMAIN stores'
    /\ \A s \in DOMAIN stores :
          /\ stores'[s].doc = Store(s).doc
          /\ \A e \in Elements : Store(s).uids[e] # NoUid => stores'[s].uids[e] = Store(s).uids[e]

LEMMA ActsKept ==
    ASSUME KeepsNames, \A d \in Calls : ActOK(d, call'[d])
    PROVE  ActsOK'
<1> SUFFICES ASSUME NEW d \in Calls PROVE ActOK(d, call[d])'
  BY DEF ActsOK
<1>1. ActOK(d, call'[d])
  OBVIOUS
<1>2. NamesAnElement(call'[d]) =>
         /\ call'[d].from \in DOMAIN stores' /\ call'[d].meant[2] \in Elements
         /\ call'[d].meant = <<stores'[call'[d].from].doc, call'[d].meant[2]>>
         /\ call'[d].uid # NoUid
         /\ call'[d].uid = stores'[call'[d].from].uids[call'[d].meant[2]]
  <2> SUFFICES ASSUME NamesAnElement(call'[d])
      PROVE  /\ call'[d].from \in DOMAIN stores' /\ call'[d].meant[2] \in Elements
             /\ call'[d].meant = <<stores'[call'[d].from].doc, call'[d].meant[2]>>
             /\ call'[d].uid # NoUid
             /\ call'[d].uid = stores'[call'[d].from].uids[call'[d].meant[2]]
    OBVIOUS
  <2>1. /\ call'[d].from \in DOMAIN stores /\ call'[d].meant[2] \in Elements
        /\ call'[d].meant = <<Store(call'[d].from).doc, call'[d].meant[2]>>
        /\ call'[d].uid # NoUid
        /\ call'[d].uid = Store(call'[d].from).uids[call'[d].meant[2]]
    BY DEF NamesAnElement
  <2>2. QED
    BY <2>1 DEF KeepsNames
<1>3. NamesAnElement(call'[d]) => NamesAnElement(call[d])'
  BY <1>2 DEF NamesAnElement, Store
<1>4. QED
  BY <1>1, <1>3 DEF ActOK

\* A block is given to the call that builds.
LEMMA BlockGiven ==
    ASSUME TypeOK, UidsOK, ActsOK, RegistryConstants, UNCHANGED stores, seed' = Following(seed),
           NEW c \in Calls, NEW new \in CallRecord, Moves(c, new),
           new.pc = "building", new.seed = seed, ActOK(c, new)
    PROVE  UidsOK' /\ ActsOK'
<1>1. call'[c] = new /\ \A d \in Calls : d # c => call'[d] = call[d]
  BY MovesOne
<1>2. seed \in Nat /\ UidBlock \in Nat /\ seed' = seed + UidBlock
  BY DEF TypeOK, RegistryConstants, Following
<1>3. ActsOK'
  <2>1. KeepsNames
    BY DEF KeepsNames, Store
  <2>2. \A d \in Calls : ActOK(d, call'[d])
    BY <1>1 DEF ActsOK
  <2>3. QED
    BY <2>1, <2>2, ActsKept
<1>4. \A s \in DOMAIN stores : Base(Store(s)) \in Nat /\ Base(Store(s)) + UidBlock <= seed
  BY DEF UidsOK, NumbersOK
<1>5. \A s \in DOMAIN stores : NumbersOK(Store(s))'
  <2> SUFFICES ASSUME NEW s \in DOMAIN stores PROVE NumbersOK(Store(s))'
    OBVIOUS
  <2>1. NumbersOK(Store(s)) /\ stores'[s] = Store(s)
    BY DEF UidsOK, Store
  <2>2. Base(Store(s)) + UidBlock <= seed'
    BY <1>2, <1>4
  <2>3. QED
    BY <2>1, <2>2 DEF NumbersOK, Store
<1>6. \A d \in Calls : Is(d, {"building"}) =>
        /\ call[d].seed \in Nat /\ call[d].seed + UidBlock <= seed
        /\ \A s \in DOMAIN stores : Apart(call[d].seed, Base(Store(s)))
        /\ \A e \in Calls : Is(e, {"building"}) /\ d # e => Apart(call[d].seed, call[e].seed)
  <2>1. \A d \in Calls : call[d].seed \in Nat
    BY DEF TypeOK, CallRecord
  <2>2. QED
    BY <2>1 DEF UidsOK
<1>7. ASSUME NEW d \in Calls, Is(d, {"building"})'
      PROVE  /\ call'[d].seed + UidBlock <= seed'
             /\ \A s \in DOMAIN stores : Apart(call'[d].seed, Base(Store(s)))
             /\ \A e \in Calls : Is(e, {"building"})' /\ d # e => Apart(call'[d].seed, call'[e].seed)
  <2>1. CASE d = c
    <3>1. \A s \in DOMAIN stores : Apart(seed, Base(Store(s)))
      BY <1>2, <1>4 DEF Apart
    <3>2. ASSUME NEW e \in Calls, Is(e, {"building"})', d # e PROVE Apart(seed, call'[e].seed)
      <4>1. Is(e, {"building"}) /\ call'[e] = call[e]
        BY <1>1, <2>1, <3>2 DEF Is
      <4>2. QED
        BY <1>2, <1>6, <4>1 DEF Apart
    <3>3. call'[d].seed = seed
      BY <1>1, <2>1
    <3>4. QED
      BY <1>2, <3>1, <3>2, <3>3
  <2>2. CASE d # c
    <3>1. Is(d, {"building"}) /\ call'[d] = call[d]
      BY <1>1, <1>7, <2>2 DEF Is
    <3>2. call[d].seed + UidBlock <= seed'
      BY <1>2, <1>6, <3>1
    <3>3. ASSUME NEW e \in Calls, Is(e, {"building"})', d # e PROVE Apart(call[d].seed, call'[e].seed)
      <4>1. CASE e = c
        <5>1. call'[e].seed = seed
          BY <1>1, <4>1
        <5>2. QED
          BY <1>2, <1>6, <3>1, <5>1 DEF Apart
      <4>2. CASE e # c
        <5>1. Is(e, {"building"}) /\ call'[e] = call[e]
          BY <1>1, <3>3, <4>2 DEF Is
        <5>2. QED
          BY <1>6, <3>1, <3>3, <5>1
      <4>3. QED
        BY <4>1, <4>2
    <3>4. QED
      BY <1>6, <3>1, <3>2, <3>3
  <2>3. QED
    BY <2>1, <2>2
<1>8. UidsOK'
  BY <1>5, <1>7 DEF UidsOK, Store
<1>9. QED
  BY <1>3, <1>8

LEMMA ProceedNumbers ==
    ASSUME TypeOK, UidsOK, ActsOK, RegistryConstants, NEW c \in Calls, Enter(c) \/ Released(c)
    PROVE  UidsOK' /\ ActsOK'
<1> DEFINE t == call[c].tab
<1>1. /\ t \in Tabs /\ call[c] \in CallRecord /\ Waits(c) /\ ActOK(c, call[c])
      /\ call[c].pc \in {"queued"} \cup Within
  BY DEF Enter, Released, Proceed, TypeOK, Waits, Is, Within, ActsOK
<1>2. ASSUME NEW new \in CallRecord, new.pc \in Within,
             new.from = call[c].from, new.meant = call[c].meant, new.uid = call[c].uid,
             new.hit = call[c].hit, new.ran = call[c].ran, new.runs = call[c].runs
      PROVE  ActOK(c, new)
  BY <1>1, <1>2, ActKept
<1>3. CASE /\ MustRelease(t) /\ retired' = Popped(t) /\ stores' = Freed(LastRetired(t))
           /\ Moves(c, [call[c] EXCEPT !.pc = "releasing"]) /\ UNCHANGED seed
  <2> DEFINE new == [call[c] EXCEPT !.pc = "releasing"]
  <2>1. SameNumbers
    BY <1>1, <1>3, PoppedOne, FreedNumbers
  <2>2. /\ new \in CallRecord /\ new.pc = "releasing"
        /\ new.from = call[c].from /\ new.meant = call[c].meant /\ new.uid = call[c].uid
        /\ new.hit = call[c].hit /\ new.ran = call[c].ran /\ new.runs = call[c].runs
    BY <1>1 DEF CallRecord, Pc, Within
  <2>3. Moves(c, new)
    BY <1>3
  <2> HIDE DEF new
  <2>4. ActOK(c, new)
    BY <1>2, <2>2 DEF Within
  <2>5. QED
    BY <1>3, <2>1, <2>2, <2>3, <2>4, NumbersKept
<1>4. CASE /\ Moves(c, [call[c] EXCEPT !.pc = "evaluating", !.store = handle[t]])
           /\ UNCHANGED <<stores, seed>>
  <2> DEFINE new == [call[c] EXCEPT !.pc = "evaluating", !.store = handle[t]]
  <2>1. SameNumbers
    BY <1>4 DEF SameNumbers, Store
  <2>2. /\ new \in CallRecord /\ new.pc = "evaluating"
        /\ new.from = call[c].from /\ new.meant = call[c].meant /\ new.uid = call[c].uid
        /\ new.hit = call[c].hit /\ new.ran = call[c].ran /\ new.runs = call[c].runs
    BY <1>1 DEF CallRecord, Pc, Within, TypeOK
  <2>3. Moves(c, new)
    BY <1>4
  <2> HIDE DEF new
  <2>4. ActOK(c, new)
    BY <1>2, <2>2 DEF Within
  <2>5. QED
    BY <1>4, <2>1, <2>2, <2>3, <2>4, NumbersKept
<1>5. CASE /\ seed' = Following(seed) /\ UNCHANGED stores
           /\ Moves(c, [call[c] EXCEPT !.pc = "building", !.seed = seed, !.at = shown[t]])
  <2> DEFINE new == [call[c] EXCEPT !.pc = "building", !.seed = seed, !.at = shown[t]]
  <2>1. /\ new \in CallRecord /\ new.pc = "building" /\ new.seed = seed
        /\ new.from = call[c].from /\ new.meant = call[c].meant /\ new.uid = call[c].uid
        /\ new.hit = call[c].hit /\ new.ran = call[c].ran /\ new.runs = call[c].runs
    BY <1>1 DEF CallRecord, Pc, Within, TypeOK
  <2>2. Moves(c, new)
    BY <1>5
  <2> HIDE DEF new
  <2>3. ActOK(c, new)
    BY <1>2, <2>1 DEF Within
  <2>4. QED
    BY <1>5, <2>1, <2>2, <2>3, BlockGiven
<1>6. QED
  BY <1>3, <1>4, <1>5 DEF Enter, Released, Proceed

\* What is built takes the block that its call was given.
LEMMA BuiltNumbers ==
    ASSUME TypeOK, UidsOK, ActsOK, RegistryConstants, NEW c \in Calls, Built(c)
    PROVE  UidsOK' /\ ActsOK'
<1> DEFINE s == Len(stores) + 1
           new == [call[c] EXCEPT !.pc = "evaluating", !.store = s]
           n == call[c].seed
<1>1. /\ DOMAIN stores = 1..Len(stores) /\ Len(stores) \in Nat
      /\ DOMAIN stores' = 1..s
      /\ \A z \in DOMAIN stores : stores'[z] = Store(z)
      /\ stores'[s] = NewStore(c)
      /\ Moves(c, new)
  BY BuiltOne
<1>2. /\ s \notin DOMAIN stores /\ s \in Nat
      /\ \A z \in DOMAIN stores' : z \in DOMAIN stores \/ z = s
      /\ \A z \in DOMAIN stores : z \in DOMAIN stores'
  BY <1>1
<1>3. call[c] \in CallRecord /\ Is(c, {"building"}) /\ UNCHANGED seed /\ seed \in Nat /\ n \in Nat
  BY DEF Built, TypeOK, CallRecord
<1>4. /\ new \in CallRecord /\ new.pc = "evaluating"
      /\ new.from = call[c].from /\ new.meant = call[c].meant /\ new.uid = call[c].uid
      /\ new.hit = call[c].hit /\ new.ran = call[c].ran /\ new.runs = call[c].runs
  BY <1>2, <1>3 DEF CallRecord, Pc, Within
<1>5. call'[c] = new /\ \A d \in Calls : d # c => call'[d] = call[d]
  BY <1>1, <1>4, MovesOne
<1> HIDE DEF s, new
<1>6. Named(stores'[s]) = {} /\ Base(stores'[s]) = n
  <2>1. \A e \in Elements : stores'[s].uids[e] = NoUid
    BY <1>1 DEF NewStore
  <2>2. Named(stores'[s]) = {}
    BY <2>1 DEF Named
  <2>3. stores'[s].n = n /\ Cardinality({}) = 0
    BY <1>1, FS_EmptySet DEF NewStore
  <2>4. QED
    BY <1>3, <2>2, <2>3 DEF Base
<1> HIDE DEF n
<1>7. ActsOK'
  <2>1. KeepsNames
    BY <1>1, <1>2 DEF KeepsNames
  <2>2. ActOK(c, new)
    <3>1. call[c].pc \in {"queued"} \cup Within /\ new.pc \in {"queued"} \cup Within
      BY <1>3, <1>4 DEF Is, Within
    <3>2. QED
      BY <1>4, <3>1, ActKept DEF ActsOK
  <2>3. \A d \in Calls : ActOK(d, call'[d])
    BY <1>5, <2>2 DEF ActsOK
  <2>4. QED
    BY <2>1, <2>3, ActsKept
<1>8. n + UidBlock <= seed /\ \A z \in DOMAIN stores : Apart(n, Base(Store(z)))
  BY <1>3 DEF UidsOK, n
<1>9. ASSUME NEW z \in DOMAIN stores' PROVE NumbersOK(Store(z))'
  <2>1. CASE z = s
    <3>1. /\ Base(stores'[s]) \in Nat /\ Base(stores'[s]) + UidBlock <= seed'
          /\ \A e \in Named(stores'[s]) : stores'[s].uids[e] \in Base(stores'[s]) .. stores'[s].n - 1
          /\ \A e, f \in Named(stores'[s]) : stores'[s].uids[e] = stores'[s].uids[f] => e = f
      BY <1>3, <1>6, <1>8
    <3>2. QED
      BY <2>1, <3>1 DEF NumbersOK, Store
  <2>2. CASE z # s
    <3>1. stores'[z] = Store(z) /\ NumbersOK(Store(z)) /\ seed' = seed
      BY <1>1, <1>2, <1>3, <2>2 DEF UidsOK
    <3>2. QED
      BY <3>1 DEF NumbersOK, Store
  <2>3. QED
    BY <2>1, <2>2
<1>10. ASSUME NEW y \in DOMAIN stores', NEW z \in DOMAIN stores', y # z
       PROVE  Apart(Base(stores'[y]), Base(stores'[z]))
  <2>1. CASE y = s
    <3>1. z \in DOMAIN stores /\ stores'[z] = Store(z)
      BY <1>1, <1>2, <1>10, <2>1
    <3>2. QED
      BY <1>6, <1>8, <2>1, <3>1
  <2>2. CASE z = s
    <3>1. y \in DOMAIN stores /\ stores'[y] = Store(y)
      BY <1>1, <1>2, <1>10, <2>2
    <3>2. Apart(n, Base(stores'[y]))
      BY <1>8, <3>1
    <3>3. QED
      BY <1>6, <2>2, <3>2 DEF Apart
  <2>3. CASE y # s /\ z # s
    <3>1. y \in DOMAIN stores /\ stores'[y] = Store(y) /\ z \in DOMAIN stores /\ stores'[z] = Store(z)
      BY <1>1, <1>2, <2>3
    <3>2. QED
      BY <1>10, <3>1 DEF UidsOK
  <2>4. QED
    BY <2>1, <2>2, <2>3
<1>11. ASSUME NEW d \in Calls, Is(d, {"building"})'
       PROVE  /\ call'[d].seed + UidBlock <= seed'
              /\ \A z \in DOMAIN stores' : Apart(call'[d].seed, Base(stores'[z]))
              /\ \A e \in Calls : Is(e, {"building"})' /\ d # e => Apart(call'[d].seed, call'[e].seed)
  <2>1. \A e \in Calls : Is(e, {"building"})' => e # c /\ Is(e, {"building"}) /\ call'[e] = call[e]
    BY <1>4, <1>5 DEF Is
  <2>2. d # c /\ Is(d, {"building"}) /\ call'[d] = call[d]
    BY <1>11, <2>1
  <2>3. /\ call[d].seed + UidBlock <= seed'
        /\ \A z \in DOMAIN stores : Apart(call[d].seed, Base(Store(z)))
        /\ \A e \in Calls : Is(e, {"building"}) /\ d # e => Apart(call[d].seed, call[e].seed)
    BY <1>3, <2>2 DEF UidsOK
  <2>4. Apart(call[d].seed, n)
    BY <1>3, <2>2, <2>3 DEF n
  <2>5. \A z \in DOMAIN stores' : Apart(call[d].seed, Base(stores'[z]))
    BY <1>1, <1>2, <1>6, <2>3, <2>4
  <2>6. QED
    BY <2>1, <2>2, <2>3, <2>5
<1>12. UidsOK'
  BY <1>9, <1>10, <1>11 DEF UidsOK, Store
<1>13. QED
  BY <1>7, <1>12

\* What the page runs names elements apart, and acts on the one that is named.
LEMMA RunNumbers ==
    ASSUME TypeOK, UidsOK, ActsOK, RegistryConstants, NEW c \in Calls, Run(c)
    PROVE  UidsOK' /\ ActsOK'
<1> DEFINE s == call[c].store
<1>1. /\ s \in DOMAIN stores /\ Store(s) \in StoreRecord /\ UNCHANGED seed
      /\ Is(c, {"evaluating"}) /\ ~call[c].ran /\ ActOK(c, call[c])
      /\ call[c].pc \in {"queued"} \cup Within
      /\ UNCHANGED stores \/ Mint(s)
  BY StoreTypes DEF Run, TypeOK, ActsOK, Is, Within
<1>2. PICK new \in CallRecord :
        /\ Moves(c, new)
        /\ new.pc = "evaluating" /\ new.ran = TRUE /\ new.runs = call[c].runs + 1
        /\ new.from = call[c].from /\ new.meant = call[c].meant /\ new.uid = call[c].uid
        /\ \/ Kind[c] = "read" /\ new.hit = call[c].hit
           \/ Kind[c] = "act" /\ new.hit = call[c].hit
           \/ Kind[c] = "act" /\ new.hit \in Picked(s, call[c].uid)
  BY RunIsAMove
<1>3. call'[c] = new /\ \A d \in Calls : d # c => call'[d] = call[d]
  BY <1>2, MovesOne
<1>4. new.hit \in {NoElement, new.meant}
  <2>1. CASE new.hit = call[c].hit
    BY <1>1, <1>2, <2>1 DEF ActOK
  <2>2. CASE Kind[c] = "act" /\ new.hit \in Picked(s, call[c].uid)
    <3>1. PICK e \in Store(s).table : new.hit = <<Store(s).doc, e>> /\ Store(s).uids[e] = call[c].uid
      BY <2>2 DEF Picked
    <3>2. e \in Elements
      BY <1>1, <3>1 DEF StoreRecord
    <3>3. NamesAnElement(call[c])
      BY <1>1, <2>2 DEF ActOK
    <3>4. s = call[c].from /\ e = call[c].meant[2]
      BY <1>1, <3>1, <3>2, <3>3, UidNamesOne DEF NamesAnElement
    <3>5. new.hit = call[c].meant
      BY <3>1, <3>3, <3>4 DEF NamesAnElement
    <3>6. QED
      BY <1>2, <3>5
  <2>3. QED
    BY <1>2, <2>1, <2>2
<1>5. ActOK(c, new)
  <2>1. Kind[c] = "act" => NamesAnElement(new) /\ new.runs = 1
    BY <1>1, <1>2 DEF ActOK, NamesAnElement
  <2>2. QED
    BY <1>2, <1>4, <2>1 DEF ActOK, Within
<1>6. \A d \in Calls : ActOK(d, call'[d])
  BY <1>3, <1>5 DEF ActsOK
<1>7. CASE UNCHANGED stores
  <2>1. SameNumbers
    BY <1>7 DEF SameNumbers, Store
  <2>2. QED
    BY <1>1, <1>2, <1>5, <2>1, NumbersKept
<1>8. CASE Mint(s)
  <2>1. /\ stores' \in Seq(StoreRecord) /\ DOMAIN stores' = DOMAIN stores
        /\ \A z \in DOMAIN stores : z # s => stores'[z] = Store(z)
        /\ stores'[s].doc = Store(s).doc
    BY <1>1, <1>8, MintedOne
  <2>2. PICK fresh \in SUBSET Elements :
            /\ \A e \in fresh : Store(s).uids[e] = NoUid
            /\ \E f \in [fresh -> Store(s).n .. Store(s).n + Cardinality(fresh) - 1] :
                  /\ \A e, g \in fresh : f[e] = f[g] => e = g
                  /\ stores'[s].uids =
                        [e \in Elements |-> IF e \in fresh THEN f[e] ELSE Store(s).uids[e]]
            /\ stores'[s].n = Store(s).n + Cardinality(fresh)
    BY <1>1, <1>8, MintedOne
  <2>3. PICK f \in [fresh -> Store(s).n .. Store(s).n + Cardinality(fresh) - 1] :
            /\ \A e, g \in fresh : f[e] = f[g] => e = g
            /\ stores'[s].uids =
                  [e \in Elements |-> IF e \in fresh THEN f[e] ELSE Store(s).uids[e]]
    BY <2>2
  <2>4. stores'[s] \in StoreRecord
    BY <1>1, <2>1, ElementOfSeq
  <2>5. NumbersOK(Store(s))
    BY <1>1 DEF UidsOK
  <2>6. Base(stores'[s]) = Base(Store(s)) /\ NumbersOK(stores'[s])
    BY <1>1, <2>2, <2>3, <2>4, <2>5, MintStaysInBlock
  <2>7. \A z \in DOMAIN stores : Base(stores'[z]) = Base(Store(z)) /\ NumbersOK(stores'[z])
    BY <2>1, <2>6 DEF UidsOK
  <2>8. \A z \in DOMAIN stores : NumbersOK(Store(z))'
    BY <1>1, <2>7 DEF NumbersOK, Store
  <2>9. \A d \in Calls : Is(d, {"building"})' => Is(d, {"building"}) /\ call'[d] = call[d]
    BY <1>2, <1>3 DEF Is
  <2>10. /\ \A y, z \in DOMAIN stores : y # z => Apart(Base(stores'[y]), Base(stores'[z]))
         /\ \A d \in Calls : Is(d, {"building"})' =>
              /\ call'[d].seed + UidBlock <= seed'
              /\ \A z \in DOMAIN stores : Apart(call'[d].seed, Base(stores'[z]))
              /\ \A e \in Calls : Is(e, {"building"})' /\ d # e => Apart(call'[d].seed, call'[e].seed)
    BY <1>1, <2>7, <2>9 DEF UidsOK
  <2>11. UidsOK'
    BY <2>1, <2>8, <2>10 DEF UidsOK, Store
  <2>12. KeepsNames
    <3>1. \A e \in Elements : Store(s).uids[e] # NoUid => stores'[s].uids[e] = Store(s).uids[e]
      BY <2>2, <2>3
    <3>2. QED
      BY <2>1, <3>1 DEF KeepsNames
  <2>13. QED
    BY <1>6, <2>11, <2>12, ActsKept
<1>9. QED
  BY <1>1, <1>7, <1>8

LEMMA TabNumbers ==
    ASSUME TypeOK, UidsOK, ActsOK, NEW t \in Tabs,
           Close(t) \/ Drained(t) \/ Gone(t) \/ Navigate(t) \/ Loaded(t) \/ Script(t)
    PROVE  UidsOK' /\ ActsOK'
<1>1. UNCHANGED <<seed, call>>
  BY DEF Close, Drained, Dispose, Gone, Navigate, Loaded, Script, serverVars
<1>2. SameNumbers
  <2>1. CASE UNCHANGED stores
    BY <2>1 DEF SameNumbers, Store
  <2>2. CASE Dispose(t)
    <3>1. CASE MustRelease(t) /\ retired' = Popped(t) /\ stores' = Freed(LastRetired(t))
      BY <3>1, PoppedOne, FreedNumbers
    <3>2. CASE handle[t] # 0 /\ stores' = Freed(handle[t])
      <4>1. handle[t] \in DOMAIN stores
        BY <3>2 DEF TypeOK
      <4>2. QED
        BY <3>2, <4>1, FreedNumbers
    <3>3. QED
      BY <2>1, <2>2, <3>1, <3>2 DEF Dispose
  <2>3. CASE Loaded(t)
    <3>1. DOMAIN stores' = DOMAIN stores
      BY <2>3, OvertakenOne
    <3>2. ASSUME NEW s \in DOMAIN stores
          PROVE  stores'[s].n = Store(s).n /\ stores'[s].uids = Store(s).uids /\ stores'[s].doc = Store(s).doc
      <4>1. Store(s) \in StoreRecord
        BY StoreTypes
      <4>2. stores'[s] = [Store(s) EXCEPT !.overtaken =
                  Store(s).overtaken \/ (s = handle[t] /\ Store(s).doc = shown[t])]
        BY <2>3, OvertakenOne
      <4>3. QED
        BY <4>1, <4>2 DEF StoreRecord
    <3>3. QED
      BY <3>1, <3>2 DEF SameNumbers
  <2>4. QED
    BY <2>1, <2>2, <2>3 DEF Close, Drained, Gone, Navigate, Script, browserVars
<1>3. QED
  BY <1>1, <1>2, NumbersKept

LEMMA UidsInvariant ==
    ASSUME TypeOK, UidsOK, ActsOK, RegistryConstants, [Next]_vars
    PROVE  UidsOK' /\ ActsOK'
<1>1. CASE UNCHANGED vars
  <2>1. SameNumbers /\ UNCHANGED <<seed, call>>
    BY <1>1 DEF vars, serverVars, browserVars, SameNumbers, Store
  <2>2. QED
    BY <2>1, NumbersKept
<1>2. CASE Next
  <2>1. Busy \subseteq Tabs
    BY DEF RegistryConstants
  <2>2. QED
    BY <1>2, <2>1, CallNumbers, ProceedNumbers, BuiltNumbers, RunNumbers, TabNumbers DEF Next
<1>3. QED
  BY <1>1, <1>2

LEMMA InitUids == Init => UidsOK /\ ActsOK
<1> SUFFICES ASSUME Init PROVE UidsOK /\ ActsOK
  OBVIOUS
<1>1. DOMAIN stores = {} /\ \A c \in Calls : call[c].pc = "idle" /\ call[c].runs = 0 /\ call[c].hit = NoElement
  BY DEF Init, Idle
<1>2. QED
  BY <1>1 DEF UidsOK, ActsOK, ActOK, Is, Within

\* Of every reachable state: all four layers.
THEOREM UidsCorrect == Spec => [](TypeOK /\ LockOK /\ OwnInv /\ UidsOK /\ ActsOK)
<1>1. TypeOK /\ (UidsOK /\ ActsOK) /\ [Next]_vars => (UidsOK /\ ActsOK)'
  BY UidsInvariant, RegistryConstants
<1>2. QED
  BY <1>1, InitUids, OwnersCorrect, PTL DEF Spec

\* A uid acts on the element it was minted for or on none (registry.py,
\* UID_BLOCK), for any tabs, documents and rebuilt stores.
THEOREM NeverTheWrongElementTheorem == Spec => []NeverTheWrongElement
<1>1. ActsOK => NeverTheWrongElement
  BY DEF ActsOK, ActOK, NeverTheWrongElement
<1>2. QED
  BY <1>1, UidsCorrect, PTL

\* The page runs an act at most once (registry.py: "side effects must not be
\* replayed"), also when its context dies after it ran.
THEOREM ActsRunOnceTheorem == Spec => []ActsRunOnce
<1>1. TypeOK /\ ActsOK => ActsRunOnce
  <2> SUFFICES ASSUME TypeOK, ActsOK, NEW c \in Calls, Kind[c] = "act" PROVE call[c].runs <= 1
    BY DEF ActsRunOnce
  <2>1. ActOK(c, call[c])
    BY DEF ActsOK
  <2>2. QED
    BY <2>1 DEF ActOK
<1>2. QED
  BY <1>1, UidsCorrect, PTL

-----------------------------------------------------------------------------
(* A uid that is refused is lost. *)

\* While the element an act names is there, its store is in the slot.
LEMMA NotLostIsCurrent ==
    ASSUME TypeOK, OwnInv, ActsOK, NEW c \in Calls, Kind[c] = "act", Waits(c),
           ~IsLost(c), ~Store(call[c].from).overtaken
    PROVE  /\ NamesAnElement(call[c])
           /\ Store(call[c].from).tab = call[c].tab
           /\ shown[call[c].tab] = Store(call[c].from).doc
           /\ life[call[c].tab] = "open"
           /\ handle[call[c].tab] = call[c].from
           /\ call[c].from # 0
           /\ call[c].tab \in Tabs
           /\ call[c].meant[2] \in Store(call[c].from).table \cap connected[call[c].meant[1]]
<1> DEFINE s == call[c].from
           t == call[c].tab
<1>1. t \in Tabs /\ NamesAnElement(call[c])
  BY DEF TypeOK, ActsOK, ActOK, Waits, Is
<1>2. s \in DOMAIN stores /\ call[c].meant[1] = Store(s).doc /\ s # 0
  <2>1. call[c].meant = <<Store(s).doc, call[c].meant[2]>> /\ s \in DOMAIN stores
    BY <1>1 DEF NamesAnElement
  <2>2. call[c].meant[1] = <<Store(s).doc, call[c].meant[2]>>[1]
    BY <2>1
  <2>3. QED
    BY <2>1, <2>2, StoreTypes
<1>3. shown[t] = Store(s).doc /\ life[t] = "open"
      /\ call[c].meant[2] \in Store(s).table \cap connected[call[c].meant[1]]
  BY <1>2 DEF IsLost
<1>4. Store(s).tab = t
  BY <1>1, <1>2, <1>3 DEF OwnInv, DocumentsOK
<1>5. handle[t] = s
  BY <1>2, <1>3, <1>4 DEF OwnInv, CurrentOK
<1>6. QED
  BY <1>1, <1>2, <1>3, <1>4, <1>5

\* What a step refuses is lost, or domcontentloaded took its store.
LEMMA RefusalsAreOfTheLost ==
    ASSUME TypeOK, LockOK, OwnInv, UidsOK, ActsOK, RegistryConstants, Next,
           NEW c \in Calls, ~Refused(c), Refused(c)'
    PROVE  IsLost(c) \/ Store(call[c].from).overtaken
<1> SUFFICES ASSUME ~IsLost(c), ~Store(call[c].from).overtaken PROVE FALSE
  OBVIOUS
<1>1. Kind[c] = "act" /\ (call'[c].pc = "stale" \/ (call'[c].ran /\ call'[c].hit = NoElement))
  BY DEF Refused
<1>2. call'[c] # call[c]
  BY <1>1 DEF Refused
<1>3. \A d \in Calls : \A new : Moves(d, new) => d = c
  BY <1>2 DEF Moves, TypeOK
<1> DEFINE t == call[c].tab
           s == call[c].from
<1>4. ASSUME Waits(c)
      PROVE  /\ NamesAnElement(call[c]) /\ Store(s).tab = t /\ shown[t] = Store(s).doc
             /\ life[t] = "open" /\ handle[t] = s /\ s # 0
             /\ call[c].meant[2] \in Store(s).table \cap connected[call[c].meant[1]]
  BY <1>1, <1>4, NotLostIsCurrent
<1>5. ASSUME NEW how, how # "stale", Ends(c, how) PROVE FALSE
  <2>1. call'[c] = [Idle EXCEPT !.pc = how]
    BY <1>5 DEF Ends, Moves, TypeOK
  <2>2. call'[c].pc = how /\ call'[c].ran = FALSE
    BY <2>1 DEF Idle
  <2>3. QED
    BY <1>1, <1>5, <2>2
<1>6. ASSUME NEW new, Moves(c, new), new.pc # "stale", new.ran = call[c].ran, new.hit = call[c].hit
      PROVE  FALSE
  <2>1. call'[c] = new
    BY <1>6 DEF Moves, TypeOK
  <2>2. QED
    BY <1>1, <1>6, <2>1 DEF Refused
<1>7. ~Start(c)
  <2> SUFFICES ASSUME Start(c) PROVE FALSE
    OBVIOUS
  <2>1. PICK new \in CallRecord : Moves(c, new) /\ new.pc = "queued" /\ ~new.ran
    BY StartIsAMove
  <2>2. QED
    BY <1>1, <2>1, MovesOne
<1>8. ~(Enter(c) \/ Released(c))
  <2> SUFFICES ASSUME Enter(c) \/ Released(c) PROVE FALSE
    OBVIOUS
  <2>1. call[c] \in CallRecord
    BY DEF TypeOK
  <2>2. \/ Moves(c, [call[c] EXCEPT !.pc = "releasing"])
        \/ Moves(c, [call[c] EXCEPT !.pc = "evaluating", !.store = handle[t]])
        \/ Moves(c, [call[c] EXCEPT !.pc = "building", !.seed = seed, !.at = shown[t]])
    BY DEF Enter, Released, Proceed
  <2>3. \A new \in {[call[c] EXCEPT !.pc = "releasing"],
                    [call[c] EXCEPT !.pc = "evaluating", !.store = handle[t]],
                    [call[c] EXCEPT !.pc = "building", !.seed = seed, !.at = shown[t]]} :
            new.pc # "stale" /\ new.ran = call[c].ran /\ new.hit = call[c].hit
    BY <2>1 DEF CallRecord
  <2>4. QED
    BY <1>6, <2>2, <2>3
<1>9. ~Built(c)
  <2> SUFFICES ASSUME Built(c) PROVE FALSE
    OBVIOUS
  <2> DEFINE new == [call[c] EXCEPT !.pc = "evaluating", !.store = Len(stores) + 1]
  <2>1. call[c] \in CallRecord /\ Moves(c, new)
    BY BuiltOne DEF TypeOK
  <2>2. new.pc # "stale" /\ new.ran = call[c].ran /\ new.hit = call[c].hit
    BY <2>1 DEF CallRecord
  <2>3. QED
    BY <1>6, <2>1, <2>2
<1>10. ~Run(c)
  <2> SUFFICES ASSUME Run(c) PROVE FALSE
    OBVIOUS
  <2>1. PICK new \in CallRecord :
            /\ Moves(c, new) /\ new.pc = "evaluating"
            /\ \/ Picked(call[c].store, call[c].uid) = {}
               \/ new.hit \in Picked(call[c].store, call[c].uid)
    BY <1>1, RunIsAMove
  <2>2. Waits(c) /\ Is(c, {"evaluating"}) /\ Alive(call[c].store) /\ call[c].store \in DOMAIN stores
    BY DEF Run, Waits, Is, Within, TypeOK
  <2>3. call[c].store = s
    BY <1>4, <2>2 DEF OwnInv, SlotOK
  <2>4. <<Store(s).doc, call[c].meant[2]>> \in Picked(s, call[c].uid)
    <3>1. call[c].meant[1] = Store(s).doc /\ Store(s).uids[call[c].meant[2]] = call[c].uid
      <4>1. NamesAnElement(call[c])
        BY <1>4, <2>2
      <4>2. call[c].meant[1] = <<Store(s).doc, call[c].meant[2]>>[1]
        BY <4>1 DEF NamesAnElement
      <4>3. QED
        BY <4>1, <4>2 DEF NamesAnElement
    <3>2. QED
      BY <1>4, <2>2, <3>1 DEF Picked
  <2>5. PICK e : new.hit = <<Store(s).doc, e>>
    BY <2>1, <2>3, <2>4 DEF Picked
  <2>6. new.hit # NoElement
    <3>1. <<Store(s).doc, e>>[1] = Store(s).doc /\ NoElement[1] = 0
      BY DEF NoElement
    <3>2. Store(s).doc # 0
      <4>1. connected \in Seq(SUBSET Elements) /\ Store(s).doc \in DOMAIN connected
        BY <2>2, <2>3 DEF TypeOK
      <4>2. QED
        BY <4>1, LenProperties
    <3>3. QED
      BY <2>5, <3>1, <3>2
  <2>7. QED
    BY <1>1, <2>1, <2>6, MovesOne
<1>11. ~Answered(c)
  <2> SUFFICES ASSUME Answered(c) PROVE FALSE
    OBVIOUS
  <2>1. call[c].ran /\ call[c].hit # NoElement
    BY <1>1 DEF Answered, Refused
  <2>2. Ends(c, "ended")
    BY <2>1 DEF Answered
  <2>3. QED
    BY <1>5, <2>2
<1>12. ~(TargetClosed(c) \/ Fails(c) \/ Cancelled(c))
  BY <1>5 DEF TargetClosed, Fails, Cancelled
<1>13. ~(DeadContext(c) \/ Dropped(c))
  <2>1. ~DeadContext(c)
    <3> SUFFICES ASSUME DeadContext(c) PROVE FALSE
      OBVIOUS
    <3>1. Waits(c)
      BY DEF DeadContext, ContextDied, Waits, Is, Within
    <3>2. ~Is(c, {"building"})
      BY <1>4, <3>1 DEF OwnInv, SlotOK, Is
    <3>3. Is(c, {"evaluating"}) /\ shown[t] # Store(call[c].store).doc
      BY <3>2 DEF DeadContext, ContextDied
    <3>4. call[c].store = s
      BY <1>4, <3>1, <3>3 DEF OwnInv, SlotOK
    <3>5. QED
      BY <1>4, <3>1, <3>3, <3>4
  <2>2. ~Dropped(c)
    <3> SUFFICES ASSUME Dropped(c) PROVE FALSE
      OBVIOUS
    <3>1. Waits(c) /\ Is(c, {"building", "dropping"})
      BY DEF Dropped, Waits, Is, Within
    <3>2. handle[t] = 0
      BY <3>1 DEF OwnInv, SlotOK
    <3>3. QED
      BY <1>4, <3>1, <3>2
  <2>3. QED
    BY <2>1, <2>2
<1>14. ASSUME NEW d \in Calls,
              \/ Start(d) \/ Enter(d) \/ Released(d) \/ Built(d) \/ Run(d) \/ Answered(d)
              \/ TargetClosed(d) \/ Fails(d) \/ DeadContext(d) \/ Dropped(d) \/ Cancelled(d)
       PROVE  d = c
  BY <1>3, <1>14 DEF Start, Enter, Released, Proceed, Built, Run, Answered, TargetClosed, Fails,
              DeadContext, EndDead, Dropped, Cancelled, Ends
<1>15. \A u \in Busy : ~(Close(u) \/ Drained(u) \/ Gone(u) \/ Navigate(u) \/ Loaded(u) \/ Script(u))
  BY <1>2 DEF Close, Drained, Dispose, Gone, Navigate, Loaded, Script, serverVars
<1>16. PICK d \in Calls :
         \/ Start(d) \/ Enter(d) \/ Released(d) \/ Built(d) \/ Run(d) \/ Answered(d)
         \/ TargetClosed(d) \/ Fails(d) \/ DeadContext(d) \/ Dropped(d) \/ Cancelled(d)
  BY <1>15 DEF Next
<1>17. d = c
  BY <1>14, <1>16
<1>18. QED
  BY <1>7, <1>8, <1>9, <1>10, <1>11, <1>12, <1>13, <1>16, <1>17

\* A call is told that a uid is stale only when its element is lost, or its
\* store was overtaken by domcontentloaded (page.py, _on_loaded).
THEOREM StaleOnlyWhenLostTheorem == Spec => StaleOnlyWhenLost
<1>1. TypeOK /\ LockOK /\ OwnInv /\ UidsOK /\ ActsOK /\ [Next]_vars =>
        [\A c \in Calls : ~Refused(c) /\ Refused(c)' =>
            IsLost(c) \/ Store(call[c].from).overtaken]_vars
  BY RefusalsAreOfTheLost, RegistryConstants
<1>2. QED
  BY <1>1, UidsCorrect, PTL DEF Spec, StaleOnlyWhenLost

=============================================================================
