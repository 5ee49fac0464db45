--------------------------- MODULE ToolCallProofs ---------------------------
(***************************************************************************)
(* Theorems of the tools at work on a tab, for any calls, URLs, elements   *)
(* and bounds: the active tab around the awaits of opening and closing and *)
(* the one slot for dialogs (TabBook); what a result tells of its tab      *)
(* (SettledObservation); what a call does to an element, tells of it and   *)
(* leaves on record (ElementAction).  The three share nothing but the set  *)
(* of calls: each has its own variables and its own specification.         *)
(***************************************************************************)
EXTENDS TabBook, SettledObservation, ElementAction, SequenceTheorems, WellFoundedInduction, TLAPS

-----------------------------------------------------------------------------
\* The book.

CallsHavePlaces ==
    DOMAIN call = Calls /\ \A c \in Calls : {"pc", "tab"} \subseteq DOMAIN call[c]

\* Indices are given once, in ascending order, and tabs are named once.
Indexed ==
    /\ next \in Nat /\ opened \in Nat
    /\ DOMAIN pages \subseteq 0..(next - 1)
    /\ \A i \in DOMAIN pages : pages[i] \in 1..opened
    /\ \A i, j \in DOMAIN pages : pages[i] = pages[j] => i = j

\* A tab that is being closed was once opened, so a new one is another.
ClosersAreKnown == \A c \in Calls : At(c, "closing") => call[c].tab \in 1..opened

BookInv == CallsHavePlaces /\ Indexed /\ ClosersAreKnown /\ ActiveIsOpen

\* A step that closes no tab and leaves the book alone.
ClosesNoOther ==
    /\ CallsHavePlaces'
    /\ \A d \in Calls : call'[d].pc = "closing" => call[d].pc = "closing" /\ call'[d].tab = call[d].tab

LEMMA BookInit == Init => BookInv
<1> SUFFICES ASSUME Init PROVE BookInv
  OBVIOUS
<1>1. CallsHavePlaces /\ \A c \in Calls : ~At(c, "closing")
  BY DEF Init, Idle, CallsHavePlaces, At
<1>2. DOMAIN pages = {0} /\ pages[0] = 1 /\ next = 1 /\ opened = 1 /\ active = 0
  BY DEF Init
<1> QED
  BY <1>1, <1>2 DEF BookInv, Indexed, ClosersAreKnown, ActiveIsOpen, None

LEMMA BookUntouched ==
    ASSUME BookInv, UNCHANGED book, opened' = opened, ClosesNoOther
    PROVE  BookInv'
  BY DEF BookInv, Indexed, ClosersAreKnown, ActiveIsOpen, ClosesNoOther, book, At

\* A call that goes on to pc, which is not to close a tab.
LEMMA CallGoesOn ==
    ASSUME CallsHavePlaces, NEW c \in Calls, NEW r, Becomes(c, r),
           {"pc", "tab"} \subseteq DOMAIN r, r.pc # "closing"
    PROVE  ClosesNoOther
  BY DEF CallsHavePlaces, ClosesNoOther, Becomes

LEMMA DoneGoesOn ==
    ASSUME CallsHavePlaces, NEW c \in Calls, Done(c)
    PROVE  ClosesNoOther
<1> DEFINE r == [Idle EXCEPT !.pc = "done"]
<1>1. {"pc", "tab"} \subseteq DOMAIN r /\ r.pc # "closing"
  BY DEF Idle
<1> QED
  BY <1>1, CallGoesOn DEF Done

LEMMA GoToGoesOn ==
    ASSUME CallsHavePlaces, NEW c \in Calls, NEW tool, NEW t, NEW u, GoTo(c, tool, t, u)
    PROVE  ClosesNoOther
  BY DEF CallsHavePlaces, ClosesNoOther, GoTo, Idle, At

\* The tab that is opened gets an index that no other tab had.
LEMMA BookAdds ==
    ASSUME BookInv, Add(opened + 1), opened' = opened + 1, ClosesNoOther
    PROVE  BookInv'
<1>1. /\ next \in Nat /\ opened \in Nat /\ next \notin DOMAIN pages
      /\ next' = next + 1 /\ active' = next
  BY DEF BookInv, Indexed, Add
<1>2. DOMAIN pages' = DOMAIN pages \cup {next} /\ pages'[next] = opened + 1
  BY DEF Add
<1>3. \A i \in DOMAIN pages : pages'[i] = pages[i]
  BY <1>1 DEF Add
<1>4. Indexed'
  <2>1. DOMAIN pages' \subseteq 0..(next' - 1)
    BY <1>1, <1>2 DEF BookInv, Indexed
  <2>2. \A i \in DOMAIN pages' : pages'[i] \in 1..(opened + 1) /\ (i # next => pages'[i] \in 1..opened)
    BY <1>1, <1>2, <1>3 DEF BookInv, Indexed
  <2>3. \A i, j \in DOMAIN pages' : pages'[i] = pages'[j] => i = j
    <3>1. \A i \in DOMAIN pages' \ {next} : pages'[i] # opened + 1
      BY <1>1, <2>2
    <3> QED
      BY <1>2, <1>3, <3>1 DEF BookInv, Indexed
  <2> QED
    BY <1>1, <2>1, <2>2, <2>3 DEF Indexed
<1>5. \A c \in Calls : call'[c].pc = "closing" =>
          call'[c].tab \in 1..opened /\ \A i \in DOMAIN pages : pages[i] # call'[c].tab
  BY DEF BookInv, ClosersAreKnown, ActiveIsOpen, ClosesNoOther, At
<1>6. ClosersAreKnown'
  BY <1>1, <1>5 DEF ClosersAreKnown, At
<1>7. ActiveIsOpen'
  <2>1. \A c \in Calls : call'[c].pc = "closing" => \A i \in DOMAIN pages' : pages'[i] # call'[c].tab
    BY <1>1, <1>2, <1>3, <1>5
  <2> QED
    BY <1>1, <1>2, <2>1 DEF ActiveIsOpen, At, None
<1> QED
  BY <1>4, <1>6, <1>7 DEF BookInv, ClosesNoOther

\* A set of indices that is not empty has a lowest one.
Below == {p \in Nat \X Nat : p[1] < p[2]}

LEMMA LowestIsOne ==
    ASSUME NEW S, S \subseteq Nat, S # {}
    PROVE  Lowest(S) \in S
<1>0. IsWellFoundedOn(Below, Nat)
  BY NatLessThanWellFounded DEF OpToRel, Below
<1>1. PICK i \in S : \A j \in S : <<j, i>> \notin Below
  BY <1>0, WFMin
<1>2. \A j \in S : i <= j
  <2> SUFFICES ASSUME NEW j \in S PROVE i <= j
    OBVIOUS
  <2>1. i \in Nat /\ j \in Nat
    OBVIOUS
  <2>2. ~(j < i)
    <3>1. <<j, i>> \in Nat \X Nat /\ <<j, i>>[1] = j /\ <<j, i>>[2] = i
      BY <2>1
    <3> QED
      BY <1>1, <3>1, Zenon DEF Below
  <2> QED
    BY <2>1, <2>2
<1> QED
  BY <1>2 DEF Lowest

LEMMA BookRemoves ==
    ASSUME BookInv, NEW c \in Calls, ClosePage(c)
    PROVE  BookInv'
<1>1. PICK i \in DOMAIN pages :
          /\ Remove(i)
          /\ Becomes(c, [Idle EXCEPT !.pc = "closing", !.tool = "close_page", !.tab = pages[i]])
  BY DEF ClosePage
<1> DEFINE left == DOMAIN pages \ {i}
<1>2. /\ DOMAIN pages' = left /\ \A j \in left : pages'[j] = pages[j]
      /\ next' = next /\ opened' = opened
  BY <1>1 DEF Remove, ClosePage, browser
<1>3. CallsHavePlaces' /\ call'[c].pc = "closing" /\ call'[c].tab = pages[i]
  BY <1>1 DEF BookInv, CallsHavePlaces, Becomes, Idle
<1>4. \A d \in Calls \ {c} : call'[d] = call[d]
  BY <1>1 DEF BookInv, CallsHavePlaces, Becomes
<1>5. Indexed'
  BY <1>2 DEF BookInv, Indexed
<1>6. ClosersAreKnown'
  BY <1>2, <1>3, <1>4 DEF BookInv, Indexed, ClosersAreKnown, At
<1>7. ActiveIsOpen'
  <2>1. (active' = None <=> left = {}) /\ (active' # None => active' \in left)
    <3>1. left \subseteq Nat /\ None \notin Nat
      BY DEF BookInv, Indexed, None
    <3>2. CASE active = i
      <4>1. active' = Lowest(left)
        BY <1>1, <3>2 DEF Remove
      <4>2. CASE left = {}
        BY <4>1, <4>2 DEF Lowest
      <4>3. CASE left # {}
        BY <3>1, <4>1, <4>3, LowestIsOne
      <4> QED
        BY <4>2, <4>3
    <3>3. CASE active # i
      BY <1>1, <3>1, <3>3 DEF Remove, BookInv, ActiveIsOpen
    <3> QED
      BY <3>2, <3>3
  <2>2. \A d \in Calls : call'[d].pc = "closing" => \A j \in left : pages[j] # call'[d].tab
    BY <1>3, <1>4 DEF BookInv, Indexed, ActiveIsOpen, At
  <2> QED
    BY <1>2, <2>1, <2>2 DEF ActiveIsOpen, At
<1> QED
  BY <1>3, <1>5, <1>6, <1>7 DEF BookInv

\* One step for each action.
LEMMA BookKept == BookInv /\ [Next]_vars => BookInv'
<1> SUFFICES ASSUME BookInv, [Next]_vars PROVE BookInv'
  OBVIOUS
<1>0. CallsHavePlaces
  BY DEF BookInv
<1>1. ASSUME NEW c \in Calls, Navigate(c) PROVE BookInv'
  BY <1>0, <1>1, GoToGoesOn, BookUntouched DEF Navigate, browser
<1>2. ASSUME NEW c \in Calls, Reload(c) PROVE BookInv'
  BY <1>0, <1>2, GoToGoesOn, BookUntouched DEF Reload, browser
<1>3. ASSUME NEW c \in Calls, GoBack(c) PROVE BookInv'
  BY <1>0, <1>3, GoToGoesOn, BookUntouched DEF GoBack, browser
<1>4. ASSUME NEW c \in Calls, Lands(c) PROVE BookInv'
  BY <1>0, <1>4, CallGoesOn, BookUntouched DEF Lands, Goes, CallsHavePlaces
<1>5. ASSUME NEW c \in Calls, Arrives(c) PROVE BookInv'
  BY <1>0, <1>5, DoneGoesOn, BookUntouched DEF Arrives, browser
<1>6. ASSUME NEW c \in Calls, NewPage(c) PROVE BookInv'
  BY <1>0, <1>6, CallGoesOn, BookUntouched DEF NewPage, browser, Idle
<1>7. ASSUME NEW c \in Calls, Opens(c) PROVE BookInv'
  BY <1>0, <1>7, GoToGoesOn, DoneGoesOn, BookAdds DEF Opens
<1>8. ASSUME NEW c \in Calls, OpensUnseen(c) PROVE BookInv'
  <2>1. ClosesNoOther /\ UNCHANGED book /\ opened' = opened + 1
    BY <1>0, <1>8, DoneGoesOn DEF OpensUnseen
  <2> QED
    BY <2>1 DEF BookInv, Indexed, ClosersAreKnown, ActiveIsOpen, ClosesNoOther, book, At
<1>9. ASSUME NEW c \in Calls, SelectPage(c) PROVE BookInv'
  <2>1. /\ ClosesNoOther /\ UNCHANGED <<pages, next, opened>>
        /\ active' \in DOMAIN pages
    BY <1>0, <1>9, DoneGoesOn DEF SelectPage, browser
  <2>2. DOMAIN pages \subseteq Nat
    BY DEF BookInv, Indexed
  <2> QED
    BY <2>1, <2>2 DEF BookInv, Indexed, ClosersAreKnown, ActiveIsOpen, ClosesNoOther, At, None
<1>10. ASSUME NEW c \in Calls, ClosePage(c) PROVE BookInv'
  BY <1>10, BookRemoves
<1>11. ASSUME NEW c \in Calls, Closes(c) PROVE BookInv'
  BY <1>0, <1>11, DoneGoesOn, BookUntouched DEF Closes
<1>12. ASSUME NEW c \in Calls, Respond(c) PROVE BookInv'
  BY <1>0, <1>12, CallGoesOn, BookUntouched DEF Respond, browser, Idle
<1>13. ASSUME NEW c \in Calls, Answered(c) PROVE BookInv'
  BY <1>0, <1>13, DoneGoesOn, BookUntouched DEF Answered, browser
<1>14. ASSUME NEW c \in Calls, Fails(c) PROVE BookInv'
  BY <1>0, <1>14, DoneGoesOn, BookUntouched DEF Fails, browser
<1>15. ASSUME UNCHANGED <<book, call, opened>> PROVE BookInv'
  BY <1>0, <1>15, BookUntouched DEF ClosesNoOther, CallsHavePlaces
<1>16. ASSUME NEW t \in Tab, DialogOpens(t) \/ OnDialog(t) \/ DialogGone(t) \/ PageMoves(t) PROVE BookInv'
  BY <1>15, <1>16 DEF DialogOpens, OnDialog, DialogGone, PageMoves
<1>17. CASE UNCHANGED vars
  BY <1>15, <1>17 DEF vars, browser
<1> QED
  BY <1>1, <1>2, <1>3, <1>4, <1>5, <1>6, <1>7, <1>8, <1>9, <1>10, <1>11, <1>12, <1>13, <1>14,
     <1>16, <1>17 DEF Next, Step

\* However openings, closings and selections interleave around their awaits, the
\* active tab is one of the book that no call is closing, and there is one as long
\* as there are tabs (page_book.py).
THEOREM ActiveTheorem == Spec => []ActiveIsOpen
<1>1. BookInv => ActiveIsOpen
  BY DEF BookInv
<1> QED
  BY <1>1, BookInit, BookKept, PTL DEF Spec

-----------------------------------------------------------------------------
\* The dialogs.

\* The dialog a tab shows is the last it has opened: it is the last of the news, or
\* there is no news and it is in the slot or was answered.
Reachable(t) ==
    \/ news[t] # <<>> /\ news[t][Len(news[t])] = dialog[t]
    \/ news[t] = <<>> /\ (slot[t] = dialog[t] \/ \E c \in Calls : <<c, dialog[t]>> \in answers)

DialogInv ==
    /\ dialogs \in Nat /\ news \in [Tab -> Seq(Nat)]
    /\ DOMAIN dialog = Tab /\ DOMAIN slot = Tab
    /\ \A t \in Tab : dialog[t] # Nothing => Reachable(t)

LEMMA DialogInit == Init => DialogInv
<1> SUFFICES ASSUME Init PROVE DialogInv
  OBVIOUS
<1>1. dialogs \in Nat /\ news \in [Tab -> Seq(Nat)]
  BY DEF Init
<1>2. \A t \in Tab : dialog[t] = Nothing
  BY DEF Init
<1>3. DOMAIN dialog = Tab /\ DOMAIN slot = Tab
  BY DEF Init
<1> QED
  BY <1>1, <1>2, <1>3 DEF DialogInv

LEMMA DialogUntouched ==
    ASSUME DialogInv, UNCHANGED <<slot, dialog, news, dialogs, answers>>
    PROVE  DialogInv'
  BY DEF DialogInv, Reachable

LEMMA DialogIsAnswered ==
    ASSUME DialogInv, NEW c \in Calls, Respond(c)
    PROVE  DialogInv'
<1>1. /\ UNCHANGED <<dialog, news, dialogs>> /\ answers \subseteq answers'
      /\ <<c, slot[Active]>> \in answers' /\ DOMAIN slot' = Tab
      /\ \A t \in Tab \ {Active} : slot'[t] = slot[t]
  BY DEF DialogInv, Respond, browser
<1>2. ASSUME NEW t \in Tab, dialog[t] # Nothing PROVE Reachable(t)'
  <2>1. Reachable(t)
    BY <1>2 DEF DialogInv
  <2>2. CASE t = Active
    BY <1>1, <2>1, <2>2 DEF Reachable
  <2>3. CASE t # Active
    BY <1>1, <2>1, <2>3 DEF Reachable
  <2> QED
    BY <2>2, <2>3
<1> QED
  BY <1>1, <1>2 DEF DialogInv

LEMMA DialogIsNews ==
    ASSUME DialogInv, NEW t \in Tab, DialogOpens(t)
    PROVE  DialogInv'
<1>1. /\ UNCHANGED <<slot, answers>> /\ dialogs' = dialogs + 1
      /\ dialog' = [dialog EXCEPT ![t] = dialogs + 1]
      /\ news' = [news EXCEPT ![t] = Append(news[t], dialogs + 1)]
  BY DEF DialogOpens
<1>2. dialogs \in Nat /\ dialogs + 1 \in Nat /\ news[t] \in Seq(Nat)
  BY DEF DialogInv
<1>3. /\ Append(news[t], dialogs + 1) \in Seq(Nat) /\ Append(news[t], dialogs + 1) # <<>>
      /\ Append(news[t], dialogs + 1)[Len(Append(news[t], dialogs + 1))] = dialogs + 1
  BY <1>2, AppendProperties
<1>4. Reachable(t)'
  BY <1>1, <1>3 DEF DialogInv, Reachable
<1>5. \A u \in Tab \ {t} : dialog'[u] = dialog[u] /\ news'[u] = news[u]
  BY <1>1 DEF DialogInv
<1>6. news' \in [Tab -> Seq(Nat)] /\ DOMAIN dialog' = Tab
  BY <1>1, <1>3 DEF DialogInv
<1>7. \A u \in Tab : dialog'[u] # Nothing => Reachable(u)'
  BY <1>1, <1>4, <1>5 DEF DialogInv, Reachable
<1> QED
  BY <1>1, <1>2, <1>6, <1>7 DEF DialogInv

LEMMA DialogIsHeardOf ==
    ASSUME DialogInv, NEW t \in Tab, OnDialog(t)
    PROVE  DialogInv'
<1>1. /\ UNCHANGED <<dialog, dialogs, answers>> /\ news[t] # <<>>
      /\ slot' = [slot EXCEPT ![t] = Head(news[t])]
      /\ news' = [news EXCEPT ![t] = Tail(news[t])]
  BY DEF OnDialog
<1>2. news[t] \in Seq(Nat) /\ Tail(news[t]) \in Seq(Nat)
  BY <1>1, HeadTailProperties DEF DialogInv
<1>3. news'[t] = Tail(news[t]) /\ slot'[t] = Head(news[t])
  BY <1>1 DEF DialogInv
<1>4. ASSUME dialog[t] # Nothing PROVE Reachable(t)'
  <2>1. news[t][Len(news[t])] = dialog[t]
    BY <1>1, <1>4 DEF DialogInv, Reachable
  <2>2. CASE Len(news[t]) = 1
    <3>1. Len(Tail(news[t])) = 0 /\ Head(news[t]) = news[t][1]
      BY <1>1, <1>2, <2>2, HeadTailProperties
    <3>2. Tail(news[t]) = <<>>
      BY <1>2, <3>1, EmptySeq
    <3>3. Head(news[t]) = dialog[t]
      BY <2>1, <2>2, <3>1
    <3> QED
      BY <1>1, <1>3, <3>2, <3>3 DEF Reachable
  <2>3. CASE Len(news[t]) # 1
    <3>1. /\ Tail(news[t]) # <<>>
          /\ Tail(news[t])[Len(Tail(news[t]))] = news[t][Len(news[t])]
      <4>1. /\ Len(Tail(news[t])) = Len(news[t]) - 1 /\ Len(news[t]) \in Nat \ {0}
            /\ \A n \in 1..Len(Tail(news[t])) : Tail(news[t])[n] = news[t][n + 1]
        BY <1>1, <1>2, HeadTailProperties
      <4>2. /\ Len(Tail(news[t])) \in 1..Len(Tail(news[t])) /\ Len(Tail(news[t])) # 0
            /\ Len(Tail(news[t])) + 1 = Len(news[t])
        <5> DEFINE m == Len(Tail(news[t]))
                   k == Len(news[t])
        <5>1. m = k - 1 /\ k \in Nat \ {0} /\ k # 1
          BY <2>3, <4>1
        <5> HIDE DEF m, k
        <5>2. m \in 1..m /\ m # 0 /\ m + 1 = k
          BY <5>1
        <5> QED
          BY <5>2 DEF m, k
      <4>3. Tail(news[t]) # <<>>
        BY <4>2, EmptySeq, Zenon
      <4> QED
        BY <4>1, <4>2, <4>3
    <3> QED
      BY <1>1, <1>3, <2>1, <3>1 DEF Reachable
  <2> QED
    BY <2>2, <2>3
<1>5. \A u \in Tab \ {t} : slot'[u] = slot[u] /\ news'[u] = news[u]
  BY <1>1 DEF DialogInv
<1>6. news' \in [Tab -> Seq(Nat)] /\ DOMAIN slot' = Tab
  BY <1>1, <1>2 DEF DialogInv
<1>7. \A u \in Tab : dialog'[u] # Nothing => Reachable(u)'
  BY <1>1, <1>4, <1>5 DEF DialogInv, Reachable
<1> QED
  BY <1>1, <1>6, <1>7 DEF DialogInv

\* A dialog that is gone needs no answer.
LEMMA DialogGoes ==
    ASSUME DialogInv, NEW t, UNCHANGED <<slot, news, dialogs, answers>>,
           dialog' = [dialog EXCEPT ![t] = Nothing]
    PROVE  DialogInv'
  BY DEF DialogInv, Reachable

LEMMA DialogKept == DialogInv /\ [Next]_vars => DialogInv'
<1> SUFFICES ASSUME DialogInv, [Next]_vars PROVE DialogInv'
  OBVIOUS
<1>1. ASSUME NEW c \in Calls, Step(c) PROVE DialogInv'
  <2>1. CASE Respond(c)
    BY <2>1, DialogIsAnswered
  <2>2. CASE Closes(c)
    BY <2>2, DialogGoes DEF Closes
  <2>3. CASE Navigate(c) \/ Reload(c) \/ GoBack(c) \/ NewPage(c) \/ SelectPage(c) \/ ClosePage(c)
    BY <2>3, DialogUntouched DEF Navigate, Reload, GoBack, NewPage, SelectPage, ClosePage, browser
  <2>4. CASE Lands(c) \/ Arrives(c) \/ Opens(c) \/ OpensUnseen(c) \/ Answered(c) \/ Fails(c)
    BY <2>4, DialogUntouched DEF Lands, Arrives, Opens, OpensUnseen, Answered, Fails, browser
  <2> QED
    BY <1>1, <2>1, <2>2, <2>3, <2>4 DEF Step
<1>2. ASSUME NEW t \in Tab, DialogOpens(t) PROVE DialogInv'
  BY <1>2, DialogIsNews
<1>3. ASSUME NEW t \in Tab, OnDialog(t) PROVE DialogInv'
  BY <1>3, DialogIsHeardOf
<1>4. ASSUME NEW t \in Tab, DialogGone(t) PROVE DialogInv'
  BY <1>4, DialogGoes DEF DialogGone
<1>5. ASSUME NEW t \in Tab, PageMoves(t) PROVE DialogInv'
  BY <1>5, DialogUntouched DEF PageMoves
<1>6. CASE UNCHANGED vars
  BY <1>6, DialogUntouched DEF vars, browser
<1> QED
  BY <1>1, <1>2, <1>3, <1>4, <1>5, <1>6 DEF Next

\* No order of dialogs, answers and other calls leaves a page blocked by a dialog
\* that nobody can answer any more (page.py, respond_to_dialog and _on_dialog).
THEOREM DialogTheorem == Spec => []DialogCanBeAnswered
<1>1. DialogInv => DialogCanBeAnswered
  <2> SUFFICES ASSUME DialogInv, NEW t \in Tab, dialog[t] # Nothing, news[t] # <<>>
               PROVE  \E n \in 1..Len(news[t]) : news[t][n] = dialog[t]
    BY DEF DialogInv, Reachable, DialogCanBeAnswered
  <2>1. news[t] \in Seq(Nat) /\ news[t][Len(news[t])] = dialog[t]
    BY DEF DialogInv, Reachable
  <2>2. Len(news[t]) \in 1..Len(news[t])
    BY <2>1
  <2> QED
    BY <2>1, <2>2
<1> QED
  BY <1>1, DialogInit, DialogKept, PTL DEF Spec

-----------------------------------------------------------------------------
\* The stack.

AnyUrl == Urls \cup {"blank", "none"}
Moving == {"going", "there"}
MovesTab == {"navigate", "new_page", "reload", "go_back"}
StackTypes ==
    /\ hist \in [Tab -> Seq(AnyUrl)] /\ url \in [Tab -> AnyUrl]
    /\ DOMAIN call = Calls
    /\ \A c \in Calls : {"pc", "tool", "tab", "to", "dialog"} \subseteq DOMAIN call[c] /\ call[c].to \in AnyUrl

EndsHere(t) == hist[t] = <<>> \/ hist[t][Len(hist[t])] = url[t]

\* One navigation of a tab at most is not there yet; a reload leads where the tab
\* is, and a return on its way to the last entry of the stack.  Without such a
\* return the stack ends where the tab is, or will as soon as a move that is there
\* is recorded.
StackOf(t) ==
    /\ \A c, d \in Movers(t) : At(c, "going") /\ At(d, "going") => c = d
    /\ \A c \in Movers(t) :
          /\ call[c].tool \in MovesTab
          /\ call[c].tool = "reload" /\ At(c, "going") => call[c].to = url[t]
          /\ call[c].tool = "go_back" /\ At(c, "going") =>
                hist[t] # <<>> /\ hist[t][Len(hist[t])] = call[c].to
    /\ \/ Returning(t) # {}
       \/ \E c \in Movers(t) : At(c, "there") /\ Records(c)
       \/ EndsHere(t)

StackInv == StackTypes /\ \A t \in Tab \ strayed : StackOf(t)

LEMMA StackInit == Init => StackInv
<1> SUFFICES ASSUME Init PROVE StackInv
  OBVIOUS
<1>1. StackTypes
  BY DEF Init, StackTypes, Idle, AnyUrl
<1>2. \A t \in Tab : Movers(t) = {} /\ hist[t] = <<>>
  BY DEF Init, Movers, Idle
<1>3. QED
  BY <1>1, <1>2 DEF StackInv, StackOf, EndsHere

\* A step that no move of the tab takes part in.
LEMMA StackSame ==
    ASSUME NEW t \in Tab, StackOf(t), hist'[t] = hist[t], url'[t] = url[t],
           \A c \in Calls : call'[c] = call[c] \/ c \notin Movers(t) \cup Movers(t)'
    PROVE  StackOf(t)'
<1>1. Movers(t)' = Movers(t)
  BY DEF Movers
<1>2. \A c \in Movers(t) : call'[c] = call[c]
  BY DEF Movers
<1>3. QED
  BY <1>1, <1>2 DEF StackOf, Returning, EndsHere, At, Records

\* A call that goes from one place to another, neither of them a move.
LEMMA StackUntouched ==
    ASSUME StackInv, UNCHANGED <<hist, url, strayed>>, NEW c \in Calls, NEW r, Becomes(c, r),
           {"pc", "tool", "tab", "to", "dialog"} \subseteq DOMAIN r, r.to \in AnyUrl,
           call[c].pc \notin Moving, r.pc \notin Moving
    PROVE  StackInv'
<1>1. call'[c] = r /\ \A d \in Calls : d # c => call'[d] = call[d]
  BY DEF StackInv, StackTypes, Becomes
<1>2. StackTypes'
  BY <1>1 DEF StackInv, StackTypes, Becomes
<1>3. \A t \in Tab : \A d \in Calls : call'[d] = call[d] \/ d \notin Movers(t) \cup Movers(t)'
  BY <1>1 DEF Movers, Moving
<1>4. QED
  BY <1>2, <1>3, StackSame DEF StackInv

LEMMA DoneIs ==
    /\ {"pc", "tool", "tab", "to", "dialog"} \subseteq DOMAIN [Idle EXCEPT !.pc = "done"]
    /\ [Idle EXCEPT !.pc = "done"].to \in AnyUrl /\ [Idle EXCEPT !.pc = "done"].pc = "done"
BY DEF Idle, AnyUrl

\* The URLs and the stacks of a step are typed, and its calls go on.
LEMMA StackTypesStay ==
    ASSUME StackTypes, NEW c \in Calls, NEW r, Becomes(c, r),
           {"pc", "tool", "tab", "to", "dialog"} \subseteq DOMAIN r, r.to \in AnyUrl,
           hist' \in [Tab -> Seq(AnyUrl)], url' \in [Tab -> AnyUrl]
    PROVE  /\ StackTypes' /\ call'[c] = r
           /\ \A d \in Calls : d # c => call'[d] = call[d]
BY DEF StackTypes, Becomes

\* A tool sets out to move a tab.
LEMMA StackGoTo ==
    ASSUME StackInv, NEW c \in Calls, call[c].pc \notin Moving,
           NEW tool \in MovesTab, NEW t0, NEW u \in AnyUrl, GoTo(c, tool, t0, u), url' = url,
           tool = "reload" => u = url[t0],
           hist' \in [Tab -> Seq(AnyUrl)], \A t \in Tab : t # t0 \/ tool # "go_back" => hist'[t] = hist[t],
           tool = "go_back" /\ t0 \in Tab => hist'[t0] # <<>> /\ hist'[t0][Len(hist'[t0])] = u
    PROVE  StackInv'
<1> DEFINE new == [Idle EXCEPT !.pc = "going", !.tool = tool, !.tab = t0, !.to = u]
<1>1. /\ {"pc", "tool", "tab", "to", "dialog"} \subseteq DOMAIN new
      /\ new.pc = "going" /\ new.tool = tool /\ new.tab = t0 /\ new.to = u
  BY DEF Idle
<1>2. call'[c] = new
  BY DEF GoTo
<1> HIDE DEF new
<1>3. ASSUME NEW d \in Calls, d # c, call[d].tab = t0, At(d, "going")
      PROVE  call'[d] = [call[d] EXCEPT !.pc = "aborted"] /\ call'[d].pc = "aborted" /\ call'[d].to = call[d].to
             /\ DOMAIN call'[d] = DOMAIN call[d]
  <2>1. call'[d] = [call[d] EXCEPT !.pc = "aborted"]
    BY <1>3 DEF GoTo
  <2>2. {"pc", "to"} \subseteq DOMAIN call[d]
    BY DEF StackInv, StackTypes
  <2>3. QED
    BY <2>1, <2>2
<1>4. ASSUME NEW d \in Calls, d # c, ~(call[d].tab = t0 /\ At(d, "going"))
      PROVE  call'[d] = call[d]
  BY <1>4 DEF GoTo
<1>5. DOMAIN call' = Calls
  BY DEF GoTo
<1>6. StackTypes'
  <2>1. \A d \in Calls :
           {"pc", "tool", "tab", "to", "dialog"} \subseteq DOMAIN call'[d] /\ call'[d].to \in AnyUrl
    BY <1>1, <1>2, <1>3, <1>4 DEF StackInv, StackTypes
  <2>2. QED
    BY <1>5, <2>1 DEF StackInv, StackTypes
<1>7. ASSUME NEW t \in Tab \ strayed', t # t0
      PROVE  StackOf(t)'
  <2>1. \A d \in Calls : call'[d] = call[d] \/ d \notin Movers(t) \cup Movers(t)'
    BY <1>1, <1>2, <1>3, <1>4, <1>7 DEF Movers, Moving
  <2>2. StackOf(t) /\ hist'[t] = hist[t] /\ url'[t] = url[t]
    BY <1>7 DEF StackInv, GoTo
  <2>3. QED
    BY <2>1, <2>2, StackSame
<1>8. ASSUME t0 \in Tab \ strayed'
      PROVE  StackOf(t0)'
  <2>1. StackOf(t0) /\ Returning(t0) = {} /\ c \notin Movers(t0)
    BY <1>8 DEF StackInv, GoTo, Movers, Moving
  <2>2. c \in Movers(t0)' /\ At(c, "going")'
    BY <1>1, <1>2 DEF Movers, At
  <2>3. \A d \in Movers(t0)' : d = c \/ (d \in Movers(t0) /\ At(d, "there") /\ call'[d] = call[d])
    BY <1>3, <1>4 DEF Movers, At
  <2>4. \A d \in Movers(t0) : At(d, "there") => call'[d] = call[d] /\ d \in Movers(t0)'
    BY <1>4, <2>1 DEF Movers, At
  <2>5. \A d, e \in Movers(t0)' : At(d, "going")' /\ At(e, "going")' => d = e
    BY <2>3 DEF At
  <2>6. ASSUME NEW d \in Movers(t0)'
        PROVE  /\ call'[d].tool \in MovesTab
               /\ call'[d].tool = "reload" /\ At(d, "going")' => call'[d].to = url'[t0]
               /\ call'[d].tool = "go_back" /\ At(d, "going")' =>
                     hist'[t0] # <<>> /\ hist'[t0][Len(hist'[t0])] = call'[d].to
    <3>1. CASE d = c
      BY <1>1, <1>2, <1>8, <3>1
    <3>2. CASE d # c
      <4>1. d \in Movers(t0) /\ At(d, "there") /\ call'[d] = call[d]
        BY <2>3, <2>6, <3>2
      <4>2. QED
        BY <2>1, <4>1 DEF StackOf, At
    <3>3. QED
      BY <3>1, <3>2
  <2>7. \/ Returning(t0)' # {}
        \/ \E d \in Movers(t0)' : At(d, "there")' /\ Records(d)'
        \/ EndsHere(t0)'
    <3>1. CASE tool = "go_back"
      <4>1. c \in Returning(t0)'
        BY <1>1, <1>2, <2>2, <3>1 DEF Returning
      <4>2. QED
        BY <4>1
    <3>2. CASE tool # "go_back"
      <4>1. (\E d \in Movers(t0) : At(d, "there") /\ Records(d)) \/ EndsHere(t0)
        BY <2>1 DEF StackOf
      <4>2. hist'[t0] = hist[t0] /\ url'[t0] = url[t0]
        BY <1>8, <3>2
      <4>3. QED
        BY <2>4, <4>1, <4>2 DEF EndsHere, At, Records
    <3>3. QED
      BY <3>1, <3>2
  <2>8. QED
    BY <2>5, <2>6, <2>7 DEF StackOf
<1>9. QED
  BY <1>6, <1>7, <1>8 DEF StackInv

\* A document is loaded.
LEMMA StackLands ==
    ASSUME StackInv, NEW c \in Calls, Lands(c), NEW t0, t0 = call[c].tab
    PROVE  StackInv'
<1> DEFINE new == [call[c] EXCEPT !.pc = "there"]
<1>1. PICK u \in IF call[c].tool = "navigate" THEN Urls ELSE {call[c].to} : url' = [url EXCEPT ![t0] = u]
  BY DEF Lands
<1>2. /\ At(c, "going") /\ call' = [call EXCEPT ![c] = new] /\ UNCHANGED <<hist, strayed>>
  BY DEF Lands, Goes, Becomes
<1>3. /\ {"pc", "tool", "tab", "to", "dialog"} \subseteq DOMAIN call[c] /\ call[c].to \in AnyUrl
  BY DEF StackInv, StackTypes
<1>4. /\ {"pc", "tool", "tab", "to", "dialog"} \subseteq DOMAIN new
      /\ new.pc = "there" /\ new.tool = call[c].tool /\ new.tab = t0 /\ new.to = call[c].to
  BY <1>3
<1>5. call'[c] = new /\ \A d \in Calls : d # c => call'[d] = call[d]
  BY <1>2 DEF StackInv, StackTypes
<1> HIDE DEF new
<1>6. StackTypes'
  <2>1. u \in AnyUrl
    BY <1>1, <1>3 DEF AnyUrl
  <2>2. url' \in [Tab -> AnyUrl] /\ hist' \in [Tab -> Seq(AnyUrl)]
    BY <1>1, <1>2, <2>1 DEF StackInv, StackTypes
  <2>3. QED
    BY <1>2, <1>3, <1>4, <2>2, StackTypesStay DEF StackInv, Becomes
<1>7. ASSUME NEW t \in Tab \ strayed', t # t0
      PROVE  StackOf(t)'
  <2>1. \A d \in Calls : call'[d] = call[d] \/ d \notin Movers(t) \cup Movers(t)'
    BY <1>4, <1>5, <1>7 DEF Movers
  <2>2. StackOf(t) /\ hist'[t] = hist[t] /\ url'[t] = url[t]
    BY <1>1, <1>2, <1>7 DEF StackInv, StackTypes
  <2>3. QED
    BY <2>1, <2>2, StackSame
<1>8. ASSUME t0 \in Tab \ strayed'
      PROVE  StackOf(t0)'
  <2>1. StackOf(t0) /\ hist'[t0] = hist[t0] /\ url'[t0] = u
    BY <1>1, <1>2, <1>8 DEF StackInv, StackTypes
  <2>2. c \in Movers(t0) /\ Movers(t0)' = Movers(t0)
    BY <1>2, <1>4, <1>5 DEF Movers, At
  <2>3. \A d \in Movers(t0) : d # c => ~At(d, "going") /\ call'[d] = call[d]
    BY <1>2, <1>5, <2>1, <2>2 DEF StackOf, Movers
  <2>4. \A d \in Movers(t0)' : ~At(d, "going")'
    BY <1>4, <1>5, <2>2, <2>3 DEF At
  <2>5. call[c].tool \in MovesTab /\ (call[c].tool # "navigate" => u = call[c].to)
    BY <1>1, <2>1, <2>2 DEF StackOf
  <2>6. ASSUME NEW d \in Movers(t0)' PROVE call'[d].tool \in MovesTab
    <3>1. d \in Movers(t0) /\ call[d].tool \in MovesTab
      BY <2>1, <2>2, <2>6 DEF StackOf
    <3>2. call'[d].tool = call[d].tool
      BY <1>4, <1>5, <2>2, <2>3, <3>1
    <3>3. QED
      BY <3>1, <3>2
  <2>7. (\E d \in Movers(t0)' : At(d, "there")' /\ Records(d)') \/ EndsHere(t0)'
    <3>1. CASE call[c].tool \in {"navigate", "new_page"}
      BY <1>4, <1>5, <2>2, <3>1 DEF At, Records
    <3>2. CASE call[c].tool = "go_back"
      BY <1>2, <2>1, <2>2, <2>5, <3>2 DEF StackOf, EndsHere
    <3>3. CASE call[c].tool = "reload"
      <4>1. u = url[t0]
        BY <1>2, <2>1, <2>2, <2>5, <3>3 DEF StackOf
      <4>2. Returning(t0) = {}
        <5>1. \A d \in Returning(t0) : d = c
          BY <1>2, <2>1, <2>2 DEF StackOf, Returning
        <5>2. QED
          BY <3>3, <5>1 DEF Returning
      <4>3. CASE EndsHere(t0)
        BY <2>1, <4>1, <4>3 DEF EndsHere
      <4>4. ASSUME NEW d \in Movers(t0), At(d, "there"), Records(d)
            PROVE  d \in Movers(t0)' /\ At(d, "there")' /\ Records(d)'
        <5>1. d # c
          BY <1>2, <4>4 DEF At
        <5>2. call'[d] = call[d]
          BY <2>3, <5>1
        <5>3. QED
          BY <2>2, <4>4, <5>2 DEF At, Records
      <4>5. QED
        BY <2>1, <4>2, <4>3, <4>4 DEF StackOf
    <3>4. QED
      BY <2>5, <3>1, <3>2, <3>3 DEF MovesTab
  <2>8. QED
    BY <2>4, <2>6, <2>7 DEF StackOf
<1>9. QED
  BY <1>6, <1>7, <1>8 DEF StackInv

\* A move of a tab is over.
LEMMA StackSettles ==
    ASSUME StackInv, NEW c \in Calls, NEW t0, t0 = call[c].tab, Done(c), url' = url, hist' \in [Tab -> Seq(AnyUrl)],
           \A t \in Tab : t # t0 => hist'[t] = hist[t] /\ (t \notin strayed' => t \notin strayed),
           t0 \in Tab \ strayed' =>
              \/ Movers(t0) = {c} /\ EndsHere(t0)'
              \/ t0 \notin strayed /\ Returning(t0) = {} /\ EndsHere(t0)'
              \/ /\ t0 \notin strayed /\ hist'[t0] = hist[t0] /\ c \notin Returning(t0)
                 /\ ~(c \in Movers(t0) /\ At(c, "there") /\ Records(c))
    PROVE  StackInv'
<1> DEFINE new == [Idle EXCEPT !.pc = "done"]
<1>1. new.pc \notin Moving
  BY DEF Idle, Moving
<1>2. StackTypes' /\ call'[c] = new /\ \A d \in Calls : d # c => call'[d] = call[d]
  BY DoneIs, StackTypesStay DEF StackInv, StackTypes, Done
<1> HIDE DEF new
<1>3. \A t \in Tab : Movers(t)' = Movers(t) \ {c}
  BY <1>1, <1>2 DEF Movers, Moving
<1>4. ASSUME NEW t \in Tab \ strayed', t # t0
      PROVE  StackOf(t)'
  <2>1. \A d \in Calls : call'[d] = call[d] \/ d \notin Movers(t) \cup Movers(t)'
    BY <1>2, <1>3, <1>4 DEF Movers
  <2>2. StackOf(t) /\ hist'[t] = hist[t] /\ url'[t] = url[t]
    BY <1>4 DEF StackInv
  <2>3. QED
    BY <2>1, <2>2, StackSame
<1>5. ASSUME t0 \in Tab \ strayed'
      PROVE  StackOf(t0)'
  <2>1. Movers(t0)' = Movers(t0) \ {c} /\ \A d \in Movers(t0)' : d \in Movers(t0) /\ call'[d] = call[d]
    BY <1>2, <1>3, <1>5 DEF Movers
  <2>2. CASE Movers(t0) = {c} /\ EndsHere(t0)'
    <3>1. Movers(t0)' = {}
      BY <2>1, <2>2
    <3>2. QED
      BY <2>2, <3>1 DEF StackOf
  <2>3. CASE t0 \notin strayed /\ Returning(t0) = {} /\ EndsHere(t0)'
    <3>1. StackOf(t0) /\ url'[t0] = url[t0]
      BY <1>5, <2>3 DEF StackInv
    <3>2. \A d \in Movers(t0)' : ~(call'[d].tool = "go_back" /\ At(d, "going")')
      BY <2>1, <2>3 DEF Returning, At
    <3>3. QED
      BY <2>1, <2>3, <3>1, <3>2 DEF StackOf, At
  <2>4. CASE /\ t0 \notin strayed /\ hist'[t0] = hist[t0] /\ c \notin Returning(t0)
             /\ ~(c \in Movers(t0) /\ At(c, "there") /\ Records(c))
    <3>1. StackOf(t0) /\ url'[t0] = url[t0]
      BY <1>5, <2>4 DEF StackInv
    <3>2. /\ \A d, e \in Movers(t0)' : At(d, "going")' /\ At(e, "going")' => d = e
          /\ \A d \in Movers(t0)' :
                /\ call'[d].tool \in MovesTab
                /\ call'[d].tool = "reload" /\ At(d, "going")' => call'[d].to = url'[t0]
                /\ call'[d].tool = "go_back" /\ At(d, "going")' =>
                      hist'[t0] # <<>> /\ hist'[t0][Len(hist'[t0])] = call'[d].to
      BY <2>1, <2>4, <3>1 DEF StackOf, At
    <3>3. Returning(t0) # {} => Returning(t0)' # {}
      <4>1. \A d \in Returning(t0) : d \in Returning(t0)'
        BY <2>1, <2>4 DEF Returning, At
      <4>2. QED
        BY <4>1
    <3>4. (\E d \in Movers(t0) : At(d, "there") /\ Records(d)) =>
              \E d \in Movers(t0)' : At(d, "there")' /\ Records(d)'
      BY <2>1, <2>4 DEF At, Records
    <3>5. EndsHere(t0) => EndsHere(t0)'
      BY <2>4, <3>1 DEF EndsHere
    <3>6. QED
      BY <3>1, <3>2, <3>3, <3>4, <3>5 DEF StackOf
  <2>5. QED
    BY <1>5, <2>2, <2>3, <2>4
<1>6. QED
  BY <1>2, <1>4, <1>5 DEF StackInv

Bounded == opened <= MaxTabs

LEMMA BoundedKept == Bounded /\ Indexed /\ [Next]_vars => Bounded'
<1> SUFFICES ASSUME Bounded, Indexed, [Next]_vars PROVE Bounded'
  OBVIOUS
<1>1. UNCHANGED opened \/ (opened < MaxTabs /\ opened' = opened + 1)
  BY DEF Next, Step, Navigate, Reload, GoBack, Lands, Arrives, NewPage, Opens, OpensUnseen, SelectPage, ClosePage,
         Closes, Respond, Answered, Fails, DialogOpens, OnDialog, DialogGone, PageMoves, vars, browser
<1>2. MaxTabs \in Nat /\ opened \in Nat
  BY TabConstants DEF TabConstants, Indexed
<1>3. QED
  BY <1>1, <1>2 DEF Bounded

LEMMA ActiveIsATab ==
    ASSUME Bounded, Indexed, Active # Nothing
    PROVE  Active \in Tab
<1>1. Active \in 1..opened
  BY DEF Active, Indexed
<1>2. MaxTabs \in Nat /\ opened \in Nat
  BY TabConstants DEF TabConstants, Indexed
<1>3. QED
  BY <1>1, <1>2 DEF Bounded, Tab

\* The entry a return drops leaves the one it returns to on top.
LEMMA Dropped ==
    ASSUME NEW h \in Seq(AnyUrl), Len(h) >= 2
    PROVE  /\ SubSeq(h, 1, Len(h) - 1) \in Seq(AnyUrl) /\ SubSeq(h, 1, Len(h) - 1) # <<>>
           /\ SubSeq(h, 1, Len(h) - 1)[Len(SubSeq(h, 1, Len(h) - 1))] = h[Len(h) - 1]
           /\ h[Len(h) - 1] \in AnyUrl
<1>1. Len(h) - 1 \in 1..Len(h) /\ 1 \in 1..Len(h) + 1
  OBVIOUS
<1>2. /\ SubSeq(h, 1, Len(h) - 1) \in Seq(AnyUrl) /\ Len(SubSeq(h, 1, Len(h) - 1)) = Len(h) - 1
      /\ SubSeq(h, 1, Len(h) - 1)[Len(h) - 1] = h[Len(h) - 1]
  BY <1>1, SubSeqProperties
<1>3. h[Len(h) - 1] \in AnyUrl
  BY <1>1, ElementOfSeq
<1>4. SubSeq(h, 1, Len(h) - 1) # <<>>
  <2>1. Len(SubSeq(h, 1, Len(h) - 1)) # 0
    BY <1>2
  <2>2. QED
    BY <2>1, EmptySeq
<1>5. QED
  BY <1>2, <1>3, <1>4

LEMMA StackArrives ==
    ASSUME StackInv, NEW c \in Calls, Arrives(c)
    PROVE  StackInv'
<1>1. PICK t : t = call[c].tab
  OBVIOUS
<1>2. /\ At(c, "there") /\ Done(c) /\ UNCHANGED url /\ Settles(c, t)
      /\ hist' = IF Records(c) THEN [hist EXCEPT ![t] = Append(@, url[t])] ELSE hist
  BY <1>1 DEF Arrives, browser
<1>3. ASSUME t \in Tab
      PROVE  /\ Append(hist[t], url[t]) \in Seq(AnyUrl)
             /\ Append(hist[t], url[t])[Len(Append(hist[t], url[t]))] = url[t]
  BY <1>3, AppendProperties DEF StackInv, StackTypes
<1>4. hist' \in [Tab -> Seq(AnyUrl)] /\ \A s \in Tab : s # t => hist'[s] = hist[s]
  BY <1>2, <1>3 DEF StackInv, StackTypes
<1>5. \A s \in Tab : s # t /\ s \notin strayed' => s \notin strayed
  BY <1>2 DEF Settles
<1>6. ASSUME t \in Tab \ strayed'
      PROVE  \/ Movers(t) = {c} /\ EndsHere(t)'
             \/ t \notin strayed /\ Returning(t) = {} /\ EndsHere(t)'
             \/ /\ t \notin strayed /\ hist'[t] = hist[t] /\ c \notin Returning(t)
                /\ ~(c \in Movers(t) /\ At(c, "there") /\ Records(c))
  <2>1. CASE Records(c)
    <3>1. hist'[t] = Append(hist[t], url[t]) /\ url'[t] = url[t]
      BY <1>2, <1>6, <2>1 DEF StackInv, StackTypes
    <3>2. EndsHere(t)'
      BY <1>3, <1>6, <3>1 DEF EndsHere
    <3>3. QED
      BY <1>2, <1>6, <2>1, <3>2 DEF Settles
  <2>2. CASE ~Records(c)
    BY <1>2, <1>6, <2>2 DEF Settles, Returning, At
  <2>3. QED
    BY <2>1, <2>2
<1>7. QED
  BY <1>1, <1>2, <1>4, <1>5, <1>6, StackSettles

LEMMA StackFails ==
    ASSUME StackInv, NEW c \in Calls, Fails(c)
    PROVE  StackInv'
<1>1. PICK t : t = call[c].tab
  OBVIOUS
<1>2. /\ Done(c) /\ UNCHANGED <<url, hist>>
      /\ strayed' = IF c \in Returning(t) \/ (At(c, "there") /\ Records(c)) THEN strayed \cup {t} ELSE strayed
  BY <1>1 DEF Fails, browser
<1>3. t \in Tab \ strayed' => t \notin strayed /\ c \notin Returning(t) /\ ~(At(c, "there") /\ Records(c))
  BY <1>2
<1>4. hist' \in [Tab -> Seq(AnyUrl)] /\ strayed \subseteq strayed'
  BY <1>2 DEF StackInv, StackTypes
<1>5. QED
  BY <1>1, <1>2, <1>3, <1>4, StackSettles

LEMMA StackStep ==
    ASSUME StackInv, Bounded, Indexed, NEW c \in Calls, Step(c)
    PROVE  StackInv'
<1> USE DEF At, Moving
<1>1. /\ hist \in [Tab -> Seq(AnyUrl)] /\ url \in [Tab -> AnyUrl] /\ Urls \subseteq AnyUrl
  BY DEF StackInv, StackTypes, AnyUrl
<1>2. ASSUME Done(c), UNCHANGED <<hist, url, strayed>>, call[c].pc \notin Moving
      PROVE  StackInv'
  <2> DEFINE r == [Idle EXCEPT !.pc = "done"]
  <2>1. {"pc", "tool", "tab", "to", "dialog"} \subseteq DOMAIN r /\ r.to \in AnyUrl /\ r.pc \notin Moving
    BY DoneIs
  <2>2. Becomes(c, r)
    BY <1>2 DEF Done
  <2> HIDE DEF r
  <2>3. QED
    BY <1>2, <2>1, <2>2, StackUntouched
<1>3. ASSUME NEW r, Becomes(c, r), {"pc", "tool", "tab", "to", "dialog"} \subseteq DOMAIN r, r.to \in AnyUrl,
             r.pc \notin Moving, UNCHANGED <<hist, url, strayed>>, At(c, "idle")
      PROVE  StackInv'
  BY <1>3, StackUntouched
<1>4. CASE Navigate(c)
  <2>1. PICK u \in Urls : GoTo(c, "navigate", Active, u)
    BY <1>4 DEF Navigate
  <2>2. UNCHANGED <<hist, url>> /\ At(c, "idle")
    BY <1>4 DEF Navigate, browser
  <2>3. "navigate" \in MovesTab /\ u \in AnyUrl
    BY <1>1 DEF MovesTab
  <2>4. QED
    BY <1>1, <2>1, <2>2, <2>3, StackGoTo
<1>5. CASE Reload(c)
  <2>1. PICK t \in Tab : t = Active
    BY <1>5, ActiveIsATab DEF Reload
  <2>2. UNCHANGED <<hist, url>> /\ At(c, "idle") /\ GoTo(c, "reload", t, url[t])
    BY <1>5, <2>1 DEF Reload, browser
  <2>3. "reload" \in MovesTab /\ url[t] \in AnyUrl
    BY <1>1 DEF MovesTab
  <2>4. QED
    BY <1>1, <2>2, <2>3, StackGoTo
<1>6. CASE GoBack(c)
  <2>1. PICK t \in Tab : t = Active
    BY <1>6, ActiveIsATab DEF GoBack
  <2>2. PICK h \in Seq(AnyUrl) : h = hist[t]
    BY <1>1
  <2>3. /\ url' = url /\ At(c, "idle") /\ Len(h) >= 2
        /\ hist' = [hist EXCEPT ![t] = SubSeq(h, 1, Len(h) - 1)]
        /\ GoTo(c, "go_back", t, h[Len(h) - 1])
    BY <1>6, <2>1, <2>2 DEF GoBack, browser
  <2>4. PICK rest : rest = SubSeq(h, 1, Len(h) - 1)
    OBVIOUS
  <2>5. rest \in Seq(AnyUrl) /\ rest # <<>> /\ rest[Len(rest)] = h[Len(h) - 1] /\ h[Len(h) - 1] \in AnyUrl
    BY <2>3, <2>4, Dropped
  <2>6. hist'[t] = rest /\ hist' \in [Tab -> Seq(AnyUrl)] /\ \A s \in Tab : s # t => hist'[s] = hist[s]
    BY <1>1, <2>3, <2>4, <2>5
  <2>7. "go_back" \in MovesTab
    BY DEF MovesTab
  <2>8. QED
    BY <2>3, <2>5, <2>6, <2>7, StackGoTo
<1>7. CASE Lands(c)
  BY <1>7, StackLands
<1>8. CASE Arrives(c)
  BY <1>8, StackArrives
<1>9. CASE Fails(c)
  BY <1>9, StackFails
<1>10. CASE NewPage(c)
  <2>1. PICK u \in Urls \cup {"none"} : Becomes(c, [Idle EXCEPT !.pc = "opening", !.tool = "new_page", !.to = u])
    BY <1>10 DEF NewPage
  <2> DEFINE r == [Idle EXCEPT !.pc = "opening", !.tool = "new_page", !.to = u]
  <2>2. {"pc", "tool", "tab", "to", "dialog"} \subseteq DOMAIN r /\ r.to \in AnyUrl /\ r.pc = "opening"
    BY DEF Idle, AnyUrl
  <2>3. Becomes(c, r) /\ UNCHANGED <<hist, url, strayed>> /\ At(c, "idle")
    BY <1>10, <2>1 DEF NewPage, browser
  <2> HIDE DEF r
  <2>4. QED
    BY <1>3, <2>2, <2>3
<1>11. CASE Opens(c)
  <2>1. UNCHANGED <<hist, url>> /\ At(c, "opening") /\ call[c].to \in AnyUrl
    BY <1>11 DEF Opens, StackInv, StackTypes
  <2>2. CASE Done(c) /\ UNCHANGED strayed
    BY <1>2, <2>1, <2>2
  <2>3. CASE GoTo(c, "new_page", opened + 1, call[c].to)
    <3>1. "new_page" \in MovesTab
      BY DEF MovesTab
    <3>2. QED
      BY <1>1, <2>1, <2>3, <3>1, StackGoTo
  <2>4. QED
    BY <1>11, <2>2, <2>3 DEF Opens
<1>12. CASE ClosePage(c)
  <2>1. PICK i \in DOMAIN pages :
           Becomes(c, [Idle EXCEPT !.pc = "closing", !.tool = "close_page", !.tab = pages[i]])
    BY <1>12 DEF ClosePage
  <2> DEFINE r == [Idle EXCEPT !.pc = "closing", !.tool = "close_page", !.tab = pages[i]]
  <2>2. {"pc", "tool", "tab", "to", "dialog"} \subseteq DOMAIN r /\ r.to \in AnyUrl /\ r.pc = "closing"
    BY DEF Idle, AnyUrl
  <2>3. Becomes(c, r) /\ UNCHANGED <<hist, url, strayed>> /\ At(c, "idle")
    BY <1>12, <2>1 DEF ClosePage, browser
  <2> HIDE DEF r
  <2>4. QED
    BY <1>3, <2>2, <2>3
<1>13. CASE Respond(c)
  <2> DEFINE r == [Idle EXCEPT !.pc = "answering", !.tool = "handle_dialog", !.tab = Active, !.dialog = slot[Active]]
  <2>1. {"pc", "tool", "tab", "to", "dialog"} \subseteq DOMAIN r /\ r.to \in AnyUrl /\ r.pc = "answering"
    BY DEF Idle, AnyUrl
  <2>2. Becomes(c, r) /\ UNCHANGED <<hist, url, strayed>> /\ At(c, "idle")
    BY <1>13 DEF Respond, browser
  <2> HIDE DEF r
  <2>3. QED
    BY <1>3, <2>1, <2>2
<1>14. CASE OpensUnseen(c) \/ SelectPage(c) \/ Closes(c) \/ Answered(c)
  <2>1. Done(c) /\ UNCHANGED <<hist, url, strayed>> /\ call[c].pc \in {"opening", "idle", "closing", "answering"}
    BY <1>14 DEF OpensUnseen, SelectPage, Closes, Answered, browser
  <2>2. QED
    BY <1>2, <2>1
<1>15. QED
  BY <1>4, <1>5, <1>6, <1>7, <1>8, <1>9, <1>10, <1>11, <1>12, <1>13, <1>14 DEF Step

LEMMA StackKept == StackInv /\ Bounded /\ Indexed /\ [Next]_vars => StackInv'
<1> SUFFICES ASSUME StackInv, Bounded, Indexed, [Next]_vars PROVE StackInv'
  OBVIOUS
<1>1. ASSUME UNCHANGED <<hist, call>>, strayed \subseteq strayed', url' \in [Tab -> AnyUrl],
             \A t \in Tab \ strayed' : url'[t] = url[t]
      PROVE  StackInv'
  <2>1. StackTypes'
    BY <1>1 DEF StackInv, StackTypes
  <2>2. ASSUME NEW t \in Tab \ strayed' PROVE StackOf(t)'
    BY <1>1, <2>2, StackSame DEF StackInv
  <2>3. QED
    BY <2>1, <2>2 DEF StackInv
<1>2. ASSUME NEW t \in Tab, PageMoves(t) PROVE StackInv'
  <2>1. PICK u \in Urls : url' = [url EXCEPT ![t] = u]
    BY <1>2 DEF PageMoves
  <2>2. UNCHANGED <<hist, call>> /\ strayed' = strayed \cup {t} /\ url \in [Tab -> AnyUrl]
    BY <1>2 DEF PageMoves, StackInv, StackTypes
  <2>3. QED
    BY <1>1, <2>1, <2>2 DEF AnyUrl
<1>3. CASE UNCHANGED <<hist, call, strayed, url>>
  BY <1>1, <1>3 DEF StackInv, StackTypes
<1>4. QED
  BY <1>2, <1>3, StackStep DEF Next, DialogOpens, OnDialog, DialogGone, vars, browser

\* Between the moves of a tab the stack that go_back walks ends where the tab is
\* (page.py, back_url and goto), however its navigations, reloads and returns
\* overlap and fail, but for the cases that TabBook's strayed names: a return that
\* fails or is aborted, a navigation that fails once it has landed or is recorded
\* under a return, a move of the page itself; and those are over with the next
\* navigation that no other move of the tab overlaps.
THEOREM StackTheorem == Spec => []StackEndsHere
<1>1. StackInv => StackEndsHere
  BY DEF StackInv, StackOf, Returning, EndsHere, StackEndsHere
<1>2. Init => Bounded
  BY TabConstants DEF Init, Bounded, TabConstants
<1>3. BookInv => Indexed
  BY DEF BookInv
<1>4. QED
  BY <1>1, <1>2, <1>3, BookInit, BookKept, BoundedKept, StackInit, StackKept, PTL DEF Spec

-----------------------------------------------------------------------------
(* What a result tells of its tab (SettledObservation).                       *)

SomeUrl == Addresses \cup {"none"}
SomeTitle == Titles \cup {"none"}
Navigation ==
    [req : Int, url : SomeUrl, answered : BOOLEAN, dead : BOOLEAN, heard : BOOLEAN, late : SomeUrl \X Int]
TellingPc == {"idle", "body", "observe", "settle", "ready", "commit", "build", "read", "line", "title", "done"}
TellingRecord ==
    [pc : TellingPc, observe : BOOLEAN, led : SomeUrl, asked : SomeUrl, since : Int, mark : Int,
     expected : SomeUrl, long : BOOLEAN, heard : Int, gaveUp : BOOLEAN, tries : Int,
     before : SomeUrl \X Int, from : SomeTitle, leaving : BOOLEAN, block : SomeTitle,
     says : SUBSET Addresses, last : SomeUrl, line : BOOLEAN]

ToldTypes ==
    /\ tab \in [url : Addresses, doc : Int, title : Titles]
    /\ nav \in Navigation /\ (nav # NoNav => nav.url \in Addresses) /\ req \in Nat
    /\ shown_url \in SomeUrl /\ doc_mark \in Int
    /\ told \in [url : SomeUrl, fresh : BOOLEAN]
    /\ telling \in [Calls -> TellingRecord]

LEMMA ToldTypesInit == ObservationInit => ToldTypes
BY DEF ObservationInit, ToldTypes, NoNav, NoUrl, NoMark, NoTitle, Untold,
   Navigation, SomeUrl, SomeTitle, TellingRecord, TellingPc

\* A call is somewhere else, and what it holds is of the same sort.
LEMMA TellingMoves ==
    ASSUME ToldTypes, NEW c \in Calls, NEW r \in TellingRecord, Sets(c, r)
    PROVE  /\ telling' \in [Calls -> TellingRecord] /\ telling'[c] = r
           /\ \A d \in Calls : d # c => telling'[d] = telling[d]
BY DEF ToldTypes, Sets

LEMMA IdleIsTelling ==
    /\ Untold \in TellingRecord
    /\ Untold.block = "none" /\ Untold.says = {} /\ Untold.last = "none" /\ Untold.pc = "idle"
    /\ ~Untold.line /\ ~Untold.leaving /\ Untold.since = -1 /\ Untold.mark = -1
<1>1. Untold.before \in SomeUrl \X Int
  BY DEF Untold, NoUrl, NoMark, SomeUrl
<1>2. QED
  BY <1>1 DEF Untold, NoUrl, NoMark, NoTitle, TellingRecord, TellingPc, SomeUrl, SomeTitle

LEMMA RestIsTelling ==
    ASSUME NEW c \in Calls, telling[c] \in TellingRecord
    PROVE  /\ Rest(c) \in TellingRecord /\ Rest(c).pc = "line"
           /\ Rest(c).block = "none" /\ ~Rest(c).line /\ ~Rest(c).observe /\ ~Rest(c).gaveUp
           /\ Rest(c).last = telling[c].last /\ Rest(c).says = telling[c].says
BY IdleIsTelling DEF Rest, TellingRecord, TellingPc, Untold

LEMMA TellingEnds ==
    ASSUME ToldTypes, NEW c \in Calls, NEW line \in BOOLEAN, Ends(c, line)
    PROVE  /\ telling' \in [Calls -> TellingRecord]
           /\ telling'[c].pc = "done" /\ telling'[c].line = line
           /\ telling'[c].block = "none" /\ telling'[c].says = {} /\ telling'[c].last = "none"
           /\ \A d \in Calls : d # c => telling'[d] = telling[d]
<1> DEFINE r == [Untold EXCEPT !.pc = "done", !.led = telling[c].led, !.line = line]
<1>1. r \in TellingRecord
  BY IdleIsTelling DEF ToldTypes, TellingRecord, TellingPc
<1>2. /\ r.pc = "done" /\ r.line = line
      /\ r.block = "none" /\ r.says = {} /\ r.last = "none"
  BY IdleIsTelling DEF TellingRecord
<1>3. telling' = [telling EXCEPT ![c] = r]
  BY DEF Ends
<1> HIDE DEF r
<1>4. QED
  BY <1>1, <1>2, <1>3 DEF ToldTypes

\* The result ends: with a line, or without.
LEMMA FinishEnds ==
    ASSUME ToldTypes, NEW c \in Calls, NEW u \in Addresses, NEW line \in BOOLEAN, Finish(c, u, line)
    PROVE  /\ telling' \in [Calls -> TellingRecord]
           /\ telling'[c].pc = "done" /\ telling'[c].line = line
           /\ telling'[c].block = "none" /\ telling'[c].says = {} /\ telling'[c].last = "none"
           /\ \A d \in Calls : d # c => telling'[d] = telling[d]
           /\ shown_url' \in SomeUrl /\ told' \in [url : SomeUrl, fresh : BOOLEAN]
<1>1. Ends(c, line)
  BY DEF Finish
<1>2. telling[c].last \in SomeUrl
  BY DEF ToldTypes, TellingRecord
<1>3. shown_url' \in SomeUrl /\ told' \in [url : SomeUrl, fresh : BOOLEAN]
  BY <1>2 DEF Finish, Named, Shows, SomeUrl, ToldTypes
<1>4. QED
  BY <1>1, <1>3, TellingEnds

\* The line is due, and its title awaited, or the result ends without.
LEMMA CompareEnds ==
    ASSUME ToldTypes, NEW c \in Calls, NEW expected, Compare(c, expected)
    PROVE  /\ telling' \in [Calls -> TellingRecord]
           /\ shown_url' \in SomeUrl /\ told' \in [url : SomeUrl, fresh : BOOLEAN]
           /\ \A d \in Calls : d # c => telling'[d] = telling[d]
           /\ \/ /\ tab.url # expected
                 /\ telling'[c] = [telling[c] EXCEPT !.pc = "title", !.expected = tab.url]
                 /\ UNCHANGED <<shown_url, told>>
              \/ Finish(c, tab.url, FALSE)
<1>1. tab.url \in Addresses
  BY DEF ToldTypes
<1>2. CASE Finish(c, tab.url, FALSE)
  BY <1>1, <1>2, FinishEnds
<1>3. CASE /\ tab.url # expected
           /\ Sets(c, [telling[c] EXCEPT !.pc = "title", !.expected = tab.url])
           /\ UNCHANGED <<shown_url, told>>
  <2> DEFINE r == [telling[c] EXCEPT !.pc = "title", !.expected = tab.url]
  <2>1. telling[c] \in TellingRecord /\ tab.url \in SomeUrl
    BY <1>1 DEF ToldTypes, SomeUrl
  <2>3. r \in TellingRecord
    BY <2>1 DEF TellingRecord, TellingPc
  <2> HIDE DEF r
  <2>2. QED
    BY <1>3, <2>3, TellingMoves DEF r, ToldTypes
<1>4. QED
  BY <1>2, <1>3 DEF Compare

\* The calls move alone, and stay what they are.
LEMMA StepTypes ==
    ASSUME ToldTypes, NEW c \in Calls, TellingStep(c)
    PROVE  ToldTypes' /\ \A d \in Calls : d # c => telling'[d] = telling[d]
<1> USE DEF BrowserRests
<1>1. ASSUME NEW r \in TellingRecord, Sets(c, r)
      PROVE  telling' \in [Calls -> TellingRecord] /\ \A d \in Calls : d # c => telling'[d] = telling[d]
  BY <1>1, TellingMoves
<1>2. /\ telling[c] \in TellingRecord /\ tab.url \in Addresses /\ tab.url \in SomeUrl /\ tab.doc \in Int
      /\ tab.title \in Titles /\ tab.title \in SomeTitle /\ Rest(c) \in TellingRecord /\ req \in Int /\ "none" \in SomeUrl /\ nav \in Navigation
  BY RestIsTelling DEF ToldTypes, SomeUrl, SomeTitle
<1>3. CASE BodyStarts(c)
  <2>1. PICK u \in SomeUrl, asked \in SomeUrl, observe \in BOOLEAN :
            Sets(c, [telling[c] EXCEPT !.pc = "body", !.led = u, !.observe = observe, !.since = req,
                                       !.asked = asked])
    <3>1. PICK u \in SomeUrl, observe \in BOOLEAN :
            Sets(c, [telling[c] EXCEPT !.pc = "body", !.led = u, !.observe = observe, !.since = req,
                                       !.asked = IF ToolOf[c] = "navigate" THEN u ELSE "none"])
      BY <1>3 DEF BodyStarts, NoUrl, SomeUrl
    <3>2. PICK asked \in SomeUrl : asked = IF ToolOf[c] = "navigate" THEN u ELSE "none"
      BY <1>2
    <3>3. QED
      BY <3>1, <3>2
  <2>2. [telling[c] EXCEPT !.pc = "body", !.led = u, !.observe = observe, !.since = req, !.asked = asked]
            \in TellingRecord
    BY <1>2 DEF TellingRecord, TellingPc
  <2>3. shown_url' \in SomeUrl /\ doc_mark' \in Int
    BY <1>2, <1>3 DEF BodyStarts, NotePage, ToldTypes, SomeUrl
  <2>4. QED
    BY <1>1, <1>3, <2>1, <2>2, <2>3 DEF BodyStarts, ToldTypes
<1>4. CASE BodyEnds(c)
  <2> DEFINE u == IF ToolOf[c] = "navigate" THEN tab.url ELSE "none"
             r == [telling[c] EXCEPT !.pc = IF telling[c].observe THEN "observe" ELSE "line",
                                     !.last = u, !.says = {u} \ {"none"}]
  <2>1. Sets(c, r)
    BY <1>4 DEF BodyEnds, NoUrl
  <2>2. r \in TellingRecord
    <3>1. u \in SomeUrl /\ {u} \ {"none"} \in SUBSET Addresses
      BY <1>2
    <3> HIDE DEF u
    <3>2. QED
      BY <1>2, <3>1 DEF TellingRecord, TellingPc
  <2> HIDE DEF r
  <2>3. QED
    BY <1>1, <1>4, <2>1, <2>2 DEF BodyEnds, ToldTypes
<1>5. CASE ToolFails(c)
  <2>1. doc_mark' \in Int
    BY <1>5 DEF ToolFails, NoMark, ToldTypes
  <2>3. Ends(c, FALSE)
    BY <1>5, Zenon DEF ToolFails
  <2>2. QED
    BY <1>5, <2>1, <2>3, TellingEnds DEF ToolFails, ToldTypes, SomeUrl
<1>6. CASE Observe(c)
  <2>1. [telling[c] EXCEPT !.pc = "settle", !.mark = doc_mark, !.expected = shown_url] \in TellingRecord
    BY <1>2 DEF ToldTypes, TellingRecord, TellingPc
  <2>2. [telling[c] EXCEPT !.pc = "ready", !.mark = doc_mark] \in TellingRecord
    BY <1>2 DEF ToldTypes, TellingRecord, TellingPc
  <2>3. doc_mark' \in Int
    BY <1>6 DEF Observe, ToldTypes, NoMark
  <2>4. QED
    BY <1>1, <1>6, <2>1, <2>2, <2>3 DEF Observe, ToldTypes
<1>7. CASE SettleExtends(c)
  <2>1. [telling[c] EXCEPT !.long = TRUE] \in TellingRecord
    BY <1>2 DEF TellingRecord
  <2>2. QED
    BY <1>1, <1>7, <2>1 DEF SettleExtends, ToldTypes
<1>8. CASE SettleEnds(c)
  <2>1. [telling[c] EXCEPT !.pc = "ready"] \in TellingRecord
    BY <1>2 DEF TellingRecord, TellingPc
  <2>2. CASE telling[c].observe
    BY <1>1, <1>8, <2>1, <2>2 DEF SettleEnds, ToldTypes, NoMark
  <2>3. CASE ~telling[c].observe
    BY <1>8, <2>3, CompareEnds DEF SettleEnds, ToldTypes
  <2>4. QED
    BY <2>2, <2>3
<1>9. CASE Ready(c)
  <2>1. PICK pc \in {"build", "commit"}, heard \in Int :
            Sets(c, [telling[c] EXCEPT !.pc = pc, !.heard = heard])
    <3> DEFINE p == IF telling[c].mark = -1 THEN "build" ELSE "commit"
               h == IF telling[c].mark = -1 THEN -1 ELSE req
    <3>1. Sets(c, [telling[c] EXCEPT !.pc = p, !.heard = h])
      BY <1>9 DEF Ready, NoMark
    <3>2. p \in {"build", "commit"} /\ h \in Int
      BY <1>2
    <3> HIDE DEF p, h
    <3>3. QED
      BY <3>1, <3>2
  <2>2. [telling[c] EXCEPT !.pc = pc, !.heard = heard] \in TellingRecord
    BY <1>2 DEF TellingRecord, TellingPc
  <2>3. QED
    BY <1>1, <1>9, <2>1, <2>2 DEF Ready, ToldTypes
<1>10. CASE Committed(c)
  <2>1. PICK gave \in BOOLEAN : Sets(c, [telling[c] EXCEPT !.pc = "build", !.gaveUp = gave])
    BY <1>2, <1>10 DEF Committed, TellingRecord
  <2>2. [telling[c] EXCEPT !.pc = "build", !.gaveUp = gave] \in TellingRecord
    BY <1>2 DEF TellingRecord, TellingPc
  <2>3. QED
    BY <1>1, <1>10, <2>1, <2>2 DEF Committed, ToldTypes
<1>11. CASE Read(c)
  <2>1. BeingLeft(c) \in BOOLEAN /\ <<tab.url, req>> \in SomeUrl \X Int /\ telling[c].tries + 1 \in Int
    BY <1>2 DEF TellingRecord, BeingLeft
  <2>2. [telling[c] EXCEPT !.pc = "read", !.before = <<tab.url, req>>, !.from = tab.title,
                           !.leaving = BeingLeft(c), !.tries = @ + 1] \in TellingRecord
    BY <1>2, <2>1 DEF TellingRecord, TellingPc
  <2>3. QED
    BY <1>1, <1>2, <1>11, <2>2 DEF Read, ToldTypes
<1>12. CASE ReadEnds(c)
  <2>1. ASSUME NEW title \in {telling[c].from, tab.title}
        PROVE  [Rest(c) EXCEPT !.block = title, !.last = tab.url, !.says = @ \cup {tab.url},
                               !.leaving = telling[c].leaving, !.gaveUp = telling[c].gaveUp] \in TellingRecord
    <3>1. title \in SomeTitle /\ telling[c].leaving \in BOOLEAN /\ telling[c].gaveUp \in BOOLEAN
      BY <1>2 DEF TellingRecord
    <3>2. QED
      BY <1>2, <3>1 DEF TellingRecord
  <2>2. [telling[c] EXCEPT !.pc = "commit", !.mark = telling[c].before[2],
                           !.since = telling[c].before[2], !.heard = req] \in TellingRecord
    <3>1. telling[c].before[2] \in Int
      BY <1>2 DEF TellingRecord
    <3>2. QED
      BY <1>2, <3>1 DEF TellingRecord, TellingPc
  <2>3. QED
    BY <1>1, <1>12, <2>1, <2>2 DEF ReadEnds, ToldTypes
<1>13. CASE ReadFails(c)
  BY <1>1, <1>2, <1>13 DEF ReadFails, ToldTypes
<1>14. CASE Line(c)
  <2> DEFINE expected == IF ToolOf[c] = "navigate" THEN telling[c].asked ELSE shown_url
             r == [telling[c] EXCEPT !.pc = "settle", !.mark = doc_mark, !.expected = expected, !.observe = FALSE]
  <2>1. r \in TellingRecord
    BY <1>2 DEF ToldTypes, TellingRecord, TellingPc
  <2>2. UNCHANGED <<tab, nav, req, doc_mark>>
    BY <1>14 DEF Line
  <2>3. (Sets(c, r) /\ UNCHANGED <<shown_url, told>>) \/ Compare(c, expected)
    BY <1>14 DEF Line
  <2> HIDE DEF r, expected
  <2>4. QED
    BY <1>1, <2>1, <2>2, <2>3, CompareEnds DEF ToldTypes
<1>15. CASE Titled(c)
  <2>1. telling[c].expected \in SomeUrl /\ telling[c].last \in SomeUrl
    BY <1>2 DEF TellingRecord
  <2>2. PICK line \in BOOLEAN : Finish(c, telling[c].expected, line)
    BY <1>15 DEF Titled, Observed
  <2>3. shown_url' \in SomeUrl /\ told' \in [url : SomeUrl, fresh : BOOLEAN]
    BY <2>1, <2>2 DEF Finish, Named, Shows, ToldTypes
  <2>4. Ends(c, line)
    BY <2>2 DEF Finish
  <2>5. QED
    BY <1>15, <2>3, <2>4, TellingEnds DEF Titled, ToldTypes
<1>16. CASE TitleFails(c)
  <2>1. told' \in [url : SomeUrl, fresh : BOOLEAN] /\ Ends(c, FALSE)
    BY <1>2, <1>16 DEF TitleFails, Shows, ToldTypes, TellingRecord
  <2>2. QED
    BY <1>16, <2>1, TellingEnds DEF TitleFails, ToldTypes
<1>17. QED
  BY <1>3, <1>4, <1>5, <1>6, <1>7, <1>8, <1>9, <1>10, <1>11, <1>12, <1>13, <1>14, <1>15, <1>16 DEF TellingStep

\* What the browser does to a call is to be done with what its action asked for.
LEMMA BrowserTypes ==
    ASSUME ToldTypes, Browser
    PROVE  /\ ToldTypes' /\ UNCHANGED <<shown_url, doc_mark, told>>
           /\ \A d \in Calls : telling'[d] \in {telling[d], [telling[d] EXCEPT !.led = "none"]}
<1>0. /\ nav \in Navigation /\ tab \in [url : Addresses, doc : Int, title : Titles]
      /\ nav.late[1] \in SomeUrl /\ nav.late[2] \in Int /\ nav.late = <<nav.late[1], nav.late[2]>>
      /\ nav.url \in SomeUrl /\ nav.req \in Int /\ (nav # NoNav => nav.url \in Addresses) /\ req \in Nat
  BY DEF ToldTypes, Navigation
<1>1. ASSUME NEW u \in Addresses, Requests(u)
      PROVE  req' \in Nat /\ nav' \in Navigation /\ nav'.url \in Addresses
  <2>1. PICK late \in SomeUrl \X Int :
            nav' = [req |-> req + 1, url |-> u, answered |-> FALSE, dead |-> FALSE, heard |-> TRUE, late |-> late]
    BY <1>0, <1>1 DEF Requests
  <2>2. req' = req + 1 /\ u \in SomeUrl
    BY <1>1 DEF Requests, SomeUrl
  <2>3. QED
    BY <1>0, <2>1, <2>2 DEF Navigation
<1>2. ASSUME NEW u \in Addresses, NEW doc \in Int, Passes(u, doc)
      PROVE  /\ tab' \in [url : Addresses, doc : Int, title : Titles] /\ nav' \in Navigation /\ req' \in Nat
             /\ nav' # NoNav => nav'.url \in Addresses
  <2>1. nav' = [nav EXCEPT !.heard = FALSE]
    BY <1>2 DEF Passes
  <2>2. nav' \in Navigation /\ nav'.url = nav.url
    BY <1>0, <2>1 DEF Navigation
  <2>3. nav = NoNav => nav' = NoNav
    <3>1. ASSUME NEW n \in Navigation
          PROVE  n = [req |-> n.req, url |-> n.url, answered |-> n.answered, dead |-> n.dead, heard |-> n.heard,
                      late |-> n.late]
      BY DEF Navigation
    <3>2. /\ nav'.req = nav.req /\ nav'.url = nav.url /\ nav'.answered = nav.answered
          /\ nav'.dead = nav.dead /\ nav'.heard = FALSE /\ nav'.late = nav.late
      BY <1>0, <2>1 DEF Navigation
    <3>3. nav.heard = FALSE => nav' = nav
      BY <1>0, <2>2, <3>1, <3>2
    <3>4. nav = NoNav => nav.heard = FALSE
      BY DEF NoNav
    <3>5. QED
      BY <3>3, <3>4
  <2>4. QED
    BY <1>0, <1>2, <2>2, <2>3 DEF Passes
<1>3. CASE Hop
  BY <1>0, <1>1, <1>2, <1>3 DEF Hop, ToldTypes
<1>4. CASE Retitled
  BY <1>4 DEF Retitled, ToldTypes
<1>5. CASE Answer
  <2>1. nav' \in Navigation /\ nav'.url \in Addresses
    BY <1>0, <1>5 DEF Answer, Navigation
  <2>2. QED
    BY <1>5, <2>1 DEF Answer, ToldTypes
<1>6. CASE Commit
  <2>1. tab' \in [url : Addresses, doc : Int, title : Titles]
    BY <1>0, <1>6 DEF Commit
  <2>2. nav' \in Navigation /\ nav' = NoNav
    BY <1>6 DEF Commit, NoNav, NoMark, NoUrl, Navigation, SomeUrl
  <2>3. QED
    BY <1>6, <2>1, <2>2 DEF Commit, ToldTypes
<1>7. CASE LateCommit
  <2>1. tab' \in [url : Addresses, doc : Int, title : Titles]
    BY <1>0, <1>7 DEF LateCommit, NoUrl, SomeUrl
  <2>2. nav' = [nav EXCEPT !.heard = FALSE, !.late = <<"none", -1>>] /\ <<"none", -1>> \in SomeUrl \X Int
    BY <1>7 DEF LateCommit, NoUrl, NoMark, SomeUrl
  <2>3. nav # NoNav
    BY <1>7 DEF LateCommit, NoNav
  <2>4. nav' \in Navigation /\ nav'.url \in Addresses
    BY <1>0, <2>2, <2>3 DEF Navigation
  <2>5. QED
    BY <1>7, <2>1, <2>4 DEF LateCommit, ToldTypes
<1>8. ASSUME NEW c \in Calls, Led(c)
      PROVE  /\ ToldTypes' /\ UNCHANGED <<shown_url, doc_mark, told>>
             /\ \A d \in Calls : telling'[d] \in {telling[d], [telling[d] EXCEPT !.led = "none"]}
  <2>1. telling[c].led \in Addresses /\ telling[c] \in TellingRecord
    BY <1>8 DEF Led, NoUrl, ToldTypes, TellingRecord, SomeUrl
  <2>2. [telling[c] EXCEPT !.led = "none"] \in TellingRecord
    BY <2>1 DEF TellingRecord, SomeUrl
  <2>3. tab' \in [url : Addresses, doc : Int, title : Titles] /\ nav' \in Navigation /\ req' \in Nat
        /\ (nav' # NoNav => nav'.url \in Addresses)
    BY <1>0, <1>1, <1>2, <1>8, <2>1 DEF Led
  <2>4. QED
    BY <1>8, <2>2, <2>3, TellingMoves DEF Led, NoUrl, ToldTypes
<1>9. QED
  BY <1>3, <1>4, <1>5, <1>6, <1>7, <1>8 DEF Browser, Hop, Retitled, Answer, Commit, LateCommit

-----------------------------------------------------------------------------
\* What a call has to tell: a URL it has named is among those of its result, and
\* a result that has ended, or not begun, holds nothing.
Honest(c) ==
    LET r == telling[c] IN
    /\ IF r.last = "none" THEN r.says = {} ELSE r.last \in r.says
    /\ r.pc # "done" => ~r.line
    /\ r.pc = "title" => r.expected \in Addresses
    /\ r.pc \in {"idle", "done"} => r.block = "none" /\ r.last = "none" /\ r.mark = -1

ToldInv ==
    /\ ToldTypes
    /\ \A c \in Calls : Honest(c)
    /\ told.fresh => told.url \in {"none", shown_url}

LEMMA ToldInit == ObservationInit => ToldInv
<1>1. ASSUME ObservationInit, NEW c \in Calls PROVE Honest(c)
  BY <1>1, IdleIsTelling DEF ObservationInit, Honest
<1>2. QED
  BY <1>1, ToldTypesInit DEF ObservationInit, ToldInv, NoUrl

\* The result ends honestly: its last URL is the new baseline, or is stale, or
\* there is none.
LEMMA FinishTells ==
    ASSUME ToldInv, NEW c \in Calls, NEW u \in Addresses, NEW line \in BOOLEAN, Finish(c, u, line)
    PROVE  Honest(c)' /\ (told.fresh => told.url \in {"none", shown_url})'
<1>1. /\ telling'[c].pc = "done" /\ telling'[c].block = "none"
      /\ telling'[c].says = {} /\ telling'[c].last = "none"
  BY FinishEnds DEF ToldInv
<1>2. telling'[c].mark = -1
  BY IdleIsTelling DEF Finish, Ends, ToldInv, ToldTypes, TellingRecord
<1>3. Honest(c)
  BY DEF ToldInv
<1>4. (told.fresh => told.url \in {"none", shown_url})'
  <2>1. CASE line
    BY <2>1, ObservationConstants DEF Finish, Named, Shows, NoUrl, ObservationConstants
  <2>2. CASE ~line /\ telling[c].last = "none"
    BY <1>3, <2>2 DEF Finish, Named, Shows, Honest, ToldInv, NoUrl
  <2>3. CASE ~line /\ telling[c].last # "none"
    <3>1. told'.url = telling[c].last /\ told'.fresh = (telling[c].last = u)
      BY <2>3 DEF Finish, Named, Shows, NoUrl
    <3>2. telling[c].last = u => shown_url' = u
      BY <1>3, <2>3 DEF Finish, Honest
    <3>3. QED
      BY <3>1, <3>2
  <2>4. QED
    BY <2>1, <2>2, <2>3
<1>5. QED
  BY <1>1, <1>2, <1>4 DEF Honest

LEMMA CompareTells ==
    ASSUME ToldInv, NEW c \in Calls, NEW expected, telling[c].pc \notin {"idle", "done"},
           Compare(c, expected)
    PROVE  Honest(c)' /\ (told.fresh => told.url \in {"none", shown_url})'
<1>1. tab.url \in Addresses /\ ToldTypes /\ telling[c] \in TellingRecord
  BY DEF ToldInv, ToldTypes
<1>2. CASE Finish(c, tab.url, FALSE)
  BY <1>1, <1>2, FinishTells
<1>3. CASE /\ telling'[c] = [telling[c] EXCEPT !.pc = "title", !.expected = tab.url]
           /\ UNCHANGED <<shown_url, told>>
  BY <1>1, <1>3 DEF ToldInv, Honest, TellingRecord
<1>4. QED
  BY <1>1, <1>2, <1>3, CompareEnds

\* A step that only goes on.
LEMMA GoesOnTelling ==
    ASSUME ToldInv, NEW c \in Calls, telling'[c].pc \notin {"idle", "done", "title"}, telling[c].pc # "done",
           telling'[c].last = telling[c].last, telling'[c].says = telling[c].says,
           telling'[c].line = telling[c].line, UNCHANGED told, shown_url = "none" \/ UNCHANGED shown_url
    PROVE  Honest(c)' /\ (told.fresh => told.url \in {"none", shown_url})'
BY DEF ToldInv, Honest

LEMMA StepTold ==
    ASSUME ToldInv, NEW c \in Calls, TellingStep(c)
    PROVE  ToldInv'
<1>1. ToldTypes' /\ \A d \in Calls : d # c => telling'[d] = telling[d]
  BY StepTypes DEF ToldInv
<1>2. \A d \in Calls : d # c => Honest(d)'
  BY <1>1 DEF ToldInv, Honest
<1>3. /\ telling[c] \in TellingRecord /\ tab.url \in Addresses /\ "none" \notin Addresses /\ Honest(c)
      /\ telling \in [Calls -> TellingRecord]
      /\ Rest(c).pc = "line" /\ Rest(c).last = telling[c].last /\ Rest(c).says = telling[c].says /\ ~Rest(c).line
      /\ Rest(c) \in TellingRecord
  BY RestIsTelling, ObservationConstants DEF ToldInv, ToldTypes, ObservationConstants
<1>4. SUFFICES Honest(c)' /\ (told.fresh => told.url \in {"none", shown_url})'
  BY <1>1, <1>2 DEF ToldInv
<1> USE DEF TellingAt, Sets, TellingRecord
<1>5. CASE BodyStarts(c)
  BY <1>3, <1>5, GoesOnTelling DEF BodyStarts, NotePage, NoUrl
<1>6. CASE BodyEnds(c)
  <2>1. telling'[c].pc \in {"observe", "line"} /\ telling'[c].line = telling[c].line
        /\ telling'[c].last = (IF ToolOf[c] = "navigate" THEN tab.url ELSE "none")
        /\ telling'[c].says = {IF ToolOf[c] = "navigate" THEN tab.url ELSE "none"} \ {"none"}
    BY <1>3, <1>6 DEF BodyEnds, NoUrl
  <2>2. Honest(c)'
    BY <1>3, <1>6, <2>1 DEF BodyEnds, Honest
  <2>3. QED
    BY <1>6, <2>2 DEF BodyEnds, ToldInv
<1>7. CASE ToolFails(c)
  <2>1. /\ telling'[c].pc = "done" /\ telling'[c].block = "none"
        /\ telling'[c].says = {} /\ telling'[c].last = "none"
    BY <1>7, TellingEnds DEF ToolFails, ToldInv
  <2>2. telling'[c].mark = -1
    BY <1>3, <1>7, IdleIsTelling DEF ToolFails, Ends
  <2>3. QED
    BY <1>7, <2>1, <2>2 DEF ToolFails, ToldInv, Honest
<1>8. CASE Observe(c)
  <2>1. CASE Waits(c, shown_url)
    <3>1. telling' = [telling EXCEPT ![c] =
                         [telling[c] EXCEPT !.pc = "settle", !.mark = doc_mark, !.expected = shown_url]]
      BY <1>8, <2>1 DEF Observe
    <3>2. telling[c].pc = "observe" /\ UNCHANGED <<shown_url, told>>
      BY <1>8 DEF Observe
    <3>3. QED
      BY <1>3, <3>1, <3>2, GoesOnTelling
  <2>2. CASE ~Waits(c, shown_url)
    <3>1. telling' = [telling EXCEPT ![c] = [telling[c] EXCEPT !.pc = "ready", !.mark = doc_mark]]
      BY <1>8, <2>2 DEF Observe
    <3>2. telling[c].pc = "observe" /\ UNCHANGED <<shown_url, told>>
      BY <1>8 DEF Observe
    <3>3. QED
      BY <1>3, <3>1, <3>2, GoesOnTelling
  <2>3. QED
    BY <2>1, <2>2
<1>9. CASE SettleExtends(c)
  BY <1>3, <1>9, GoesOnTelling DEF SettleExtends
<1>10. CASE SettleEnds(c)
  BY <1>3, <1>10, GoesOnTelling, CompareTells DEF SettleEnds
<1>11. CASE Ready(c)
  BY <1>3, <1>11, GoesOnTelling DEF Ready
<1>12. CASE Committed(c)
  BY <1>3, <1>12, GoesOnTelling DEF Committed
<1>13. CASE Read(c)
  BY <1>3, <1>13, GoesOnTelling, Zenon DEF Read, Honest
<1>14. CASE ReadEnds(c)
  <2>1. telling[c].pc = "read" /\ UNCHANGED <<shown_url, told>>
    BY <1>14 DEF ReadEnds
  <2>2. CASE <<tab.url, req>> = telling[c].before
    <3>1. PICK title :
              telling' = [telling EXCEPT ![c] =
                  [Rest(c) EXCEPT !.block = title, !.last = tab.url, !.says = @ \cup {tab.url},
                                  !.leaving = telling[c].leaving, !.gaveUp = telling[c].gaveUp]]
      BY <1>14, <2>2 DEF ReadEnds
    <3>2. telling'[c].pc = "line" /\ telling'[c].last = tab.url
          /\ telling'[c].says = telling[c].says \cup {tab.url} /\ ~telling'[c].line
      BY <1>3, <3>1
    <3>3. QED
      BY <1>3, <2>1, <3>2 DEF Honest, ToldInv
  <2>3. CASE <<tab.url, req>> # telling[c].before
    <3>1. telling' = [telling EXCEPT ![c] = [telling[c] EXCEPT !.pc = "commit", !.mark = telling[c].before[2],
                                               !.since = telling[c].before[2], !.heard = req]]
      BY <1>14, <2>3 DEF ReadEnds
    <3>2. QED
      BY <1>3, <2>1, <3>1, GoesOnTelling
  <2>4. QED
    BY <2>2, <2>3
<1>15. CASE ReadFails(c)
  <2>1. telling' = [telling EXCEPT ![c] = Rest(c)] /\ telling[c].pc = "read" /\ UNCHANGED <<shown_url, told>>
    BY <1>15 DEF ReadFails
  <2>2. telling'[c] = Rest(c) /\ ~telling[c].line
    BY <1>3, <2>1 DEF Honest
  <2>3. QED
    BY <1>3, <2>1, <2>2, GoesOnTelling
<1>16. CASE Line(c)
  <2>2. CASE \E expected \in {telling[c].asked, shown_url} : Compare(c, expected)
    BY <1>16, <2>2, CompareTells DEF Line
  <2> DEFINE expected == IF ToolOf[c] = "navigate" THEN telling[c].asked ELSE shown_url
  <2>3. CASE Waits(c, expected)
    <3>1. telling' = [telling EXCEPT ![c] = [telling[c] EXCEPT !.pc = "settle", !.mark = doc_mark,
                                               !.expected = expected, !.observe = FALSE]]
      BY <1>16, <2>3 DEF Line
    <3>2. telling[c].pc = "line" /\ UNCHANGED <<shown_url, told>>
      BY <1>16, <2>3 DEF Line
    <3>3. QED
      BY <1>3, <3>1, <3>2, GoesOnTelling
  <2>4. CASE ~Waits(c, expected)
    BY <1>16, <2>2, <2>4 DEF Line
  <2>5. QED
    BY <2>3, <2>4
<1>17. CASE Titled(c)
  <2>0. telling[c].expected \in Addresses /\ telling[c].expected \in SomeUrl
    BY <1>3, <1>17 DEF Titled, Honest, SomeUrl
  <2>1. PICK line \in BOOLEAN : Finish(c, telling[c].expected, line)
    BY <1>17 DEF Titled, Observed
  <2>2. QED
    BY <2>0, <2>1, FinishTells
<1>18. CASE TitleFails(c)
  <2>1. Ends(c, FALSE) /\ Shows(telling[c].last, FALSE) /\ shown_url' = shown_url
    BY <1>18 DEF TitleFails
  <2>2. /\ telling'[c].pc = "done" /\ telling'[c].block = "none"
        /\ telling'[c].says = {} /\ telling'[c].last = "none"
    BY <2>1, TellingEnds DEF ToldInv
  <2>3. telling'[c].mark = -1
    BY <1>3, <2>1, IdleIsTelling DEF Ends
  <2>4. (told.fresh => told.url \in {"none", shown_url})'
    BY <2>1 DEF Shows, ToldInv
  <2>5. QED
    BY <2>2, <2>3, <2>4 DEF Honest
<1>19. QED
  BY <1>5, <1>6, <1>7, <1>8, <1>9, <1>10, <1>11, <1>12, <1>13, <1>14, <1>15, <1>16, <1>17, <1>18 DEF TellingStep

\* The browser ends nothing of what a call has to tell.
LEMMA BrowserTold ==
    ASSUME ToldInv, Browser
    PROVE  ToldInv'
<1>1. /\ ToldTypes' /\ UNCHANGED <<shown_url, doc_mark, told>>
      /\ \A d \in Calls : telling'[d] \in {telling[d], [telling[d] EXCEPT !.led = "none"]}
  BY BrowserTypes DEF ToldInv
<1>2. ASSUME NEW d \in Calls PROVE Honest(d)'
  <2>1. Honest(d) /\ telling[d] \in TellingRecord
    BY DEF ToldInv, ToldTypes
  <2>2. QED
    BY <1>1, <2>1 DEF Honest, TellingRecord
<1>3. QED
  BY <1>1, <1>2 DEF ToldInv

LEMMA ToldNext ==
    ASSUME ToldInv, [ObservationNext]_observationVars
    PROVE  ToldInv'
<1>1. CASE UNCHANGED observationVars
  BY <1>1 DEF observationVars, ToldInv, ToldTypes, Honest
<1>2. QED
  BY <1>1, BrowserTold, StepTold DEF ObservationNext

\* Between calls, the URL that the next action's is compared with is what the agent was
\* last shown, unless the tab had left that when the result ended (_page_line.py), whatever
\* calls overlap.
THEOREM BaselineIsToldHolds ==
    ObservationSpec => []BaselineIsTold
<1>1. ToldInv => BaselineIsTold
  BY DEF ToldInv, BaselineIsTold, NoUrl
<1>2. ObservationSpec => []ToldInv
  BY ToldInit, ToldNext, PTL DEF ObservationSpec
<1>3. QED
  BY <1>1, <1>2, PTL

-----------------------------------------------------------------------------
\* One call at a time: what it waits for, and what it will say.

Alone == \A c, d \in Calls : Running(c) /\ Running(d) => c = d

\* The navigation under way has been requested, and only an answer is never
\* committed.
Heard ==
    /\ nav.req <= req
    /\ nav.answered \/ ~nav.dead

\* The calls that have the page to read still.
Reading(c) ==
    \/ telling[c].pc \in {"body", "observe", "ready", "commit", "build", "read"}
    \/ telling[c].pc = "settle" /\ telling[c].observe

Tells(c) ==
    LET r == telling[c] IN
    /\ Reading(c) => 0 <= r.since /\ r.since <= req /\ r.mark <= r.since
    /\ r.pc \in {"body", "observe"} => doc_mark <= r.since
    /\ r.pc = "settle" /\ ~r.observe => r.expected = shown_url /\ ToolOf[c] # "navigate"
    /\ r.pc = "title" /\ ToolOf[c] # "navigate" => r.expected # shown_url
    /\ r.pc \in {"commit", "build", "read"} => r.heard <= req
    /\ r.pc = "read" => r.since <= r.before[2] /\ r.before[2] <= req
    /\ r.pc = "build" => r.gaveUp \/ ~BeingLeft(c)
    /\ r.pc = "read" \/ r.block # "none" => r.gaveUp \/ ~r.leaving
    /\ r.block # "none" => r.pc \in {"line", "settle", "title"} /\ (r.pc = "settle" => ~r.observe)

TellsInv ==
    /\ ToldInv /\ Alone /\ Heard /\ doc_mark <= req
    /\ \A c \in Calls : Tells(c)

LEMMA TellsInit == ObservationInit => TellsInv
<1>1. ASSUME ObservationInit, NEW c \in Calls PROVE ~Running(c) /\ Tells(c)
  BY <1>1, IdleIsTelling DEF ObservationInit, Running, Reading, Tells
<1>2. ObservationInit => Heard /\ doc_mark <= req
  BY DEF ObservationInit, Heard, NoNav, NoMark
<1>3. QED
  BY <1>1, <1>2, ToldInit DEF TellsInv, Alone

\* Only one call is under way, and a call at rest has nothing to get wrong.
LEMMA OthersAtRest ==
    ASSUME Serial, TellsInv, NEW c \in Calls, TellingStep(c), NEW d \in Calls, d # c
    PROVE  ~Running(d)
<1>1. Running(c) \/ BodyStarts(c)
  BY DEF TellingStep, Running, TellingAt, BodyEnds, ToolFails, Observe, SettleExtends,
     SettleEnds, Ready, Committed, Read, ReadEnds, ReadFails, Line, Titled, TitleFails
<1>2. CASE Running(c)
  BY <1>2 DEF TellsInv, Alone
<1>3. CASE BodyStarts(c)
  BY <1>3 DEF BodyStarts
<1>4. QED
  BY <1>1, <1>2, <1>3

LEMMA AtRestTells ==
    ASSUME NEW d \in Calls, telling[d].pc \in {"idle", "done"}, Honest(d)
    PROVE  Tells(d)
BY DEF Tells, Honest, Reading

\* A result that has ended holds nothing more.
LEMMA FinishAtRest ==
    ASSUME ToldInv, NEW c \in Calls, NEW u \in Addresses, NEW line \in BOOLEAN,
           Finish(c, u, line)
    PROVE  Tells(c)'
<1>1. telling'[c].pc = "done" /\ telling'[c].block = "none"
  BY FinishEnds DEF ToldInv
<1>2. QED
  BY <1>1 DEF Tells, Reading

\* The comparison of the line: but for a navigate, it is due where the tab is not
\* where the agent was last shown.
LEMMA CompareAsTold ==
    ASSUME TellsInv, NEW c \in Calls, NEW expected,
           telling[c].pc \in {"line", "settle"}, telling[c].pc = "settle" => ~telling[c].observe,
           ToolOf[c] # "navigate" => expected = shown_url,
           Compare(c, expected), UNCHANGED <<req, doc_mark>>
    PROVE  Tells(c)'
<1>1. Tells(c) /\ tab.url \in Addresses /\ telling[c] \in TellingRecord /\ ToldInv /\ ToldTypes
  BY DEF TellsInv, ToldInv, ToldTypes
<1>2. CASE Finish(c, tab.url, FALSE)
  BY <1>1, <1>2, FinishAtRest
<1>3. CASE /\ tab.url # expected
           /\ telling'[c] = [telling[c] EXCEPT !.pc = "title", !.expected = tab.url]
           /\ UNCHANGED <<shown_url, told>>
  BY <1>1, <1>3 DEF Tells, TellingRecord, Reading
<1>4. QED
  BY <1>1, <1>2, <1>3, CompareEnds

LEMMA StepTells ==
    ASSUME TellsInv, NEW c \in Calls, TellingStep(c)
    PROVE  Tells(c)' /\ doc_mark' <= req'
<1>1. /\ telling \in [Calls -> TellingRecord] /\ telling[c] \in TellingRecord /\ Tells(c) /\ Honest(c)
      /\ tab.url \in Addresses /\ tab.doc \in Int /\ req \in Nat /\ doc_mark \in Int /\ nav \in Navigation
      /\ ToldInv /\ ToldTypes /\ Heard /\ doc_mark <= req /\ "none" \notin Addresses
      /\ Rest(c) \in TellingRecord /\ Rest(c).pc = "line" /\ Rest(c).block = "none"
  BY RestIsTelling, ObservationConstants DEF TellsInv, ToldInv, ToldTypes, ObservationConstants
<1>2. telling[c].pc \in TellingPc
  BY <1>1 DEF TellingRecord
<1> USE DEF TellingAt, Sets, BrowserRests, Reading
<1>3. CASE BodyStarts(c)
  <2>1. PICK u, observe, asked : telling' = [telling EXCEPT ![c] =
            [telling[c] EXCEPT !.pc = "body", !.led = u, !.observe = observe, !.since = req, !.asked = asked]]
    <3>1. PICK u, observe : telling' = [telling EXCEPT ![c] =
              [telling[c] EXCEPT !.pc = "body", !.led = u, !.observe = observe, !.since = req,
                                 !.asked = IF ToolOf[c] = "navigate" THEN u ELSE NoUrl]]
      BY <1>3 DEF BodyStarts
    <3>2. PICK asked : asked = IF ToolOf[c] = "navigate" THEN u ELSE NoUrl
      OBVIOUS
    <3>3. QED
      BY <3>1, <3>2
  <2>2. telling[c].pc = "idle" /\ doc_mark' \in {doc_mark, req} /\ req' = req
    BY <1>3 DEF BodyStarts, NotePage
  <2>3. telling[c].block = "none" /\ telling[c].mark = -1
    BY <1>1, <2>2 DEF Honest
  <2>4. QED
    BY <1>1, <2>1, <2>2, <2>3 DEF Tells, TellingRecord
<1>4. CASE BodyEnds(c)
  <2>1. PICK pc \in {"observe", "line"} : \E last, says : telling' = [telling EXCEPT ![c] =
            [telling[c] EXCEPT !.pc = pc, !.last = last, !.says = says]]
    BY <1>4 DEF BodyEnds
  <2>2. telling[c].pc = "body" /\ doc_mark' = doc_mark /\ req' = req
    BY <1>4 DEF BodyEnds
  <2>3. telling[c].block = "none"
    BY <1>1, <2>2 DEF Tells
  <2>4. QED
    BY <1>1, <2>1, <2>2, <2>3 DEF Tells, TellingRecord
<1>5. CASE ToolFails(c)
  <2>1. telling'[c].pc = "done" /\ telling'[c].block = "none"
    BY <1>1, <1>5, TellingEnds DEF ToolFails
  <2>2. doc_mark' \in {doc_mark, -1} /\ req' = req
    BY <1>5 DEF ToolFails, NoMark
  <2>3. QED
    BY <1>1, <2>1, <2>2 DEF Tells
<1>6. CASE Observe(c)
  <2>1. telling[c].pc = "observe" /\ UNCHANGED <<req, shown_url>>
    BY <1>6 DEF Observe
  <2>2. CASE Waits(c, shown_url)
    <3>1. telling' = [telling EXCEPT ![c] =
                         [telling[c] EXCEPT !.pc = "settle", !.mark = doc_mark, !.expected = shown_url]]
          /\ ToolOf[c] = "click" /\ doc_mark' = doc_mark
      BY <1>6, <2>2 DEF Observe, Waits, Settling
    <3>2. telling[c].block = "none"
      BY <1>1, <2>1 DEF Tells
    <3>3. QED
      BY <1>1, <2>1, <3>1, <3>2 DEF Tells, TellingRecord
  <2>3. CASE ~Waits(c, shown_url)
    <3>1. telling' = [telling EXCEPT ![c] = [telling[c] EXCEPT !.pc = "ready", !.mark = doc_mark]]
          /\ doc_mark' = -1
      BY <1>6, <2>3 DEF Observe, NoMark
    <3>2. telling[c].block = "none"
      BY <1>1, <2>1 DEF Tells
    <3>3. QED
      BY <1>1, <2>1, <3>1, <3>2 DEF Tells, TellingRecord
  <2>4. QED
    BY <2>2, <2>3
<1>7. CASE SettleExtends(c)
  BY <1>1, <1>7 DEF SettleExtends, Tells, TellingRecord
<1>8. CASE SettleEnds(c)
  <2>1. telling[c].pc = "settle" /\ UNCHANGED <<tab, nav, req>>
    BY <1>8 DEF SettleEnds
  <2>2. CASE telling[c].observe
    <3>1. telling' = [telling EXCEPT ![c] = [telling[c] EXCEPT !.pc = "ready"]]
          /\ doc_mark' = -1 /\ shown_url' = shown_url
      BY <1>8, <2>2 DEF SettleEnds, NoMark
    <3>2. telling[c].block = "none" /\ 0 <= telling[c].since /\ telling[c].since <= req /\ telling[c].mark <= telling[c].since
      BY <1>1, <2>1, <2>2 DEF Tells
    <3>4. /\ telling'[c].pc = "ready" /\ telling'[c].block = telling[c].block
          /\ telling'[c].since = telling[c].since /\ telling'[c].mark = telling[c].mark
      BY <1>1, <3>1 DEF TellingRecord
    <3>3. QED
      BY <1>1, <2>1, <3>1, <3>2, <3>4 DEF Tells
  <2>3. CASE ~telling[c].observe
    <3>1. Compare(c, telling[c].expected) /\ doc_mark' = doc_mark /\ telling[c].expected = shown_url
      BY <1>1, <1>8, <2>1, <2>3 DEF SettleEnds, Tells
    <3>2. QED
      BY <1>1, <2>1, <2>3, <3>1, CompareAsTold
  <2>4. QED
    BY <2>2, <2>3
<1>9. CASE Ready(c)
  <2>1. telling[c].pc = "ready" /\ UNCHANGED <<tab, nav, req, shown_url, doc_mark>>
    BY <1>9 DEF Ready
  <2>2. telling[c].block = "none"
    BY <1>1, <2>1 DEF Tells
  <2>3. CASE telling[c].mark = -1
    <3>1. telling' = [telling EXCEPT ![c] = [telling[c] EXCEPT !.pc = "build", !.heard = -1]]
      BY <1>9, <2>3 DEF Ready, NoMark
    <3>2. /\ telling'[c].pc = "build" /\ telling'[c].heard = -1 /\ telling'[c].since = telling[c].since
          /\ telling'[c].mark = -1 /\ telling'[c].block = "none"
      BY <1>1, <2>2, <2>3, <3>1 DEF TellingRecord
    <3>3. nav.req \in Int /\ 0 <= telling[c].since /\ telling[c].since <= req /\ telling[c].since \in Int
      BY <1>1, <2>1 DEF Tells, Navigation, TellingRecord
    <3>4. ~BeingLeft(c)'
      BY <2>1, <3>2, <3>3 DEF BeingLeft
    <3>5. QED
      BY <1>1, <2>1, <3>2, <3>3, <3>4 DEF Tells
  <2>4. CASE telling[c].mark # -1
    <3>1. telling' = [telling EXCEPT ![c] = [telling[c] EXCEPT !.pc = "commit", !.heard = req]]
      BY <1>9, <2>4 DEF Ready, NoMark
    <3>2. QED
      BY <1>1, <2>1, <2>2, <3>1 DEF Tells, TellingRecord
  <2>5. QED
    BY <2>3, <2>4
<1>10. CASE Committed(c)
  <2>1. telling[c].pc = "commit" /\ UNCHANGED <<tab, nav, req, shown_url, doc_mark>>
    BY <1>10 DEF Committed
  <2>2. telling' = [telling EXCEPT ![c] =
            [telling[c] EXCEPT !.pc = "build",
                               !.gaveUp = telling[c].gaveUp \/ (req > telling[c].mark /\ Pending)]]
    BY <1>10 DEF Committed
  <2>3. telling[c].block = "none" /\ telling[c].mark <= telling[c].since
    BY <1>1, <2>1 DEF Tells
  <2>4. (req > telling[c].mark /\ Pending) \/ ~nav.heard \/ nav.req <= telling[c].since
    BY <1>1, <2>3 DEF Heard, Pending, Navigation, TellingRecord
  <2>5. telling'[c].gaveUp = (telling[c].gaveUp \/ (req > telling[c].mark /\ Pending))
        /\ telling'[c].pc = "build" /\ telling'[c].since = telling[c].since
        /\ telling'[c].heard = telling[c].heard /\ telling'[c].block = telling[c].block
        /\ telling'[c].mark = telling[c].mark
    BY <1>1, <2>2 DEF TellingRecord
  <2>6. telling'[c].gaveUp \/ ~BeingLeft(c)'
    <3>1. nav.req \in Int /\ telling[c].since \in Int
      BY <1>1 DEF Navigation, TellingRecord
    <3>2. CASE req > telling[c].mark /\ Pending
      BY <2>5, <3>2
    <3>3. CASE ~nav.heard
      BY <2>1, <3>3, Zenon DEF BeingLeft
    <3>4. CASE nav.req <= telling[c].since
      BY <2>1, <2>5, <3>1, <3>4 DEF BeingLeft
    <3>5. QED
      BY <2>4, <3>2, <3>3, <3>4
  <2>7. QED
    BY <1>1, <2>1, <2>3, <2>5, <2>6 DEF Tells
<1>11. CASE Read(c)
  <2>1. telling[c].pc = "build" /\ UNCHANGED <<tab, nav, req, shown_url, doc_mark>>
    BY <1>11 DEF Read
  <2>2. telling[c].block = "none"
    BY <1>1, <2>1 DEF Tells
  <2>3. CASE telling' = [telling EXCEPT ![c] = Rest(c)]
    <3>1. telling'[c] = Rest(c)
      BY <1>1, <2>3
    <3>2. QED
      BY <1>1, <2>1, <3>1 DEF Tells
  <2>4. CASE telling' = [telling EXCEPT ![c] =
                [telling[c] EXCEPT !.pc = "read", !.before = <<tab.url, req>>, !.from = tab.title,
                                   !.leaving = BeingLeft(c), !.tries = @ + 1]]
    <3>1. /\ telling'[c].pc = "read" /\ telling'[c].before = <<tab.url, req>> /\ telling'[c].leaving = BeingLeft(c)
          /\ telling'[c].since = telling[c].since /\ telling'[c].heard = telling[c].heard
          /\ telling'[c].block = telling[c].block /\ telling'[c].mark = telling[c].mark
          /\ telling'[c].gaveUp = telling[c].gaveUp
      BY <1>1, <2>4 DEF TellingRecord
    <3>2. QED
      BY <1>1, <2>1, <2>2, <3>1 DEF Tells
  <2>5. QED
    BY <1>11, <2>3, <2>4 DEF Read
<1>12. CASE ReadEnds(c)
  <2>1. telling[c].pc = "read" /\ UNCHANGED <<tab, nav, req, shown_url, doc_mark>>
    BY <1>12 DEF ReadEnds
  <2>2. telling[c].block = "none"
    BY <1>1, <2>1 DEF Tells
  <2>3. CASE <<tab.url, req>> = telling[c].before
    <3>1. PICK title : telling' = [telling EXCEPT ![c] =
              [Rest(c) EXCEPT !.block = title, !.last = tab.url, !.says = @ \cup {tab.url},
                              !.leaving = telling[c].leaving, !.gaveUp = telling[c].gaveUp]]
      BY <1>12, <2>3 DEF ReadEnds
    <3>2. telling'[c].pc = "line" /\ telling'[c].leaving = telling[c].leaving /\ telling'[c].gaveUp = telling[c].gaveUp
      BY <1>1, <3>1 DEF TellingRecord
    <3>3. QED
      BY <1>1, <2>1, <3>2 DEF Tells
  <2>4. CASE <<tab.url, req>> # telling[c].before
    <3>1. telling' = [telling EXCEPT ![c] =
              [telling[c] EXCEPT !.pc = "commit", !.mark = telling[c].before[2],
                                 !.since = telling[c].before[2], !.heard = req]]
      BY <1>12, <2>4 DEF ReadEnds
    <3>2. telling[c].before[2] \in Int
      BY <1>1 DEF TellingRecord
    <3>3. QED
      BY <1>1, <2>1, <2>2, <3>1, <3>2 DEF Tells, TellingRecord
  <2>5. QED
    BY <2>3, <2>4
<1>13. CASE ReadFails(c)
  <2>1. telling'[c] = Rest(c)
    BY <1>1, <1>13 DEF ReadFails
  <2>2. UNCHANGED <<req, doc_mark>>
    BY <1>13 DEF ReadFails
  <2>3. QED
    BY <1>1, <2>1, <2>2 DEF Tells
<1>14. CASE Line(c)
  <2> DEFINE expected == IF ToolOf[c] = "navigate" THEN telling[c].asked ELSE shown_url
  <2>1. telling[c].pc = "line" /\ UNCHANGED <<tab, nav, req, doc_mark>>
    BY <1>14 DEF Line
  <2>2. CASE Waits(c, expected)
    <3>1. telling' = [telling EXCEPT ![c] = [telling[c] EXCEPT !.pc = "settle", !.mark = doc_mark,
                                               !.expected = expected, !.observe = FALSE]]
          /\ shown_url' = shown_url
      BY <1>14, <2>2 DEF Line
    <3>2. ToolOf[c] = "click"
      BY <2>2 DEF Waits, Settling
    <3>3. expected = shown_url
      BY <3>2
    <3> HIDE DEF expected
    <3>4. QED
      BY <1>1, <2>1, <3>1, <3>2, <3>3 DEF Tells, TellingRecord
  <2>3. CASE ~Waits(c, expected)
    <3>1. Compare(c, expected)
      BY <1>14, <2>3 DEF Line
    <3>2. QED
      BY <1>1, <2>1, <3>1, CompareAsTold
  <2>4. QED
    BY <2>2, <2>3
<1>15. CASE Titled(c)
  <2>1. PICK line \in BOOLEAN : Finish(c, telling[c].expected, line)
    BY <1>15 DEF Titled, Observed
  <2>2. telling[c].expected \in Addresses /\ UNCHANGED <<req, doc_mark>>
    BY <1>1, <1>15 DEF Titled, Honest
  <2>3. QED
    BY <1>1, <2>1, <2>2, FinishAtRest
<1>16. CASE TitleFails(c)
  <2>1. telling'[c].pc = "done" /\ telling'[c].block = "none" /\ UNCHANGED <<req, doc_mark>>
    BY <1>1, <1>16, TellingEnds DEF TitleFails
  <2>2. QED
    BY <1>1, <2>1 DEF Tells
<1>17. QED
  BY <1>3, <1>4, <1>5, <1>6, <1>7, <1>8, <1>9, <1>10, <1>11, <1>12, <1>13, <1>14, <1>15, <1>16 DEF TellingStep

\* The browser asks for a document no wait has heard of yet, answers one, commits
\* one, or moves the tab otherwise: no page is being left by this that was not.
LEMMA BrowserTells ==
    ASSUME TellsInv, Browser
    PROVE  /\ Heard' /\ doc_mark' <= req' /\ req <= req'
           /\ \A d \in Calls : Tells(d)'
<1>1. /\ ToldTypes /\ Heard /\ doc_mark <= req /\ nav \in Navigation /\ req \in Nat /\ doc_mark \in Int
  BY DEF TellsInv, ToldInv, ToldTypes
<1>2. /\ UNCHANGED <<shown_url, doc_mark, told>>
      /\ \A d \in Calls : telling'[d] \in {telling[d], [telling[d] EXCEPT !.led = "none"]}
  BY <1>1, BrowserTypes
<1>3. \/ \E u : Requests(u)
      \/ /\ ~nav.answered /\ req' = req
         /\ \E dead \in BOOLEAN : nav' = [nav EXCEPT !.answered = TRUE, !.dead = dead]
      \/ req' = req /\ nav' = NoNav
      \/ req' = req /\ nav' = nav
      \/ req' = req /\ \E late : nav' = [nav EXCEPT !.heard = FALSE, !.late = late]
  <2>0. ASSUME NEW u, NEW doc, Passes(u, doc)
        PROVE  req' = req /\ \E late : nav' = [nav EXCEPT !.heard = FALSE, !.late = late]
    <3>1. [nav EXCEPT !.heard = FALSE] = [nav EXCEPT !.heard = FALSE, !.late = nav.late]
      BY <1>1 DEF Navigation
    <3>2. QED
      BY <2>0, <3>1 DEF Passes
  <2>1. CASE Hop
    BY <2>0, <2>1 DEF Hop
  <2>2. CASE Answer \/ Commit \/ Retitled
    BY <2>2 DEF Answer, Commit, Retitled
  <2>3. CASE LateCommit
    BY <2>3 DEF LateCommit
  <2>4. CASE \E d \in Calls : Led(d)
    BY <2>0, <2>4 DEF Led
  <2>5. QED
    BY <2>1, <2>2, <2>3, <2>4 DEF Browser
<1>4. /\ Heard'
      /\ \/ req' = req + 1 /\ nav'.req = req + 1
         \/ req' = req /\ (nav'.dead \/ ~nav'.heard \/ (nav'.req = nav.req /\ nav'.dead = nav.dead /\ nav'.heard = nav.heard))
  <2>1. CASE \E u : Requests(u)
    BY <1>1, <2>1 DEF Requests, Heard
  <2>2. CASE ~nav.answered /\ req' = req
             /\ \E dead \in BOOLEAN : nav' = [nav EXCEPT !.answered = TRUE, !.dead = dead]
    <3>1. nav'.answered = TRUE /\ nav'.req = nav.req /\ nav.dead = FALSE /\ nav'.dead \in BOOLEAN
          /\ nav'.heard = nav.heard
      BY <1>1, <2>2 DEF Heard, Navigation
    <3>2. QED
      BY <1>1, <2>2, <3>1 DEF Heard
  <2>3. CASE req' = req /\ nav' = NoNav
    BY <1>1, <2>3 DEF Heard, NoNav, NoMark
  <2>4. CASE req' = req /\ nav' = nav
    BY <1>1, <2>4 DEF Heard
  <2>5. CASE req' = req /\ \E late : nav' = [nav EXCEPT !.heard = FALSE, !.late = late]
    BY <1>1, <2>5 DEF Heard, Navigation
  <2>6. QED
    BY <1>3, <2>1, <2>2, <2>3, <2>4, <2>5
<1>5. ASSUME NEW d \in Calls PROVE Tells(d)'
  <2>1. telling[d] \in TellingRecord /\ Tells(d)
    BY <1>1 DEF TellsInv, ToldTypes
  <2>2. /\ telling'[d].pc = telling[d].pc /\ telling'[d].since = telling[d].since
        /\ telling'[d].mark = telling[d].mark /\ telling'[d].heard = telling[d].heard
        /\ telling'[d].observe = telling[d].observe /\ telling'[d].expected = telling[d].expected
        /\ telling'[d].block = telling[d].block /\ telling'[d].last = telling[d].last
        /\ telling'[d].before = telling[d].before /\ telling'[d].leaving = telling[d].leaving
        /\ telling'[d].gaveUp = telling[d].gaveUp
    BY <1>2, <2>1 DEF TellingRecord
  <2>3. /\ telling[d].since \in Int /\ telling[d].heard \in Int /\ telling[d].before[2] \in Int
        /\ telling[d].mark \in Int
    BY <2>1 DEF TellingRecord
  <2>4. req <= req' /\ req' \in Int
    BY <1>1, <1>4
  <2>5. telling[d].pc = "build" => telling'[d].gaveUp \/ ~BeingLeft(d)'
    <3>1. CASE req' = req + 1 /\ nav'.req = req + 1
      BY <1>1, <2>1, <2>2, <2>3, <3>1 DEF Tells, BeingLeft
    <3>2. CASE nav'.dead \/ ~nav'.heard
      BY <3>2 DEF BeingLeft
    <3>3. CASE nav'.req = nav.req /\ nav'.dead = nav.dead /\ nav'.heard = nav.heard
      BY <2>1, <2>2, <3>3 DEF Tells, BeingLeft
    <3>4. QED
      BY <1>4, <3>1, <3>2, <3>3
  <2>6. telling[d].pc = "read" \/ telling[d].block # "none" => telling'[d].gaveUp \/ ~telling'[d].leaving
    BY <2>1, <2>2 DEF Tells
  <2>7. /\ Reading(d)' => 0 <= telling'[d].since /\ telling'[d].since <= req' /\ telling'[d].mark <= telling'[d].since
        /\ telling'[d].pc \in {"body", "observe"} => doc_mark' <= telling'[d].since
    BY <1>1, <1>2, <2>1, <2>2, <2>3, <2>4 DEF Tells, Reading
  <2>8. /\ telling'[d].pc \in {"commit", "build", "read"} => telling'[d].heard <= req'
        /\ telling'[d].pc = "read" => telling'[d].since <= telling'[d].before[2] /\ telling'[d].before[2] <= req'
    BY <1>1, <2>1, <2>2, <2>3, <2>4 DEF Tells
  <2>9. QED
    BY <1>2, <2>1, <2>2, <2>5, <2>6, <2>7, <2>8 DEF Tells
<1>6. QED
  BY <1>1, <1>2, <1>4, <1>5

LEMMA TellsNext ==
    ASSUME Serial, TellsInv, [ObservationNext]_observationVars
    PROVE  TellsInv'
<1>1. ToldInv' /\ (Browser => ToldTypes)
  BY ToldNext DEF TellsInv, ToldInv
<1>2. CASE UNCHANGED observationVars
  BY <1>1, <1>2 DEF observationVars, TellsInv, Alone, Heard, Tells, BeingLeft, Reading, Running
<1>3. CASE Browser
  <2>1. \A d \in Calls : telling'[d].pc = telling[d].pc
    BY <1>3, BrowserTypes DEF TellsInv, ToldInv, ToldTypes, TellingRecord
  <2>2. Alone'
    BY <2>1 DEF TellsInv, Alone, Running
  <2>3. QED
    BY <1>1, <1>3, <2>2, BrowserTells DEF TellsInv
<1>4. ASSUME NEW c \in Calls, TellingStep(c) PROVE TellsInv'
  <2>1. Tells(c)' /\ doc_mark' <= req'
    BY <1>4, StepTells
  <2>2. \A d \in Calls : d # c => telling'[d] = telling[d]
    BY <1>4, StepTypes DEF TellsInv, ToldInv
  <2>3. \A d \in Calls : d # c => ~Running(d)
    BY <1>4, OthersAtRest
  <2>4. \A d \in Calls : d # c => ~Running(d)'
    BY <2>2, <2>3 DEF Running
  <2>5. \A d \in Calls : d # c => Tells(d)'
    <3>1. ASSUME NEW d \in Calls, d # c
          PROVE  telling'[d].pc \in {"idle", "done"} /\ Honest(d)'
      BY <1>1, <2>4, <3>1 DEF Running, ToldInv
    <3>2. ASSUME NEW d \in Calls, d # c PROVE Tells(d)'
      BY <3>1, <3>2 DEF Tells, Honest, Reading
    <3>3. QED
      BY <3>2
  <2>6. Heard'
    <3>1. UNCHANGED <<nav, req>>
      BY <1>4 DEF TellingStep, BrowserRests, BodyStarts, BodyEnds, ToolFails, Observe, SettleExtends,
         SettleEnds, Ready, Committed, Read, ReadEnds, ReadFails, Line, Titled, TitleFails
    <3>2. QED
      BY <3>1 DEF TellsInv, Heard
  <2>7. Alone'
    BY <2>4 DEF Alone
  <2>8. QED
    BY <1>1, <2>1, <2>5, <2>6, <2>7 DEF TellsInv
<1>5. QED
  BY <1>2, <1>3, <1>4 DEF ObservationNext

\* An observation that stands does not describe a page left behind: what was requested
\* before the wait for commits began was over when the page was read, unless that wait used
\* up a budget, the answer was one that is never committed, or another move of the tab was
\* heard and taken for the commit (_settled_observation.py, network.py), for calls made one
\* at a time.
THEOREM ReadsWhereItLedHolds ==
    ASSUME Serial PROVE ObservationSpec => []ReadsWhereItLed
<1>1. TellsInv => ReadsWhereItLed
  BY DEF TellsInv, Tells, ReadsWhereItLed, NoTitle
<1>2. ObservationSpec => []TellsInv
  BY TellsInit, TellsNext, PTL DEF ObservationSpec
<1>3. QED
  BY <1>1, <1>2, PTL

\* Only the line that a title was awaited for is a new one.
LEMMA LineNews ==
    ASSUME TellsInv, [ObservationNext]_observationVars, NEW c \in Calls,
           telling'[c].line # telling[c].line
    PROVE  /\ telling[c].block # "none" => <<told'.url, tab.title>> # <<telling[c].last, telling[c].block>>
           /\ ToolOf[c] # "navigate" /\ told.fresh => told'.url # told.url
<1>1. /\ telling[c] \in TellingRecord /\ telling \in [Calls -> TellingRecord] /\ Tells(c) /\ Honest(c)
      /\ ToldInv /\ ToldTypes /\ "none" \notin Addresses
      /\ ~Rest(c).line /\ Rest(c) \in TellingRecord
  BY RestIsTelling, ObservationConstants DEF TellsInv, ToldInv, ToldTypes, ObservationConstants
<1>2. Titled(c)
  <2>1. ~UNCHANGED observationVars
    BY DEF observationVars
  <2>2. ~Browser
    BY <1>1, BrowserTypes DEF TellingRecord
  <2>3. PICK d \in Calls : TellingStep(d)
    BY <2>1, <2>2 DEF ObservationNext
  <2>4. d = c
    BY <1>1, <2>3, StepTypes
  <2>5. ASSUME NEW expected, Compare(c, expected), telling[c].pc # "done" PROVE FALSE
    <3>1. tab.url \in Addresses /\ telling[c].line = FALSE
      BY <1>1, <2>5 DEF ToldTypes, Honest, TellingRecord
    <3>2. CASE Finish(c, tab.url, FALSE)
      <4>1. telling'[c].line = FALSE
        BY <1>1, <3>1, <3>2, FinishEnds
      <4>2. QED
        BY <3>1, <4>1
    <3>3. CASE telling'[c] = [telling[c] EXCEPT !.pc = "title", !.expected = tab.url]
      BY <1>1, <3>3 DEF TellingRecord
    <3>4. QED
      BY <1>1, <2>5, <3>2, <3>3, CompareEnds
  <2> USE DEF TellingAt, Sets
  <2>6. ASSUME NEW new, new.line = telling[c].line, telling' = [telling EXCEPT ![c] = new] PROVE FALSE
    BY <1>1, <2>6
  <2>7. ~BodyStarts(c)
    <3>1. ASSUME NEW u, NEW observe, NEW asked
          PROVE  [telling[c] EXCEPT !.pc = "body", !.led = u, !.observe = observe,
                                    !.since = req, !.asked = asked].line = telling[c].line
      BY <1>1 DEF TellingRecord
    <3>2. ASSUME BodyStarts(c) PROVE FALSE
      <4>1. PICK u, observe : telling' = [telling EXCEPT ![c] =
                [telling[c] EXCEPT !.pc = "body", !.led = u, !.observe = observe, !.since = req,
                                   !.asked = IF ToolOf[c] = "navigate" THEN u ELSE NoUrl]]
        BY <3>2 DEF BodyStarts
      <4> DEFINE asked == IF ToolOf[c] = "navigate" THEN u ELSE NoUrl
                 new == [telling[c] EXCEPT !.pc = "body", !.led = u, !.observe = observe, !.since = req,
                                           !.asked = asked]
      <4>2. telling' = [telling EXCEPT ![c] = new]
        BY <4>1
      <4> HIDE DEF asked
      <4>3. new.line = telling[c].line
        BY <3>1
      <4> HIDE DEF new
      <4>4. QED
        BY <2>6, <4>2, <4>3
    <3>3. QED
      BY <3>2
  <2>0. ASSUME telling' = [telling EXCEPT ![c] = Rest(c)], telling[c].pc # "done" PROVE FALSE
    <3>1. telling'[c].line = Rest(c).line
      BY <1>1, <2>0
    <3>2. telling[c].line = FALSE /\ Rest(c).line = FALSE
      BY <1>1, <2>0 DEF Honest, TellingRecord
    <3>3. QED
      BY <3>1, <3>2
  <2>8. ~BodyEnds(c) /\ ~ReadFails(c)
    <3>1. ASSUME NEW pc, NEW last, NEW says
          PROVE  /\ [telling[c] EXCEPT !.pc = pc, !.last = last, !.says = says].line = telling[c].line
                 /\ [telling[c] EXCEPT !.pc = pc].line = telling[c].line
      BY <1>1 DEF TellingRecord
    <3>2. ~BodyEnds(c)
      <4> DEFINE named == IF ToolOf[c] = "navigate" THEN tab.url ELSE "none"
                 pc == IF telling[c].observe THEN "observe" ELSE "line"
      <4>1. BodyEnds(c) => telling' = [telling EXCEPT ![c] =
                                   [telling[c] EXCEPT !.pc = pc, !.last = named, !.says = {named} \ {"none"}]]
        BY DEF BodyEnds, NoUrl
      <4> HIDE DEF named, pc
      <4> DEFINE new == [telling[c] EXCEPT !.pc = pc, !.last = named, !.says = {named} \ {"none"}]
      <4>2. new.line = telling[c].line
        BY <3>1
      <4> HIDE DEF new
      <4>3. QED
        BY <2>6, <4>1, <4>2 DEF new
    <3>3. ~ReadFails(c)
      BY <2>0 DEF ReadFails
    <3>4. QED
      BY <3>2, <3>3
  <2>9. ~SettleExtends(c)
    BY <1>1 DEF SettleExtends, TellingRecord
  <2>10. ~Ready(c) /\ ~Committed(c)
    <3>1. ASSUME NEW pc, NEW heard,
                 telling' = [telling EXCEPT ![c] = [telling[c] EXCEPT !.pc = pc, !.heard = heard]]
          PROVE  FALSE
      BY <1>1, <3>1 DEF TellingRecord
    <3>2. ASSUME NEW pc, NEW gave,
                 telling' = [telling EXCEPT ![c] = [telling[c] EXCEPT !.pc = pc, !.gaveUp = gave]]
          PROVE  FALSE
      BY <1>1, <3>2 DEF TellingRecord
    <3>3. QED
      BY <3>1, <3>2 DEF Ready, Committed
  <2>11. ~Read(c)
    <3>1. CASE telling[c].tries = 2
      BY <2>0, <3>1 DEF Read
    <3>2. CASE telling[c].tries # 2
      BY <1>1, <2>6, <3>2 DEF Read, TellingRecord
    <3>3. QED
      BY <3>1, <3>2
  <2>12. ~ReadEnds(c)
    <3>1. ASSUME NEW title
          PROVE  [Rest(c) EXCEPT !.block = title, !.last = tab.url, !.says = @ \cup {tab.url},
                                 !.leaving = telling[c].leaving, !.gaveUp = telling[c].gaveUp].line = Rest(c).line
      BY <1>1 DEF TellingRecord
    <3>2. [telling[c] EXCEPT !.pc = "commit", !.mark = telling[c].before[2],
                             !.since = telling[c].before[2], !.heard = req].line = telling[c].line
      BY <1>1 DEF TellingRecord
    <3>3. CASE <<tab.url, req>> = telling[c].before
      <4>1. ASSUME ReadEnds(c) PROVE Rest(c).line = telling[c].line
        <5>1. telling[c].line = FALSE
          BY <1>1, <4>1 DEF ReadEnds, Honest, TellingRecord
        <5>2. Rest(c).line = FALSE
          BY <1>1 DEF TellingRecord
        <5>3. QED
          BY <5>1, <5>2
      <4>2. ASSUME ReadEnds(c)
            PROVE  \E title : telling' = [telling EXCEPT ![c] =
                       [Rest(c) EXCEPT !.block = title, !.last = tab.url, !.says = @ \cup {tab.url},
                                       !.leaving = telling[c].leaving, !.gaveUp = telling[c].gaveUp]]
        BY <3>3, <4>2 DEF ReadEnds
      <4>3. QED
        BY <2>6, <3>1, <4>1, <4>2
    <3>4. CASE <<tab.url, req>> # telling[c].before
      BY <2>6, <3>2, <3>4 DEF ReadEnds
    <3>5. QED
      BY <3>3, <3>4
  <2>13. ~Observe(c)
    <3>1. /\ [telling[c] EXCEPT !.pc = "settle", !.mark = doc_mark, !.expected = shown_url].line = telling[c].line
          /\ [telling[c] EXCEPT !.pc = "ready", !.mark = doc_mark].line = telling[c].line
      BY <1>1 DEF TellingRecord
    <3>2. CASE Waits(c, shown_url)
      BY <2>6, <3>1, <3>2 DEF Observe
    <3>3. CASE ~Waits(c, shown_url)
      BY <2>6, <3>1, <3>3 DEF Observe
    <3>4. QED
      BY <3>2, <3>3
  <2>14. ~SettleEnds(c)
    BY <1>1, <2>5 DEF SettleEnds, TellingRecord
  <2>15. ~Line(c)
    <3> DEFINE expected == IF ToolOf[c] = "navigate" THEN telling[c].asked ELSE shown_url
    <3>1. CASE Waits(c, expected)
      <4>1. ASSUME Line(c)
            PROVE  telling' = [telling EXCEPT ![c] = [telling[c] EXCEPT !.pc = "settle", !.mark = doc_mark,
                                                        !.expected = expected, !.observe = FALSE]]
        BY <3>1, <4>1 DEF Line
      <4> HIDE DEF expected
      <4>2. ASSUME NEW m
            PROVE  [telling[c] EXCEPT !.pc = "settle", !.mark = m, !.expected = expected,
                                      !.observe = FALSE].line = telling[c].line
        BY <1>1 DEF TellingRecord
      <4>3. QED
        BY <2>6, <4>1, <4>2
    <3>2. CASE ~Waits(c, expected)
      BY <2>5, <3>2 DEF Line
    <3>3. QED
      BY <3>1, <3>2
  <2>16. ~ToolFails(c) /\ ~TitleFails(c)
    <3>1. ASSUME ToolFails(c) \/ TitleFails(c) PROVE FALSE
      <4>1. Ends(c, FALSE) /\ telling[c].pc # "done"
        BY <3>1, Zenon DEF ToolFails, TitleFails, Running
      <4>2. telling'[c].line = FALSE
        BY <1>1, <4>1, TellingEnds
      <4>3. telling[c].line = FALSE
        BY <1>1, <4>1 DEF Honest, TellingRecord
      <4>4. QED
        BY <4>2, <4>3
    <3>2. QED
      BY <3>1
  <2>17. QED
    BY <2>3, <2>4, <2>7, <2>8, <2>13, <2>14, <2>15, <2>16, <2>9, <2>10, <2>11, <2>12 DEF TellingStep
<1>3. telling[c].expected \in Addresses /\ telling[c].pc = "title" /\ ~telling[c].line
  BY <1>1, <1>2 DEF Titled, TellingAt, Honest
<1>4. /\ ~Observed(c, telling[c].expected, tab.title)
      /\ told' = [url |-> telling[c].expected, fresh |-> TRUE]
  <2>1. PICK line \in BOOLEAN : line = ~Observed(c, telling[c].expected, tab.title)
    BY DEF Observed
  <2>2. Finish(c, telling[c].expected, line)
    BY <1>2, <2>1 DEF Titled
  <2>3. line
    BY <1>1, <1>3, <2>2, FinishEnds DEF TellingRecord
  <2>4. QED
    BY <1>1, <1>3, <2>1, <2>2, <2>3 DEF Finish, Named, Shows, NoUrl
<1>5. QED
  BY <1>1, <1>3, <1>4 DEF Tells, ToldInv, Observed, NoTitle

\* A "[page]" line is not the one that the observation of the same result carries, and does
\* not name the URL the agent was last shown, unless the baseline could not follow that
\* (_page_line.py), for calls made one at a time.
THEOREM LineIsNewsHolds ==
    ASSUME Serial PROVE ObservationSpec => LineIsNews
<1>1. TellsInv /\ [ObservationNext]_observationVars =>
          [\A c \in Calls : telling'[c].line # telling[c].line =>
              /\ telling[c].block # NoTitle => <<told'.url, tab.title>> # <<telling[c].last, telling[c].block>>
              /\ ToolOf[c] # "navigate" /\ told.fresh => told'.url # told.url]_observationVars
  BY LineNews DEF NoTitle
<1>2. ObservationSpec => []TellsInv
  BY TellsInit, TellsNext, PTL DEF ObservationSpec
<1>3. QED
  BY <1>1, <1>2, PTL DEF ObservationSpec, LineIsNews

-----------------------------------------------------------------------------
(* What a call does to an element (ElementAction).                            *)

ActingPc == {"idle", "locate", "probe", "aim", "measured", "click", "clicked", "prepare", "delete", "type",
             "options", "select", "stat", "read", "attach", "done", "failed", "cancelled"}
OnDisk == {"small", "large", "refused"}
Note == [uid : Elements \cup {""}, resolved : BOOLEAN]
Place == {-1, 0, 1}
ActingRecord ==
    [pc : ActingPc, at : Nat \ {0}, prev : Place, aim : Place, checked : BOOLEAN, calm : BOOLEAN,
     still : BOOLEAN, notes : Seq(Note), wrote : SUBSET Nat, typed : Nat, strayed : BOOLEAN,
     data : OnDisk \cup {"none"}, hit : BOOLEAN]
OnPage ==
    [place : {0, 1}, covered : BOOLEAN, alive : BOOLEAN, checked : BOOLEAN, text : Seq(Calls \cup {"old"}),
     options : SUBSET Int, chosen : Int, files : {<<>>} \cup (Calls \X (OnDisk \cup {"none"}))]

ActingTypes ==
    /\ el \in [Elements -> OnPage]
    /\ focus \in [on : Elements \cup {"body"}, all : BOOLEAN]
    /\ disk \in OnDisk
    /\ acting \in [Calls -> ActingRecord]
    /\ \A c \in Calls : acting[c].at \in 1..Len(Fields[c])

\* A call at rest has done nothing yet.
LEMMA IdleIsActing ==
    /\ Unmade \in ActingRecord
    /\ Unmade.pc = "idle" /\ Unmade.at = 1 /\ Unmade.prev = -1 /\ Unmade.aim = -1
    /\ Unmade.notes = <<>> /\ Unmade.wrote = {} /\ ~Unmade.strayed /\ ~Unmade.hit
    /\ Unmade.calm /\ Unmade.still /\ ~Unmade.checked /\ Unmade.data = "none"
<1>1. <<>> \in Seq(Note)
  OBVIOUS
<1>2. QED
  BY <1>1 DEF Unmade, Unset, ActingRecord, ActingPc, Place

LEMMA FieldIsNamed ==
    ASSUME ActingTypes, NEW c \in Calls
    PROVE  /\ Field(c) \in Elements /\ acting[c] \in ActingRecord /\ el[Field(c)] \in OnPage
           /\ Len(Fields[c]) \in Nat /\ acting[c].at \in 1..Len(Fields[c]) /\ Fields[c] \in Seq(Elements)
           /\ \A i \in 1..Len(Fields[c]) : Fields[c][i] \in Elements
<1>1. Fields[c] \in Seq(Elements)
  BY ActionConstants DEF ActionConstants
<1>2. acting[c].at \in 1..Len(Fields[c])
  BY DEF ActingTypes
<1>3. Fields[c][acting[c].at] \in Elements
  BY <1>1, <1>2
<1>4. QED
  BY <1>1, <1>2, <1>3 DEF ActingTypes, Field

LEMMA ActingTypesInit ==
    ActionInit => ActingTypes
<1>1. ASSUME NEW c \in Calls PROVE 1 \in 1..Len(Fields[c])
  <2>1. Fields[c] \in Seq(Elements) /\ Fields[c] # <<>>
    BY ActionConstants DEF ActionConstants
  <2>2. QED
    BY <2>1
<1>2. <<"old">> \in Seq(Calls \cup {"old"})
  OBVIOUS
<1>3. QED
  BY <1>1, <1>2, IdleIsActing DEF ActionInit, ActingTypes, OnPage, OnDisk

\* Max of one.
LEMMA MaxOfOne == ASSUME NEW i \in Int PROVE Max({i}) = i
BY DEF Max

\* A call goes on, its locals gone if it has ended; the others lose at most their calm.
LEMMA ActMoves ==
    ASSUME ActingTypes, NEW c \in Calls, NEW r \in ActingRecord, NEW touched,
           r.at \in 1..Len(Fields[c]), Moves(c, r, touched)
    PROVE  /\ acting' \in [Calls -> ActingRecord] /\ (\A d \in Calls : acting'[d].at \in 1..Len(Fields[d]))
           /\ acting'[c] = Leaves(r)
           /\ acting'[c].pc = r.pc /\ acting'[c].at = r.at /\ acting'[c].notes = r.notes
           /\ acting'[c].wrote = r.wrote /\ acting'[c].strayed = r.strayed
           /\ acting'[c].aim = -1 <=> r.aim = -1
           /\ r.pc \notin {"done", "failed", "cancelled"} => acting'[c] = r
           /\ \A d \in Calls : d # c =>
                  acting'[d] = IF Acting(d) /\ Field(d) \in touched
                               THEN [acting[d] EXCEPT !.calm = FALSE] ELSE acting[d]
<1>1. /\ Leaves(r) \in ActingRecord /\ Leaves(r).pc = r.pc /\ Leaves(r).at = r.at
      /\ Leaves(r).notes = r.notes /\ Leaves(r).wrote = r.wrote /\ Leaves(r).strayed = r.strayed
      /\ Leaves(r).aim = -1 <=> r.aim = -1
      /\ r.pc \notin {"done", "failed", "cancelled"} => Leaves(r) = r
  <2>1. CASE r.pc \notin {"done", "failed", "cancelled"}
    BY <2>1 DEF Leaves
  <2>2. CASE r.pc \in {"done", "failed", "cancelled"}
    <3> DEFINE a == IF r.aim = -1 THEN -1 ELSE 0
    <3>1. a \in Place /\ (a = -1 <=> r.aim = -1)
      BY DEF Place
    <3>2. Leaves(r) = [Unmade EXCEPT !.pc = r.pc, !.at = r.at, !.notes = r.notes, !.wrote = r.wrote,
                                           !.strayed = r.strayed, !.aim = a]
      BY <2>2 DEF Leaves, Unset
    <3> HIDE DEF a
    <3>3. QED
      BY <2>2, <3>1, <3>2, IdleIsActing DEF ActingRecord
  <2>3. QED
    BY <2>1, <2>2
<1>2. ASSUME NEW d \in Calls, d # c
      PROVE  /\ [acting[d] EXCEPT !.calm = FALSE] \in ActingRecord
             /\ [acting[d] EXCEPT !.calm = FALSE].at = acting[d].at
             /\ acting[d].at \in 1..Len(Fields[d]) /\ acting[d] \in ActingRecord
  BY FieldIsNamed DEF ActingRecord
<1>3. acting'[c] = Leaves(r)
  BY DEF Moves
<1>4. ASSUME NEW d \in Calls, d # c
      PROVE  acting'[d] = IF Acting(d) /\ Field(d) \in touched
                          THEN [acting[d] EXCEPT !.calm = FALSE] ELSE acting[d]
  BY <1>4 DEF Moves
<1>5. \A d \in Calls : acting'[d] \in ActingRecord /\ acting'[d].at \in 1..Len(Fields[d])
  BY <1>1, <1>2, <1>3, <1>4
<1>6. acting' \in [Calls -> ActingRecord]
  <2>1. acting' = [d \in Calls |-> acting'[d]]
    BY DEF Moves
  <2>2. QED
    BY <1>5, <2>1
<1>7. QED
  BY <1>1, <1>3, <1>4, <1>5, <1>6

LEMMA SameLength ==
    ASSUME NEW S, NEW s \in Seq(S), NEW i, NEW a PROVE Len([s EXCEPT ![i] = a]) = Len(s)
OBVIOUS

LEMMA OneMore ==
    ASSUME NEW S, NEW s \in Seq(S), NEW a, NEW n \in Nat, Len(s) = n
    PROVE  /\ Len(Append(s, a)) = n + 1 /\ Append(s, a)[n + 1] = a
           /\ \A i \in 1..n : Append(s, a)[i] = s[i]
OBVIOUS

\* A text with one more key, or one alone.
LEMMA RangeOfKeys ==
    ASSUME NEW S, NEW t \in Seq(S), NEW c, NEW d \in Range(<<c>>) \cup Range(Append(t, c))
    PROVE  d = c \/ d \in Range(t)
<1>1. Len(t) \in Nat /\ DOMAIN t = 1..Len(t) /\ DOMAIN Append(t, c) = 1..(Len(t) + 1)
      /\ Append(t, c)[Len(t) + 1] = c /\ \A i \in 1..Len(t) : Append(t, c)[i] = t[i]
  OBVIOUS
<1>2. DOMAIN <<c>> = {1} /\ <<c>>[1] = c
  OBVIOUS
<1>3. QED
  BY <1>1, <1>2 DEF Range

LEMMA OneIsSeq == ASSUME NEW S, NEW n \in S PROVE Append(<<>>, n) = <<n>> /\ <<n>> \in Seq(S)
OBVIOUS

\* The first address a call notes.
LEMMA NotedFirst ==
    ASSUME NEW uid \in Elements \cup {""}
    PROVE  /\ Noted(<<>>, uid) \in Seq(Note)
           /\ Noted(<<>>, uid) = <<[uid |-> uid, resolved |-> FALSE]>>
<1> DEFINE note == [uid |-> uid, resolved |-> FALSE]
<1>1. note \in Note /\ Noted(<<>>, uid) = Append(<<>>, note)
  BY DEF Note, Noted
<1> HIDE DEF note
<1>2. Append(<<>>, note) = <<note>> /\ <<note>> \in Seq(Note)
  BY <1>1, OneIsSeq
<1>3. QED
  BY <1>1, <1>2 DEF note

\* A note completed is a note among the others.
LEMMA IdentifiedNotes ==
    ASSUME NEW notes \in Seq(Note), NEW uid \in Elements
    PROVE  Identified(notes, uid) \in Seq(Note)
<1> DEFINE known == [uid |-> uid, resolved |-> TRUE]
<1>1. known \in Note
  BY DEF Note
<1>2. Append(notes, known) \in Seq(Note)
  BY <1>1
<1>3. ASSUME NEW k PROVE [notes EXCEPT ![k] = known] \in Seq(Note)
  <2>1. Len(notes) \in Nat /\ DOMAIN notes = 1..Len(notes)
    OBVIOUS
  <2> HIDE DEF known
  <2>2. CASE k \in 1..Len(notes)
    BY <1>1, <2>2, ExceptSeq
  <2>3. CASE k \notin 1..Len(notes)
    <3>1. [notes EXCEPT ![k] = known] = [i \in DOMAIN notes |-> notes[i]]
      BY <2>1, <2>3
    <3>2. notes = [i \in DOMAIN notes |-> notes[i]]
      OBVIOUS
    <3>3. QED
      BY <3>1, <3>2
  <2>4. QED
    BY <2>2, <2>3
<1>4. QED
  BY <1>2, <1>3 DEF Identified

\* A field filled: the next of the form, or the end of the call.
LEMMA FilledMoves ==
    ASSUME ActingTypes, NEW c \in Calls, NEW r \in ActingRecord, r.at = acting[c].at
    PROVE  LET f == Filled(r, Fields[c]) IN
           /\ f \in ActingRecord /\ f.at \in 1..Len(Fields[c])
           /\ f.wrote = r.wrote \cup {r.at} /\ f.strayed = r.strayed
           /\ \/ /\ r.at < Len(Fields[c])
                 /\ f.pc = "probe" /\ f.at = r.at + 1 /\ f.aim = -1
                 /\ f.notes = Append(r.notes, [uid |-> Fields[c][r.at + 1], resolved |-> FALSE])
              \/ r.at = Len(Fields[c]) /\ f.pc = "done" /\ f.at = r.at /\ f.aim = r.aim /\ f.notes = r.notes
<1> DEFINE w == [r EXCEPT !.wrote = @ \cup {r.at}]
           f == Filled(r, Fields[c])
<1>1. /\ w \in ActingRecord /\ w.wrote = r.wrote \cup {r.at} /\ w.at = r.at /\ w.strayed = r.strayed
      /\ w.notes = r.notes /\ w.aim = r.aim /\ w.notes \in Seq(Note) /\ w.at \in Nat
  BY DEF ActingRecord
<1>2. Len(Fields[c]) \in Nat /\ r.at \in 1..Len(Fields[c])
  BY FieldIsNamed
<1> HIDE DEF w
<1>3. CASE r.at < Len(Fields[c])
  <2> DEFINE u == Fields[c][r.at + 1]
             notes == Append(w.notes, [uid |-> u, resolved |-> FALSE])
             t == [Unmade EXCEPT !.pc = "probe", !.at = w.at + 1, !.wrote = w.wrote, !.strayed = w.strayed,
                                   !.notes = notes]
  <2>1. f = t
    BY <1>1, <1>3 DEF Filled, Turns, Noted, w
  <2>2. r.at + 1 \in 1..Len(Fields[c]) /\ w.at + 1 \in Nat \ {0}
    BY <1>1, <1>2, <1>3
  <2>3. u \in Elements
    BY <2>2, FieldIsNamed
  <2>4. notes \in Seq(Note)
    <3>1. [uid |-> u, resolved |-> FALSE] \in Note
      BY <2>3 DEF Note
    <3>2. QED
      BY <1>1, <3>1
  <2> HIDE DEF u, notes
  <2>5. t \in ActingRecord
    BY <1>1, <2>2, <2>4, IdleIsActing DEF ActingRecord, ActingPc
  <2>6. t.pc = "probe" /\ t.at = r.at + 1 /\ t.aim = -1 /\ t.notes = notes /\ t.wrote = w.wrote
        /\ t.strayed = w.strayed
    BY <1>1, IdleIsActing DEF ActingRecord
  <2> HIDE DEF t
  <2>7. QED
    BY <1>1, <1>3, <2>1, <2>2, <2>5, <2>6 DEF notes, u
<1>4. CASE r.at >= Len(Fields[c])
  <2>1. f = [w EXCEPT !.pc = "done"]
    BY <1>1, <1>2, <1>4 DEF Filled, w
  <2>2. [w EXCEPT !.pc = "done"] \in ActingRecord
    BY <1>1 DEF ActingRecord, ActingPc
  <2>3. QED
    BY <1>1, <1>2, <1>4, <2>1, <2>2 DEF ActingRecord
<1>5. QED
  BY <1>2, <1>3, <1>4

\* What a call does to those that are not where it is.
Disturbed(c) == \A d \in Calls : d # c => acting'[d] \in {acting[d], [acting[d] EXCEPT !.calm = FALSE]}

LEMMA MovesTypes ==
    ASSUME ActingTypes, NEW c \in Calls, NEW r \in ActingRecord, NEW touched,
           r.at = acting[c].at \/ r.at \in 1..Len(Fields[c]), Moves(c, r, touched)
    PROVE  /\ acting' \in [Calls -> ActingRecord] /\ (\A d \in Calls : acting'[d].at \in 1..Len(Fields[d]))
           /\ Disturbed(c)
<1>1. r.at \in 1..Len(Fields[c])
  BY FieldIsNamed
<1>2. QED
  BY <1>1, ActMoves DEF Disturbed

LEMMA GoesTypes ==
    ASSUME ActingTypes, NEW c \in Calls, NEW pc \in ActingPc, ProceedsTo(c, pc)
    PROVE  /\ acting' \in [Calls -> ActingRecord] /\ (\A d \in Calls : acting'[d].at \in 1..Len(Fields[d]))
           /\ Disturbed(c)
<1>1. [acting[c] EXCEPT !.pc = pc] \in ActingRecord /\ [acting[c] EXCEPT !.pc = pc].at = acting[c].at
  BY FieldIsNamed DEF ActingRecord
<1>2. QED
  BY <1>1, MovesTypes DEF ProceedsTo, Proceeds

LEMMA ActStepTypes ==
    ASSUME ActingTypes, NEW c \in Calls, ActionStep(c)
    PROVE  ActingTypes' /\ Disturbed(c)
<1> USE DEF PageRests, Proceeds
<1> DEFINE Fine == acting' \in [Calls -> ActingRecord] /\ (\A d \in Calls : acting'[d].at \in 1..Len(Fields[d]))
                   /\ Disturbed(c)
<1>1. /\ acting[c] \in ActingRecord /\ Field(c) \in Elements /\ el[Field(c)] \in OnPage
      /\ el \in [Elements -> OnPage] /\ focus \in [on : Elements \cup {"body"}, all : BOOLEAN] /\ disk \in OnDisk
  BY FieldIsNamed DEF ActingTypes
<1>2. ASSUME NEW r \in ActingRecord, r.at = acting[c].at, NEW touched, Moves(c, r, touched) PROVE Fine
  BY <1>2, MovesTypes
<1>3. ASSUME NEW r \in ActingRecord, r.at = acting[c].at, NEW touched,
             Moves(c, Filled(r, Fields[c]), touched)
      PROVE  Fine
  BY <1>3, FilledMoves, MovesTypes
<1>4. ASSUME ActionFails(c) PROVE Fine
  BY <1>4, GoesTypes DEF ActionFails, ActingPc
<1>5. ASSUME NEW pc \in ActingPc
      PROVE  [acting[c] EXCEPT !.pc = pc] \in ActingRecord /\ [acting[c] EXCEPT !.pc = pc].at = acting[c].at
  BY <1>1 DEF ActingRecord
<1>6. SUFFICES ASSUME TRUE PROVE
         Fine /\ el' \in [Elements -> OnPage] /\ focus' \in [on : Elements \cup {"body"}, all : BOOLEAN]
         /\ disk' \in OnDisk
  BY DEF ActingTypes
<1> HIDE DEF Fine
<1>7. CASE Start(c)
  <2> DEFINE pc == IF c \in Selected THEN "locate" ELSE First(c)
             uid == IF c \in Selected THEN "" ELSE Field(c)
             r == [acting[c] EXCEPT !.pc = pc, !.notes = Noted(<<>>, uid)]
  <2>1. pc \in ActingPc
    BY DEF ActingPc, First
  <2>2. Noted(<<>>, uid) \in Seq(Note)
    <3>1. uid \in Elements \cup {""}
      BY <1>1
    <3> HIDE DEF uid
    <3>2. QED
      BY <3>1, NotedFirst
  <2>3. Moves(c, r, {})
    BY <1>7 DEF Start, NoUid
  <2> HIDE DEF pc, uid
  <2>4. r \in ActingRecord /\ r.at = acting[c].at
    BY <1>1, <2>1, <2>2 DEF ActingRecord
  <2> HIDE DEF r
  <2>5. QED
    BY <1>1, <1>2, <1>7, <2>3, <2>4 DEF Start
<1>8. CASE Locate(c)
  <2>1. First(c) \in ActingPc
    BY DEF ActingPc, First
  <2>2. Fine
    BY <1>4, <1>8, <2>1, GoesTypes DEF Locate, Fine
  <2>3. QED
    BY <1>1, <1>8, <2>2 DEF Locate
<1>9. CASE Look(c)
  <2> DEFINE looked == [acting[c] EXCEPT !.prev = el[Field(c)].place, !.still = TRUE,
                                         !.calm = @ \/ ActingAt(c, "probe")]
  <2>1. el[Field(c)].place \in Place /\ el[Field(c)].checked \in BOOLEAN
    BY <1>1 DEF OnPage, Place
  <2>2. looked \in ActingRecord /\ looked.at = acting[c].at
    <3>1. (acting[c].calm \/ ActingAt(c, "probe")) \in BOOLEAN
      BY <1>1 DEF ActingRecord, ActingAt
    <3>2. QED
      BY <1>1, <2>1, <3>1 DEF ActingRecord
  <2>3. ActionFails(c) \/ Moves(c, looked, {}) \/ Moves(c, Settled(c, looked), {})
    BY <1>9 DEF Look
  <2> HIDE DEF looked
  <2>4. Settled(c, looked) \in ActingRecord /\ Settled(c, looked).at = acting[c].at
    <3> DEFINE pc == IF Tool[c] = "click" THEN "click" ELSE "measured"
               notes == Identified(looked.notes, Field(c))
    <3>1. pc \in ActingPc /\ "click" \in ActingPc
      BY DEF ActingPc
    <3>2. looked.notes \in Seq(Note) /\ looked.prev \in Place
      BY <2>2 DEF ActingRecord
    <3>3. notes \in Seq(Note)
      BY <1>1, <3>2, IdentifiedNotes
    <3> HIDE DEF pc, notes
    <3>4. CASE ActingAt(c, "aim")
      BY <2>2, <3>1, <3>2, <3>4 DEF Settled, ActingRecord
    <3>5. CASE ~ActingAt(c, "aim")
      <4>1. Settled(c, looked) = [looked EXCEPT !.pc = pc, !.notes = notes, !.aim = looked.prev,
                                                   !.checked = el[Field(c)].checked]
        BY <2>2, <3>5 DEF Settled, pc, notes, ActingRecord
      <4>2. QED
        BY <2>1, <2>2, <3>1, <3>2, <3>3, <4>1 DEF ActingRecord
    <3>6. QED
      BY <3>4, <3>5
  <2>5. Fine
    BY <1>2, <1>4, <2>2, <2>3, <2>4
  <2>6. QED
    BY <1>1, <1>9, <2>5 DEF Look
<1>10. CASE Measured(c)
  <2> DEFINE r == [acting[c] EXCEPT !.prev = -1]
  <2>1. r \in ActingRecord /\ r.at = acting[c].at
    BY <1>1 DEF ActingRecord, Place
  <2>2. ASSUME NEW pc \in ActingPc PROVE [r EXCEPT !.pc = pc] \in ActingRecord /\ [r EXCEPT !.pc = pc].at = acting[c].at
    BY <2>1 DEF ActingRecord
  <2>3. \/ \E pc \in ActingPc : Moves(c, [r EXCEPT !.pc = pc], {})
        \/ ActionFails(c)
        \/ Moves(c, Filled(r, Fields[c]), {})
    BY <1>10 DEF Measured, Unset, ActingPc
  <2> HIDE DEF r
  <2>4. Fine
    BY <1>2, <1>3, <1>4, <2>1, <2>2, <2>3
  <2>5. QED
    BY <1>1, <1>10, <2>4 DEF Measured
<1>11. CASE Click(c)
  <2>1. PICK lands \in BOOLEAN, checked \in BOOLEAN : \E touched :
            /\ Moves(c, [acting[c] EXCEPT !.pc = "clicked", !.hit = lands], touched)
            /\ el' \in {el, [el EXCEPT ![Field(c)].checked = checked]}
    <3> DEFINE x == Field(c)
               lands == el[x].alive /\ ~el[x].covered /\ el[x].place = acting[c].aim
               checked == CASE Kind[x] = "toggle" -> ~el[x].checked
                            [] Kind[x] = "radio" -> TRUE
                            [] OTHER -> el[x].checked
    <3>1. lands \in BOOLEAN /\ checked \in BOOLEAN
      BY <1>1 DEF OnPage
    <3>2. /\ Moves(c, [acting[c] EXCEPT !.pc = "clicked", !.hit = lands], IF lands THEN {x} ELSE {})
          /\ el' = IF lands THEN [el EXCEPT ![x].checked = checked] ELSE el
      BY <1>11 DEF Click
    <3> HIDE DEF lands, checked, x
    <3>3. QED
      BY <3>1, <3>2 DEF x
  <2>2. [acting[c] EXCEPT !.pc = "clicked", !.hit = lands] \in ActingRecord
        /\ [acting[c] EXCEPT !.pc = "clicked", !.hit = lands].at = acting[c].at
    BY <1>1 DEF ActingRecord, ActingPc
  <2>3. Fine
    BY <1>2, <2>1, <2>2
  <2>4. el' \in [Elements -> OnPage]
    <3>1. [el EXCEPT ![Field(c)].checked = checked] \in [Elements -> OnPage]
      BY <1>1 DEF OnPage
    <3>2. QED
      BY <1>1, <2>1, <3>1
  <2>5. QED
    BY <1>1, <1>11, <2>3, <2>4 DEF Click
<1>12. CASE Clicked(c)
  <2>1. Fine
    BY <1>1, <1>3, <1>12 DEF Clicked
  <2>2. QED
    BY <1>1, <1>12, <2>1 DEF Clicked
<1>13. CASE PrepareFill(c)
  <2>1. Fine
    <3>1. CASE ActionFails(c)
      BY <1>4, <3>1
    <3>2. CASE \E pc \in {"delete", "type"} : Moves(c, [acting[c] EXCEPT !.pc = pc, !.typed = 0], TextFields)
      <4>1. ASSUME NEW pc \in {"delete", "type"}
            PROVE  /\ [acting[c] EXCEPT !.pc = pc, !.typed = 0] \in ActingRecord
                   /\ [acting[c] EXCEPT !.pc = pc, !.typed = 0].at = acting[c].at
        BY <1>1 DEF ActingRecord, ActingPc
      <4>2. QED
        BY <1>2, <3>2, <4>1
    <3>3. QED
      BY <1>13, <3>1, <3>2 DEF PrepareFill
  <2>2. focus' \in [on : Elements \cup {"body"}, all : BOOLEAN]
    <3>1. focus' = focus \/ focus' = [on |-> Field(c), all |-> TRUE]
      BY <1>13 DEF PrepareFill
    <3>2. Field(c) \in Elements \cup {"body"} /\ TRUE \in BOOLEAN
      BY <1>1
    <3>3. [on |-> Field(c), all |-> TRUE] \in [on : Elements \cup {"body"}, all : BOOLEAN]
      BY <3>2
    <3>4. QED
      BY <1>1, <3>1, <3>3
  <2>3. QED
    BY <1>1, <1>13, <2>1, <2>2 DEF PrepareFill
<1>14. CASE Delete(c)
  <2>1. Fine
    BY <1>2, <1>5, <1>14 DEF Delete, ActingPc
  <2>2. el' \in [Elements -> OnPage]
    <3>1. <<>> \in Seq(Calls \cup {"old"})
      OBVIOUS
    <3>2. ASSUME NEW x \in Elements PROVE [el EXCEPT ![x].text = <<>>] \in [Elements -> OnPage]
      BY <1>1, <3>1, <3>2 DEF OnPage
    <3>3. QED
      BY <1>1, <1>14, <3>2 DEF Delete
  <2>3. QED
    BY <1>1, <1>14, <2>1, <2>2 DEF Delete
<1>15. CASE Type(c)
  <2> DEFINE r == [acting[c] EXCEPT !.typed = @ + 1, !.strayed = @ \/ focus.on # Field(c)]
  <2>1. r \in ActingRecord /\ r.at = acting[c].at
    <3>1. (acting[c].strayed \/ focus.on # Field(c)) \in BOOLEAN /\ acting[c].typed + 1 \in Nat
      BY <1>1 DEF ActingRecord
    <3>3. ASSUME NEW n \in Nat, NEW b \in BOOLEAN
          PROVE  /\ [acting[c] EXCEPT !.typed = n, !.strayed = b] \in ActingRecord
                 /\ [acting[c] EXCEPT !.typed = n, !.strayed = b].at = acting[c].at
      BY <1>1 DEF ActingRecord
    <3>2. QED
      BY <3>1, <3>3
  <2>2. Moves(c, Filled(r, Fields[c]), {focus.on}) \/ Moves(c, r, {focus.on})
    BY <1>15 DEF Type
  <2> HIDE DEF r
  <2>3. Fine
    BY <1>2, <1>3, <2>1, <2>2
  <2>4. el' \in [Elements -> OnPage]
    <3>1. ASSUME NEW x \in Elements, NEW t \in Seq(Calls \cup {"old"})
          PROVE  [el EXCEPT ![x].text = t] \in [Elements -> OnPage]
      BY <1>1 DEF OnPage
    <3>2. ASSUME NEW x \in Elements
          PROVE  <<c>> \in Seq(Calls \cup {"old"}) /\ Append(el[x].text, c) \in Seq(Calls \cup {"old"})
      <4>1. el[x].text \in Seq(Calls \cup {"old"}) /\ c \in Calls \cup {"old"}
        BY <1>1 DEF OnPage
      <4>2. QED
        BY <4>1
    <3>3. CASE focus.on \in Elements
      <4> DEFINE t == IF focus.all THEN <<c>> ELSE Append(el[focus.on].text, c)
      <4>1. el' = [el EXCEPT ![focus.on].text = t]
        BY <1>1, <1>15, <3>3 DEF Type
      <4>2. t \in Seq(Calls \cup {"old"})
        BY <3>2, <3>3
      <4> HIDE DEF t
      <4>3. QED
        BY <3>1, <3>3, <4>1, <4>2
    <3>4. CASE focus.on \notin Elements
      BY <1>1, <1>15, <3>4 DEF Type
    <3>5. QED
      BY <3>3, <3>4
  <2>5. QED
    BY <1>1, <1>15, <2>3, <2>4 DEF Type
<1>16. CASE ReadOptions(c)
  <2>1. Fine
    BY <1>4, <1>16, GoesTypes DEF ReadOptions, ActingPc, Fine
  <2>2. QED
    BY <1>1, <1>16, <2>1 DEF ReadOptions
<1>17. CASE SelectOption(c)
  <2>1. CASE ActionFails(c) /\ UNCHANGED el
    BY <1>1, <1>4, <1>17, <2>1 DEF SelectOption
  <2>2. CASE el[Field(c)].alive
    <3>1. PICK chosen \in Int : el' = [el EXCEPT ![Field(c)].chosen = chosen]
      BY <1>17, <2>2 DEF SelectOption, Unset
    <3>2. el' \in [Elements -> OnPage]
      BY <1>1, <3>1 DEF OnPage
    <3>3. \/ Moves(c, Filled(acting[c], Fields[c]), {Field(c)})
          \/ Moves(c, [acting[c] EXCEPT !.pc = "failed"], {Field(c)})
      BY <1>17, <2>2 DEF SelectOption
    <3>4. "failed" \in ActingPc
      BY DEF ActingPc
    <3>5. Fine
      BY <1>1, <1>2, <1>3, <1>5, <3>3, <3>4
    <3>6. QED
      BY <1>1, <1>17, <3>2, <3>5 DEF SelectOption
  <2>3. QED
    BY <1>17, <2>1, <2>2 DEF SelectOption
<1>18. CASE StatUpload(c)
  <2>1. Fine
    BY <1>4, <1>18, GoesTypes DEF StatUpload, ActingPc, Fine
  <2>2. QED
    BY <1>1, <1>18, <2>1 DEF StatUpload
<1>19. CASE ReadUpload(c)
  <2>1. [acting[c] EXCEPT !.pc = "attach", !.data = disk] \in ActingRecord
        /\ [acting[c] EXCEPT !.pc = "attach", !.data = disk].at = acting[c].at
    BY <1>1 DEF ActingRecord, ActingPc
  <2>2. Fine
    BY <1>2, <1>4, <1>19, <2>1 DEF ReadUpload
  <2>3. QED
    BY <1>1, <1>19, <2>2 DEF ReadUpload
<1>20. CASE SetFiles(c)
  <2>1. CASE ActionFails(c) /\ UNCHANGED el
    BY <1>1, <1>4, <1>20, <2>1 DEF SetFiles
  <2>2. CASE /\ el' = [el EXCEPT ![Field(c)].files = <<c, acting[c].data>>]
             /\ Moves(c, Filled(acting[c], Fields[c]), {Field(c)})
    <3>1. <<c, acting[c].data>> \in Calls \X (OnDisk \cup {"none"})
      BY <1>1 DEF ActingRecord
    <3>2. el' \in [Elements -> OnPage]
      BY <1>1, <2>2, <3>1 DEF OnPage
    <3>3. Fine
      BY <1>1, <1>3, <2>2
    <3>4. QED
      BY <1>1, <1>20, <3>2, <3>3 DEF SetFiles
  <2>3. QED
    BY <1>20, <2>1, <2>2 DEF SetFiles
<1>21. CASE Cancelled(c)
  <2>1. Fine
    BY <1>21, GoesTypes DEF Cancelled, ActingPc, Fine
  <2>2. QED
    BY <1>1, <1>21, <2>1 DEF Cancelled
<1>22. QED
  BY <1>7, <1>8, <1>9, <1>10, <1>11, <1>12, <1>13, <1>14, <1>15, <1>16, <1>17, <1>18, <1>19, <1>20, <1>21 DEF ActionStep

-----------------------------------------------------------------------------
\* What a step of a call does to the page.
LEMMA StepPage ==
    ASSUME ActingTypes, NEW c \in Calls, ActionStep(c)
    PROVE  \/ el' = el
           \/ \E x \in Elements, v \in BOOLEAN : el' = [el EXCEPT ![x].checked = v]
           \/ \E x \in Elements : el' = [el EXCEPT ![x].text = <<>>]
           \/ /\ Type(c) /\ focus.on \in Elements
              /\ \E t \in {<<c>>, Append(el[focus.on].text, c)} : el' = [el EXCEPT ![focus.on].text = t]
           \/ \E x \in Elements, v \in Int : el' = [el EXCEPT ![x].chosen = v]
           \/ SetFiles(c) /\ el' = [el EXCEPT ![Field(c)].files = <<c, acting[c].data>>]
<1> DEFINE x == Field(c)
<1>1. x \in Elements /\ el[x] \in OnPage
  BY FieldIsNamed
<1>2. CASE Click(c)
  <2> DEFINE v == CASE Kind[x] = "toggle" -> ~el[x].checked
                    [] Kind[x] = "radio" -> TRUE
                    [] OTHER -> el[x].checked
  <2>1. el' = el \/ el' = [el EXCEPT ![x].checked = v]
    BY <1>2 DEF Click
  <2>2. v \in BOOLEAN
    BY <1>1 DEF OnPage
  <2> HIDE DEF v
  <2>3. QED
    BY <1>1, <2>1, <2>2
<1>3. CASE Delete(c)
  BY <1>3 DEF Delete
<1>4. CASE Type(c)
  <2>1. CASE focus.on \in Elements
    <3> DEFINE t == IF focus.all THEN <<c>> ELSE Append(el[focus.on].text, c)
    <3>1. el' = [el EXCEPT ![focus.on].text = t]
      BY <1>4, <2>1 DEF Type
    <3>2. t \in {<<c>>, Append(el[focus.on].text, c)}
      OBVIOUS
    <3> HIDE DEF t
    <3>3. QED
      BY <1>4, <2>1, <3>1, <3>2
  <2>2. CASE focus.on \notin Elements
    BY <1>4, <2>2 DEF Type
  <2>3. QED
    BY <2>1, <2>2
<1>5. CASE SelectOption(c)
  <2>1. CASE el[x].alive
    <3> DEFINE v == IF 2 \in el[x].options THEN 2 ELSE -1
    <3>1. el' = [el EXCEPT ![x].chosen = v] /\ v \in Int
      BY <1>5, <2>1 DEF SelectOption, Unset
    <3> HIDE DEF v
    <3>2. QED
      BY <1>1, <3>1
  <2>2. CASE ~el[x].alive
    BY <1>5, <2>2 DEF SelectOption
  <2>3. QED
    BY <2>1, <2>2
<1>6. CASE SetFiles(c)
  BY <1>6 DEF SetFiles
<1>7. CASE Start(c) \/ Locate(c) \/ Look(c) \/ Measured(c) \/ Clicked(c)
  BY <1>7 DEF Start, Locate, Look, Measured, Clicked, PageRests
<1>8. CASE PrepareFill(c) \/ ReadOptions(c) \/ StatUpload(c) \/ ReadUpload(c) \/ Cancelled(c)
  BY <1>8 DEF PrepareFill, ReadOptions, StatUpload, ReadUpload, Cancelled, PageRests
<1>9. QED
  BY <1>2, <1>3, <1>4, <1>5, <1>6, <1>7, <1>8 DEF ActionStep

\* Of the page, a call leaves where things are; its keys are its own, and its file.
LEMMA StepLeaves ==
    ASSUME ActingTypes, NEW c \in Calls, ActionStep(c), NEW x \in Elements
    PROVE  /\ el'[x].alive = el[x].alive /\ el'[x].covered = el[x].covered /\ el'[x].place = el[x].place
           /\ \A d : d \in Range(el'[x].text) =>
                  d \in Range(el[x].text) \/ (Type(c) /\ d = c /\ x = focus.on)
           /\ el'[x].files = el[x].files \/ (SetFiles(c) /\ el'[x].files = <<c, acting[c].data>>)
<1>1. el \in [Elements -> OnPage] /\ el[x] \in OnPage /\ el[x].text \in Seq(Calls \cup {"old"})
  BY DEF ActingTypes, OnPage
<1>2. CASE el' = el
  BY <1>2
<1>3. CASE \E y \in Elements, v \in BOOLEAN : el' = [el EXCEPT ![y].checked = v]
  BY <1>1, <1>3 DEF OnPage
<1>4. CASE \E y \in Elements : el' = [el EXCEPT ![y].text = <<>>]
  <2>1. /\ el'[x].alive = el[x].alive /\ el'[x].covered = el[x].covered /\ el'[x].place = el[x].place
        /\ el'[x].files = el[x].files /\ el'[x].text \in {<<>>, el[x].text}
    BY <1>1, <1>4 DEF OnPage
  <2>2. QED
    BY <2>1 DEF Range
<1>5. CASE /\ Type(c) /\ focus.on \in Elements
           /\ \E t \in {<<c>>, Append(el[focus.on].text, c)} : el' = [el EXCEPT ![focus.on].text = t]
  <2>1. /\ el'[x].alive = el[x].alive /\ el'[x].covered = el[x].covered /\ el'[x].place = el[x].place
        /\ el'[x].files = el[x].files
        /\ el'[x].text = el[x].text \/ (x = focus.on /\ el'[x].text \in {<<c>>, Append(el[x].text, c)})
    BY <1>1, <1>5 DEF OnPage
  <2>2. \A d : d \in Range(<<c>>) \cup Range(Append(el[x].text, c)) => d = c \/ d \in Range(el[x].text)
    BY <1>1, RangeOfKeys
  <2>3. QED
    BY <1>5, <2>1, <2>2
<1>6. CASE \E y \in Elements, v \in Int : el' = [el EXCEPT ![y].chosen = v]
  BY <1>1, <1>6 DEF OnPage
<1>7. CASE SetFiles(c) /\ el' = [el EXCEPT ![Field(c)].files = <<c, acting[c].data>>]
  BY <1>1, <1>7 DEF OnPage
<1>8. QED
  BY <1>2, <1>3, <1>4, <1>5, <1>6, <1>7, StepPage

-----------------------------------------------------------------------------
\* The invariant, a part for each property.  A form goes from field to field, having
\* filled those before.
GoesThrough(c) ==
    LET r == acting[c] IN
    /\ r.pc # "done" => r.wrote = 1..(r.at - 1)
    /\ r.pc = "done" => r.wrote = 1..r.at
    /\ r.pc = "idle" => r.at = 1 /\ r.aim = -1

\* What is done to a field fits its kind.
DoesTo(c) ==
    LET r == acting[c] kind == Kind[Field(c)] IN
    /\ r.pc \in {"prepare", "delete", "type"} => kind = "text"
    /\ r.pc \in {"options", "select"} => kind = "select"
    /\ r.pc = "aim" \/ (r.pc \in {"click", "clicked"} /\ Tool[c] # "click") => kind \in {"toggle", "radio"}
    /\ r.pc \in {"stat", "read", "attach"} => Tool[c] = "upload_file"

\* A click is aimed at where its element is, uncovered, as long as the page is still.
Aims(c) ==
    LET r == acting[c] e == el[Field(c)] IN
    r.pc = "click" /\ r.still => e.alive /\ ~e.covered /\ e.place = r.aim

\* What a call knows of its field is so, as long as nobody else set it.
Agrees(c) ==
    LET r == acting[c] e == el[Field(c)] IN
    r.calm =>
        /\ r.pc = "measured" => r.checked = e.checked
        /\ r.pc = "aim" \/ (r.pc = "click" /\ Tool[c] # "click") => r.checked = e.checked /\ r.checked # Wanted[c]
        /\ r.pc = "clicked" /\ Tool[c] # "click" /\ r.hit /\ (Kind[Field(c)] = "radio" => Wanted[c])
               => e.checked = Wanted[c]
        /\ r.pc = "delete" => focus = [on |-> Field(c), all |-> TRUE] /\ r.typed = 0
        /\ r.pc = "type" => focus.on = Field(c) /\ (focus.all \/ e.text = Typed(c, r.typed))
                            /\ (focus.all => r.typed = 0)

\* Where the keys of a call are, it has filled the field, or is at it, or they strayed;
\* its file is where it is done.
Amid(c) == acting[c].pc \in {"type", "cancelled"}
OwnsUp(c) ==
    /\ ~acting[c].strayed =>
           \A x \in Elements : c \in Range(el[x].text) =>
               (\E i \in acting[c].wrote : Fields[c][i] = x) \/ (Amid(c) /\ x = Field(c))
    /\ acting[c].pc # "done" => \A x \in Elements : el[x].files = <<>> \/ el[x].files[1] # c

\* The notes of a fill: one for each field it came to, resolved but for one it has
\* not measured.
IsForm(c) == Tool[c] \in {"fill", "fill_form"}
NotesAre(c, notes, at, aim) ==
    /\ Len(notes) = at
    /\ \A i \in 1..at :
           /\ notes[i].uid = IF i = at /\ aim = -1 /\ c \in Selected THEN "" ELSE Fields[c][i]
           /\ notes[i].resolved = (i < at \/ aim # -1)
Noting(c) ==
    LET r == acting[c] IN
    /\ r.pc \in {"idle", "locate", "probe"} => r.aim = -1
    /\ IsForm(c) /\ r.pc \notin {"idle", "locate", "probe", "failed", "cancelled"} => r.aim # -1
    /\ IsForm(c) /\ r.pc # "idle" => NotesAre(c, r.notes, r.at, r.aim)

ActInv ==
    /\ ActingTypes
    /\ \A c \in Calls : GoesThrough(c) /\ DoesTo(c) /\ Aims(c) /\ Agrees(c) /\ OwnsUp(c) /\ Noting(c)

LEMMA ActInit == ActionInit => ActInv
<1>1. SUFFICES ASSUME ActionInit PROVE ActInv
  OBVIOUS
<1>2. ActingTypes
  BY <1>1, ActingTypesInit
<1>3. ASSUME NEW c \in Calls PROVE acting[c] = Unmade
  BY <1>1 DEF ActionInit
<1>4. ASSUME NEW c \in Calls
      PROVE  GoesThrough(c) /\ DoesTo(c) /\ Aims(c) /\ Agrees(c) /\ Noting(c)
  <2>1. GoesThrough(c)
    <3>1. 1..(1 - 1) = {}
      OBVIOUS
    <3>2. QED
      BY <1>3, <3>1, IdleIsActing DEF GoesThrough
  <2>2. DoesTo(c) /\ Aims(c) /\ Agrees(c) /\ Noting(c)
    BY <1>3, IdleIsActing DEF DoesTo, Aims, Agrees, Noting
  <2>3. QED
    BY <2>1, <2>2
<1>5. ASSUME NEW c \in Calls, NEW x \in Elements
      PROVE  el[x].files = <<>> /\ c \notin Range(el[x].text)
  <2>1. el[x].files = <<>> /\ el[x].text = <<"old">>
    BY <1>1 DEF ActionInit
  <2>2. c # "old"
    BY ActionConstants DEF ActionConstants
  <2>3. Range(<<"old">>) = {"old"}
    BY DEF Range
  <2>4. QED
    BY <2>1, <2>2, <2>3
<1>6. ASSUME NEW c \in Calls PROVE OwnsUp(c)
  BY <1>5 DEF OwnsUp
<1>7. QED
  BY <1>2, <1>4, <1>6 DEF ActInv

LEMMA SelectedIsOne ==
    ASSUME NEW c \in Selected PROVE Len(Fields[c]) = 1
<1>1. c \in Calls /\ Tool[c] # "fill_form" /\ \A d \in Calls : Tool[d] # "fill_form" => Len(Fields[d]) = 1
  BY ActionConstants DEF ActionConstants
<1>2. QED
  BY <1>1

\* A call that has ended is done with the element, and its notes stay.
LEMMA EndsWell ==
    ASSUME ActInv, NEW c \in Calls, acting[c].pc \notin {"idle", "done"},
           NEW pc \in {"failed", "cancelled"}, NEW touched,
           Moves(c, [acting[c] EXCEPT !.pc = pc], touched)
    PROVE  /\ GoesThrough(c)' /\ DoesTo(c)' /\ Aims(c)' /\ Agrees(c)' /\ Noting(c)'
           /\ acting'[c].wrote = acting[c].wrote /\ acting'[c].strayed = acting[c].strayed
           /\ acting[c].pc # "done" /\ acting'[c].pc = pc /\ acting'[c].at = acting[c].at
<1> DEFINE r == [acting[c] EXCEPT !.pc = pc]
<1>1. ActingTypes /\ acting[c] \in ActingRecord /\ GoesThrough(c) /\ Noting(c)
  BY FieldIsNamed DEF ActInv
<1>2. /\ r \in ActingRecord /\ r.pc = pc /\ r.at = acting[c].at /\ r.wrote = acting[c].wrote
      /\ r.notes = acting[c].notes /\ r.strayed = acting[c].strayed /\ r.aim = acting[c].aim
  BY <1>1 DEF ActingRecord, ActingPc
<1>3. r.at \in 1..Len(Fields[c]) /\ Moves(c, r, touched)
  BY <1>1, <1>2, FieldIsNamed
<1> HIDE DEF r
<1>4. /\ acting'[c].pc = pc /\ acting'[c].at = acting[c].at /\ acting'[c].wrote = acting[c].wrote
      /\ acting'[c].notes = acting[c].notes /\ acting'[c].strayed = acting[c].strayed
      /\ acting'[c].aim = -1 <=> acting[c].aim = -1
  BY <1>1, <1>2, <1>3, ActMoves
<1>5. GoesThrough(c)'
  BY <1>1, <1>4 DEF GoesThrough
<1>6. DoesTo(c)' /\ Aims(c)' /\ Agrees(c)'
  BY <1>4 DEF DoesTo, Aims, Agrees
<1>7. Noting(c)'
  BY <1>1, <1>4 DEF Noting, NotesAre, IsForm
<1>8. QED
  BY <1>4, <1>5, <1>6, <1>7

LEMMA NotesGrow ==
    ASSUME NEW c, c \notin Selected, NEW notes \in Seq(Note), NEW at \in Nat \ {0}, NEW aim, aim # -1,
           NotesAre(c, notes, at, aim), NEW note, note.uid = Fields[c][at + 1], note.resolved = FALSE
    PROVE  NotesAre(c, Append(notes, note), at + 1, -1)
<1>1. Len(notes) = at /\ \A i \in 1..at : notes[i].uid = Fields[c][i] /\ notes[i].resolved = TRUE
  <2>1. \A i \in 1..at : (i < at \/ aim # -1) = TRUE
    OBVIOUS
  <2>2. QED
    BY <2>1 DEF NotesAre
<1>2. /\ Len(Append(notes, note)) = at + 1 /\ Append(notes, note)[at + 1] = note
      /\ \A i \in 1..at : Append(notes, note)[i] = notes[i]
  BY <1>1, OneMore
<1> DEFINE more == Append(notes, note)
<1>3. /\ Len(more) = at + 1 /\ more[at + 1] = note /\ \A i \in 1..at : more[i] = notes[i]
  BY <1>2
<1> HIDE DEF more
<1>4. ASSUME NEW i \in 1..(at + 1)
      PROVE  more[i].uid = Fields[c][i] /\ more[i].resolved = (i < at + 1)
  <2>1. CASE i = at + 1
    <3>1. (i < at + 1) = FALSE
      BY <2>1
    <3>2. QED
      BY <1>3, <2>1, <3>1
  <2>2. CASE i # at + 1
    <3>1. i \in 1..at /\ (i < at + 1) = TRUE
      BY <2>2
    <3>2. QED
      BY <1>1, <1>3, <3>1
  <2>3. QED
    BY <2>1, <2>2
<1>5. NotesAre(c, more, at + 1, -1)
  BY <1>3, <1>4 DEF NotesAre
<1>6. QED
  BY <1>5 DEF more

\* A field filled: its notes are complete, and the next of the form begins.
LEMMA FillsOn ==
    ASSUME ActInv, NEW c \in Calls, acting[c].pc \notin {"idle", "done"},
           IsForm(c) => acting[c].aim # -1,
           NEW r \in ActingRecord, NEW touched, r.at = acting[c].at, r.wrote = acting[c].wrote,
           r.notes = acting[c].notes, r.aim = acting[c].aim,
           Moves(c, Filled(r, Fields[c]), touched)
    PROVE  /\ GoesThrough(c)' /\ DoesTo(c)' /\ Aims(c)' /\ Agrees(c)' /\ Noting(c)'
           /\ acting'[c].wrote = acting[c].wrote \cup {acting[c].at} /\ acting'[c].strayed = r.strayed
<1> DEFINE f == Filled(r, Fields[c])
           at == acting[c].at
<1>1. /\ ActingTypes /\ acting[c] \in ActingRecord /\ GoesThrough(c) /\ Noting(c)
      /\ at \in 1..Len(Fields[c]) /\ Len(Fields[c]) \in Nat
  BY FieldIsNamed DEF ActInv
<1>2. /\ f \in ActingRecord /\ f.at \in 1..Len(Fields[c])
      /\ f.wrote = r.wrote \cup {r.at} /\ f.strayed = r.strayed
      /\ \/ /\ r.at < Len(Fields[c])
            /\ f.pc = "probe" /\ f.at = r.at + 1 /\ f.aim = -1
            /\ f.notes = Append(r.notes, [uid |-> Fields[c][r.at + 1], resolved |-> FALSE])
         \/ r.at = Len(Fields[c]) /\ f.pc = "done" /\ f.at = r.at /\ f.aim = r.aim /\ f.notes = r.notes
  BY <1>1, FilledMoves
<1> HIDE DEF f
<1>3. /\ acting'[c].pc = f.pc /\ acting'[c].at = f.at /\ acting'[c].wrote = f.wrote
      /\ acting'[c].notes = f.notes /\ acting'[c].strayed = f.strayed
      /\ acting'[c].aim = -1 <=> f.aim = -1
  BY <1>1, <1>2, ActMoves DEF f
<1>4. acting'[c].pc \in {"probe", "done"} /\ acting[c].wrote = 1..(at - 1)
  BY <1>1, <1>2, <1>3 DEF GoesThrough
<1>5. f.wrote = 1..at /\ at \in Nat \ {0}
  BY <1>1, <1>2, <1>4
<1>6. GoesThrough(c)'
  BY <1>1, <1>2, <1>3, <1>5 DEF GoesThrough
<1>7. DoesTo(c)' /\ Aims(c)' /\ Agrees(c)'
  BY <1>4 DEF DoesTo, Aims, Agrees
<1>8. Noting(c)'
  <2>1. CASE ~IsForm(c)
    BY <1>2, <1>3, <2>1 DEF Noting, IsForm
  <2>2. CASE IsForm(c) /\ f.pc = "done"
    <3>1. NotesAre(c, acting[c].notes, at, acting[c].aim)
      BY <1>1, <2>2 DEF Noting
    <3>2. acting'[c].aim # -1 /\ acting[c].aim # -1 /\ acting'[c].notes = acting[c].notes /\ acting'[c].at = at
      BY <1>2, <1>3, <2>2
    <3>3. NotesAre(c, acting[c].notes, at, acting'[c].aim)
      BY <3>1, <3>2 DEF NotesAre
    <3>4. QED
      BY <1>3, <2>2, <3>2, <3>3 DEF Noting, NotesAre, IsForm
  <2>3. CASE IsForm(c) /\ f.pc = "probe"
    <3> DEFINE note == [uid |-> Fields[c][at + 1], resolved |-> FALSE]
               notes == acting[c].notes
    <3>1. NotesAre(c, notes, at, acting[c].aim) /\ acting[c].aim # -1 /\ at < Len(Fields[c]) /\ notes \in Seq(Note)
      BY <1>1, <1>2, <2>3 DEF Noting, ActingRecord
    <3>2. c \notin Selected
      <4>1. c \in Selected => Len(Fields[c]) = 1
        BY SelectedIsOne
      <4>2. at \in 1..Len(Fields[c]) /\ at < Len(Fields[c]) /\ Len(Fields[c]) \in Nat
        BY <1>1, <3>1
      <4>3. ASSUME NEW n \in Nat, NEW m \in 1..n, m < n PROVE n # 1
        BY <4>3
      <4> HIDE DEF at
      <4>4. QED
        BY <4>1, <4>2, <4>3
    <3>3. /\ acting'[c].notes = Append(notes, note) /\ acting'[c].aim = -1 /\ acting'[c].at = at + 1
          /\ acting'[c].pc = "probe"
      BY <1>2, <1>3, <2>3
    <3>4. note.uid = Fields[c][at + 1] /\ note.resolved = FALSE
      OBVIOUS
    <3> HIDE DEF note, notes, at
    <3>5. NotesAre(c, Append(notes, note), at + 1, -1)
      BY <1>5, <3>1, <3>2, <3>4, NotesGrow
    <3>6. QED
      BY <3>3, <3>5 DEF Noting, NotesAre, IsForm
  <2>4. QED
    BY <1>2, <2>1, <2>2, <2>3
<1>9. QED
  BY <1>2, <1>3, <1>6, <1>7, <1>8

\* A step of a call that stays at its field.
LEMMA StaysAt ==
    ASSUME ActInv, NEW c \in Calls,
           acting[c].pc \notin {"idle", "done", "failed", "cancelled"},
           NEW r \in ActingRecord, NEW touched, r.at = acting[c].at, r.wrote = acting[c].wrote,
           r.notes = acting[c].notes,
           IsForm(c) \/ r.pc \in {"locate", "probe"} => (r.aim = -1 <=> acting[c].aim = -1),
           r.pc \notin {"idle", "done", "failed", "cancelled"},
           r.pc \in {"locate", "probe"} => acting[c].pc \in {"locate", "probe"},
           IsForm(c) /\ acting[c].pc \in {"locate", "probe"} => r.pc \in {"locate", "probe"},
           Moves(c, r, touched)
    PROVE  GoesThrough(c)' /\ Noting(c)' /\ acting'[c] = r
<1>1. ActingTypes /\ acting[c] \in ActingRecord /\ GoesThrough(c) /\ Noting(c) /\ r.at \in 1..Len(Fields[c])
  BY FieldIsNamed DEF ActInv
<1>2. acting'[c] = r
  BY <1>1, ActMoves
<1>3. GoesThrough(c)'
  BY <1>1, <1>2 DEF GoesThrough
<1>4. r.aim # -1 \/ ~IsForm(c) \/ r.pc \in {"locate", "probe"}
  BY <1>1 DEF Noting
<1>5. r.pc \in {"locate", "probe"} => r.aim = -1
  BY <1>1 DEF Noting
<1>6. IsForm(c) => NotesAre(c, r.notes, r.at, r.aim)
  BY <1>1 DEF Noting, NotesAre
<1>7. Noting(c)'
  BY <1>2, <1>4, <1>5, <1>6 DEF Noting, NotesAre, IsForm
<1>8. QED
  BY <1>2, <1>3, <1>7

\* Who does not type keeps what it has on the page, and has filled no less.
LEMMA OwnsStill ==
    ASSUME ActInv, NEW c \in Calls, ActionStep(c), NEW d \in Calls,
           Type(c) => d # c, SetFiles(c) /\ d = c => acting'[d].pc = "done" \/ el' = el,
           acting'[d].strayed = acting[d].strayed, acting[d].wrote \subseteq acting'[d].wrote,
           acting[d].pc # "done", Amid(d) => acting'[d].pc = "cancelled" /\ acting'[d].at = acting[d].at
    PROVE  OwnsUp(d)'
<1>1. OwnsUp(d) /\ ActingTypes /\ el \in [Elements -> OnPage]
  BY DEF ActInv, ActingTypes
<1>2. ASSUME ~acting'[d].strayed, NEW x \in Elements, d \in Range(el'[x].text)
      PROVE  (\E i \in acting'[d].wrote : Fields[d][i] = x) \/ (Amid(d)' /\ x = Field(d)')
  <2>1. d \in Range(el[x].text)
    BY <1>1, <1>2, StepLeaves
  <2>2. Amid(d) => Amid(d)' /\ Field(d)' = Field(d)
    BY DEF Amid, Field
  <2>3. (\E i \in acting[d].wrote : Fields[d][i] = x) \/ (Amid(d) /\ x = Field(d))
    BY <1>1, <1>2, <2>1 DEF OwnsUp
  <2>4. QED
    BY <2>2, <2>3
<1>3. ASSUME acting'[d].pc # "done", NEW x \in Elements
      PROVE  el'[x].files = <<>> \/ el'[x].files[1] # d
  <2>1. el[x].files = <<>> \/ el[x].files[1] # d
    BY <1>1 DEF OwnsUp
  <2>2. CASE el'[x].files = el[x].files
    BY <2>1, <2>2
  <2>3. CASE SetFiles(c) /\ el'[x].files = <<c, acting[c].data>>
    <3>1. CASE c = d
      BY <1>3, <2>1, <2>3, <3>1
    <3>2. CASE c # d
      BY <2>3, <3>2
    <3>3. QED
      BY <3>1, <3>2
  <2>4. QED
    BY <1>1, <2>2, <2>3, StepLeaves
<1>4. QED
  BY <1>2, <1>3 DEF OwnsUp

\* What a step leaves of those at an element it does not touch.
LEMMA OthersAgree ==
    ASSUME ActInv, NEW c \in Calls, ActionStep(c), NEW d \in Calls, d # c,
           Acting(d), acting'[d].calm
    PROVE  /\ el'[Field(d)].checked = el[Field(d)].checked
           /\ Kind[Field(d)] = "text" /\ focus.on = Field(d) => focus' = focus /\ el'[Field(d)].text = el[Field(d)].text
<1> DEFINE x == Field(d)
<1> USE DEF PageRests
<1>1. /\ ActingTypes /\ acting[c] \in ActingRecord /\ acting[d] \in ActingRecord /\ x \in Elements
      /\ el \in [Elements -> OnPage] /\ el[x] \in OnPage /\ focus \in [on : Elements \cup {"body"}, all : BOOLEAN]
  BY FieldIsNamed DEF ActInv, ActingTypes
<1>2. ASSUME NEW r, NEW touched, Moves(c, r, touched) PROVE x \notin touched
  <2>1. acting'[d] = IF Acting(d) /\ Field(d) \in touched
                     THEN [acting[d] EXCEPT !.calm = FALSE] ELSE acting[d]
    BY <1>2 DEF Moves
  <2>2. [acting[d] EXCEPT !.calm = FALSE].calm = FALSE
    BY <1>1 DEF ActingRecord
  <2>3. QED
    BY <2>1, <2>2
<1>3. CASE Click(c)
  <2> DEFINE lands == el[Field(c)].alive /\ ~el[Field(c)].covered /\ el[Field(c)].place = acting[c].aim
  <2>1. focus' = focus /\ (~lands => el' = el)
    BY <1>3 DEF Click
  <2>2. lands => x # Field(c)
    <3>1. lands => Moves(c, [acting[c] EXCEPT !.pc = "clicked", !.hit = lands], {Field(c)})
      BY <1>3 DEF Click
    <3> HIDE DEF lands
    <3>2. QED
      BY <1>2, <3>1
  <2>3. \E v : el' = el \/ el' = [el EXCEPT ![Field(c)].checked = v]
    BY <1>3 DEF Click
  <2> HIDE DEF lands
  <2>4. QED
    BY <1>1, <2>1, <2>2, <2>3
<1>4. CASE PrepareFill(c)
  <2>1. el' = el
    BY <1>4 DEF PrepareFill
  <2>2. CASE ~el[Field(c)].alive
    BY <1>4, <2>1, <2>2 DEF PrepareFill
  <2>3. CASE el[Field(c)].alive
    <3>1. PICK pc : Moves(c, [acting[c] EXCEPT !.pc = pc, !.typed = 0], TextFields)
      BY <1>4, <2>3 DEF PrepareFill
    <3>2. x \notin TextFields
      BY <1>2, <3>1
    <3>3. QED
      BY <1>1, <2>1, <3>2 DEF TextFields
  <2>4. QED
    BY <2>2, <2>3
<1>5. CASE Delete(c)
  <2>1. focus' = focus
    BY <1>5 DEF Delete
  <2>2. el' = el \/ el' = [el EXCEPT ![focus.on].text = <<>>]
    BY <1>5 DEF Delete
  <2>4. x # focus.on
    BY <1>2, <1>5 DEF Delete
  <2>3. QED
    BY <1>1, <2>1, <2>2, <2>4 DEF OnPage
<1>6. CASE Type(c)
  <2>1. x # focus.on
    BY <1>2, <1>6 DEF Type
  <2>2. \E t : el' = el \/ el' = [el EXCEPT ![focus.on].text = t]
    BY <1>6 DEF Type
  <2>3. QED
    BY <1>1, <2>1, <2>2 DEF OnPage
<1>7. CASE SelectOption(c)
  <2>1. focus' = focus /\ \E v : el' = el \/ el' = [el EXCEPT ![Field(c)].chosen = v]
    BY <1>7 DEF SelectOption
  <2>2. QED
    BY <1>1, <2>1 DEF OnPage
<1>8. CASE SetFiles(c)
  <2>1. focus' = focus /\ \E v : el' = el \/ el' = [el EXCEPT ![Field(c)].files = v]
    BY <1>8 DEF SetFiles
  <2>2. QED
    BY <1>1, <2>1 DEF OnPage
<1>9. CASE Start(c) \/ Locate(c) \/ Look(c) \/ Measured(c) \/ Clicked(c)
  BY <1>9 DEF Start, Locate, Look, Measured, Clicked
<1>10. CASE ReadOptions(c) \/ StatUpload(c) \/ ReadUpload(c) \/ Cancelled(c)
  BY <1>10 DEF ReadOptions, StatUpload, ReadUpload, Cancelled
<1>11. QED
  BY <1>3, <1>4, <1>5, <1>6, <1>7, <1>8, <1>9, <1>10 DEF ActionStep

\* The others stay right, at what they are at.
LEMMA OthersHold ==
    ASSUME ActInv, NEW c \in Calls, ActionStep(c), NEW d \in Calls, d # c
    PROVE  /\ GoesThrough(d)' /\ DoesTo(d)' /\ Aims(d)' /\ Agrees(d)' /\ OwnsUp(d)' /\ Noting(d)'
           /\ acting'[d].wrote = acting[d].wrote /\ acting'[d].pc = acting[d].pc
<1>1. /\ ActingTypes /\ acting[d] \in ActingRecord /\ Field(d) \in Elements
      /\ GoesThrough(d) /\ DoesTo(d) /\ Aims(d) /\ Agrees(d) /\ OwnsUp(d) /\ Noting(d)
      /\ acting'[d] \in {acting[d], [acting[d] EXCEPT !.calm = FALSE]}
  BY FieldIsNamed, ActStepTypes DEF ActInv, Disturbed
<1>2. /\ acting'[d].pc = acting[d].pc /\ acting'[d].at = acting[d].at /\ acting'[d].aim = acting[d].aim
      /\ acting'[d].wrote = acting[d].wrote /\ acting'[d].notes = acting[d].notes
      /\ acting'[d].strayed = acting[d].strayed /\ acting'[d].checked = acting[d].checked
      /\ acting'[d].still = acting[d].still /\ acting'[d].hit = acting[d].hit
      /\ acting'[d].typed = acting[d].typed
      /\ acting'[d].calm => acting[d].calm
  BY <1>1 DEF ActingRecord
<1>3. Field(d)' = Field(d)
  BY <1>2 DEF Field
<1>4. GoesThrough(d)' /\ Noting(d)'
  <2>1. GoesThrough(d)'
    BY <1>1, <1>2 DEF GoesThrough
  <2>2. IsForm(d) /\ acting[d].pc # "idle" => NotesAre(d, acting'[d].notes, acting'[d].at, acting'[d].aim)
    BY <1>1, <1>2 DEF Noting
  <2>3. Noting(d)'
    BY <1>1, <1>2, <2>2 DEF Noting, NotesAre, IsForm
  <2>4. QED
    BY <2>1, <2>3
<1>5. DoesTo(d)'
  BY <1>1, <1>2, <1>3 DEF DoesTo
<1>6. Aims(d)'
  <2>1. el'[Field(d)].alive = el[Field(d)].alive /\ el'[Field(d)].covered = el[Field(d)].covered
        /\ el'[Field(d)].place = el[Field(d)].place
    BY <1>1, StepLeaves
  <2>2. QED
    BY <1>1, <1>2, <1>3, <2>1 DEF Aims
<1>7. Agrees(d)'
  <2>1. CASE ~acting'[d].calm
    BY <2>1 DEF Agrees
  <2>2. CASE acting'[d].calm /\ ~Acting(d)
    BY <1>2, <2>2 DEF Agrees, Acting, Ended, ActingAt
  <2>3. CASE acting'[d].calm /\ Acting(d)
    <3>1. /\ el'[Field(d)].checked = el[Field(d)].checked
          /\ Kind[Field(d)] = "text" /\ focus.on = Field(d) => focus' = focus /\ el'[Field(d)].text = el[Field(d)].text
      BY <1>1, <2>3, OthersAgree
    <3>2. QED
      BY <1>1, <1>2, <1>3, <2>3, <3>1 DEF Agrees, DoesTo
  <2>4. QED
    BY <2>1, <2>2, <2>3
<1>8. OwnsUp(d)'
  <2>1. ASSUME NEW x \in Elements
        PROVE  /\ d \in Range(el'[x].text) => d \in Range(el[x].text)
               /\ el'[x].files = el[x].files \/ el'[x].files = <<c, acting[c].data>>
    BY <1>1, StepLeaves
  <2>2. <<c, acting[c].data>>[1] # d
    OBVIOUS
  <2>4. Amid(d)' = Amid(d)
    BY <1>2 DEF Amid
  <2>3. QED
    BY <1>1, <1>2, <1>3, <2>1, <2>2, <2>4 DEF OwnsUp
<1>9. QED
  BY <1>2, <1>4, <1>5, <1>6, <1>7, <1>8

\* What is known of the constants.
LEMMA KindsAre ==
    /\ \A x \in Elements : Kind[x] \in {"text", "toggle", "radio", "select", "file"}
    /\ \A c \in Calls : Tool[c] \in {"click", "fill", "fill_form", "upload_file"} /\ Wanted[c] \in BOOLEAN
    /\ \A c \in Calls : Tool[c] # "fill_form" => Len(Fields[c]) = 1
<1>1. /\ Kind \in [Elements -> {"text", "toggle", "radio", "select", "file"}]
      /\ Tool \in [Calls -> {"click", "fill", "fill_form", "upload_file"}] /\ Wanted \in [Calls -> BOOLEAN]
      /\ \A c \in Calls : Tool[c] # "fill_form" => Len(Fields[c]) = 1
  BY ActionConstants DEF ActionConstants
<1>2. QED
  BY <1>1

\* The notes of a field not measured yet: the last one waits.
LEMMA LastWaits ==
    ASSUME NEW c, NEW notes, NEW at \in Nat \ {0}, NotesAre(c, notes, at, -1), NEW i \in 1..at
    PROVE  /\ Len(notes) = at
           /\ i < at => notes[i].uid = Fields[c][i] /\ notes[i].resolved
           /\ i = at => notes[i].uid \in {Fields[c][at], ""} /\ ~notes[i].resolved
<1>1. /\ Len(notes) = at
      /\ notes[i].uid = IF i = at /\ -1 = -1 /\ c \in Selected THEN "" ELSE Fields[c][i]
      /\ notes[i].resolved = (i < at \/ -1 # -1)
  BY DEF NotesAre
<1>2. i < at => notes[i].resolved
  BY <1>1
<1>3. ASSUME i = at PROVE ~notes[i].resolved
  <2>1. (i < at \/ -1 # -1) = FALSE
    BY <1>3
  <2>2. notes[i].resolved = FALSE
    BY <1>1, <2>1
  <2>3. QED
    BY <2>2
<1>4. QED
  BY <1>1, <1>2, <1>3

LEMMA DomainUpTo == ASSUME NEW S, NEW s \in Seq(S) PROVE DOMAIN s = 1..Len(s)
OBVIOUS

LEMMA PutAt ==
    ASSUME NEW S, NEW s \in Seq(S), NEW at \in 1..Len(s), NEW a
    PROVE  LET new == [s EXCEPT ![at] = a] IN
           Len(new) = Len(s) /\ new[at] = a /\ \A i \in 1..Len(s) : i # at => new[i] = s[i]
OBVIOUS

LEMMA NotesDone ==
    ASSUME NEW c, NEW notes, NEW at, NEW aim, aim # -1, Len(notes) = at,
           \A i \in 1..at : notes[i].uid = Fields[c][i] /\ notes[i].resolved = TRUE
    PROVE  NotesAre(c, notes, at, aim)
<1>1. \A i \in 1..at : (i < at \/ aim # -1) = TRUE
  OBVIOUS
<1>2. QED
  BY <1>1 DEF NotesAre

\* The measurement completes the one address that waits for it.
LEMMA IdentifiesLast ==
    ASSUME NEW c \in Calls, NEW notes \in Seq(Note), NEW at \in Nat \ {0},
           NotesAre(c, notes, at, -1), NEW aim, aim # -1
    PROVE  NotesAre(c, Identified(notes, Fields[c][at]), at, aim)
<1> DEFINE uid == Fields[c][at]
           waiting == {i \in DOMAIN notes : ~notes[i].resolved /\ notes[i].uid \in {uid, ""}}
           known == [uid |-> uid, resolved |-> TRUE]
           new == [notes EXCEPT ![at] = known]
<1>1. at \in 1..at /\ at \in Int
  OBVIOUS
<1>2. /\ Len(notes) = at
      /\ \A i \in 1..at : /\ i < at => notes[i].uid = Fields[c][i] /\ notes[i].resolved
                          /\ i = at => notes[i].uid \in {uid, ""} /\ ~notes[i].resolved
  BY <1>1, LastWaits
<1>3. DOMAIN notes = 1..at
  BY <1>2, DomainUpTo
<1>4. waiting = {at}
  <2>1. \A i \in 1..at : i < at \/ i = at
    OBVIOUS
  <2>2. ASSUME NEW i \in 1..at PROVE i \in waiting <=> i = at
    BY <1>2, <1>3, <2>1, Zenon
  <2>3. waiting \subseteq 1..at
    BY <1>3
  <2> HIDE DEF waiting
  <2>4. QED
    BY <1>1, <2>2, <2>3
<1>5. Max(waiting) = at
  BY <1>1, <1>4, MaxOfOne
<1>6. Identified(notes, uid) = new
  <2>1. Identified(notes, uid) = IF waiting = {} THEN Append(notes, known)
                                     ELSE [notes EXCEPT ![Max(waiting)] = known]
    BY DEF Identified, NoUid
  <2>2. waiting # {}
    BY <1>4
  <2> HIDE DEF waiting, known
  <2>3. QED
    BY <1>5, <2>1, <2>2
<1>7. known.uid = uid /\ known.resolved = TRUE
  OBVIOUS
<1> HIDE DEF known, waiting
<1>8. Len(new) = at /\ new[at] = known /\ \A i \in 1..at : i # at => new[i] = notes[i]
  <2>1. Len(notes) = at
    BY <1>2
  <2>2. QED
    BY <1>1, <2>1, PutAt
<1> HIDE DEF new
<1>9. ASSUME NEW i \in 1..at
      PROVE  new[i].uid = Fields[c][i] /\ new[i].resolved = TRUE
  <2>1. CASE i = at
    BY <1>7, <1>8, <2>1
  <2>2. CASE i # at
    <3>1. i < at /\ i \in 1..(at - 1)
      BY <2>2
    <3>2. QED
      BY <1>2, <1>8, <2>2, <3>1, Zenon
  <2>3. QED
    BY <2>1, <2>2
<1>10. NotesAre(c, new, at, aim)
  BY <1>8, <1>9, NotesDone
<1>11. QED
  BY <1>6, <1>10

-----------------------------------------------------------------------------
\* The steps of a call, one by one.
Holds(c) == GoesThrough(c) /\ DoesTo(c) /\ Aims(c) /\ Agrees(c) /\ OwnsUp(c) /\ Noting(c)

\* What a step is taken from.
LEMMA StepFrom ==
    ASSUME ActInv, NEW c \in Calls
    PROVE  /\ ActingTypes /\ acting[c] \in ActingRecord /\ Field(c) \in Elements /\ el[Field(c)] \in OnPage
           /\ GoesThrough(c) /\ DoesTo(c) /\ Aims(c) /\ Agrees(c) /\ OwnsUp(c) /\ Noting(c)
BY FieldIsNamed DEF ActInv

\* A step that leaves the page as it is, and the call neither at an action nor done.
LEMMA StepsOn ==
    ASSUME ActInv, NEW c \in Calls, ActionStep(c), el' = el, acting[c].pc \notin {"done", "type", "cancelled"},
           acting'[c].pc \in {"locate", "probe", "stat", "read", "attach", "options", "prepare"},
           acting'[c].strayed = acting[c].strayed, acting'[c].wrote = acting[c].wrote,
           GoesThrough(c)', Noting(c)', DoesTo(c)', ~Type(c)
    PROVE  Holds(c)'
<1>1. Aims(c)' /\ Agrees(c)'
  BY DEF Aims, Agrees
<1>2. OwnsUp(c)'
  BY OwnsStill DEF Amid
<1>3. QED
  BY <1>1, <1>2 DEF Holds

\* The same, however the call failed or was cancelled.
LEMMA StepEnds ==
    ASSUME ActInv, NEW c \in Calls, ActionStep(c), acting[c].pc \notin {"idle", "done"},
           NEW pc \in {"failed", "cancelled"}, NEW touched, ~Type(c), SetFiles(c) => el' = el,
           Amid(c) => pc = "cancelled",
           Moves(c, [acting[c] EXCEPT !.pc = pc], touched)
    PROVE  Holds(c)'
<1>1. /\ GoesThrough(c)' /\ DoesTo(c)' /\ Aims(c)' /\ Agrees(c)' /\ Noting(c)'
      /\ acting'[c].wrote = acting[c].wrote /\ acting'[c].strayed = acting[c].strayed
      /\ acting'[c].pc = pc /\ acting'[c].at = acting[c].at
  BY EndsWell
<1>2. OwnsUp(c)'
  BY <1>1, OwnsStill
<1>3. QED
  BY <1>1, <1>2 DEF Holds

LEMMA StartHolds ==
    ASSUME ActInv, NEW c \in Calls, ActionStep(c), Start(c) PROVE Holds(c)'
<1> DEFINE pc == IF c \in Selected THEN "locate" ELSE First(c)
           uid == IF c \in Selected THEN "" ELSE Field(c)
           note == [uid |-> uid, resolved |-> FALSE]
           notes == Noted(<<>>, uid)
           r == [acting[c] EXCEPT !.pc = pc, !.notes = notes]
<1>1. /\ ActingTypes /\ acting[c] \in ActingRecord /\ Field(c) \in Elements
      /\ GoesThrough(c) /\ Noting(c)
  BY StepFrom
<1>2. /\ acting[c].pc = "idle" /\ el' = el /\ Moves(c, r, {})
  BY DEF Start, ActingAt, Proceeds, PageRests, NoUid
<1>3. /\ pc \in {"locate", "probe", "stat"} /\ pc \in ActingPc
      /\ pc = "stat" => Tool[c] = "upload_file" /\ ~IsForm(c)
  BY DEF First, ActingPc, IsForm
<1>4. acting[c].at = 1 /\ acting[c].aim = -1 /\ Field(c) = Fields[c][1]
  BY <1>1, <1>2 DEF GoesThrough, Field
<1>5. uid = IF c \in Selected THEN "" ELSE Fields[c][1]
  BY <1>4
<1>6. uid \in Elements \cup {""}
  BY <1>1
<1> HIDE DEF uid
<1>7. notes = <<note>> /\ notes \in Seq(Note)
  BY <1>6, NotedFirst
<1>8. note.uid = uid /\ note.resolved = FALSE
  OBVIOUS
<1>9. NotesAre(c, notes, 1, -1)
  <2>1. ASSUME NEW n PROVE Len(<<n>>) = 1 /\ <<n>>[1] = n
    OBVIOUS
  <2> HIDE DEF note
  <2>2. Len(notes) = 1 /\ notes[1] = note
    BY <1>7, <2>1
  <2> HIDE DEF notes
  <2>3. ASSUME NEW i \in 1..1
        PROVE  /\ notes[i].uid = IF i = 1 /\ -1 = -1 /\ c \in Selected THEN "" ELSE Fields[c][i]
               /\ notes[i].resolved = (i < 1 \/ -1 # -1)
    <3>1. i = 1 /\ (i < 1 \/ -1 # -1) = FALSE
      OBVIOUS
    <3>2. QED
      BY <1>5, <1>8, <2>2, <3>1
  <2>4. QED
    BY <2>2, <2>3 DEF NotesAre
<1>10. notes \in Seq(Note)
  BY <1>7
<1> HIDE DEF pc, note, notes
<1>11. /\ r \in ActingRecord /\ r.pc = pc /\ r.at = 1 /\ r.aim = -1 /\ r.notes = notes
       /\ r.wrote = acting[c].wrote /\ r.strayed = acting[c].strayed
  BY <1>1, <1>3, <1>4, <1>10 DEF ActingRecord
<1> HIDE DEF r
<1>12. r.at \in 1..Len(Fields[c])
  BY <1>1, <1>4, <1>11, FieldIsNamed
<1>13. acting'[c] = r
  BY <1>1, <1>2, <1>3, <1>11, <1>12, ActMoves
<1>14. GoesThrough(c)'
  BY <1>1, <1>2, <1>3, <1>4, <1>11, <1>13 DEF GoesThrough
<1>15. DoesTo(c)'
  BY <1>3, <1>11, <1>13 DEF DoesTo
<1>16. Noting(c)'
  BY <1>3, <1>9, <1>11, <1>13 DEF Noting, NotesAre, IsForm
<1>17. ~Type(c) /\ acting[c].pc # "done"
  BY <1>2 DEF Type, ActingAt
<1>18. acting'[c].pc \in {"locate", "probe", "stat"} /\ acting'[c].strayed = acting[c].strayed
       /\ acting'[c].wrote = acting[c].wrote
  BY <1>3, <1>11, <1>13
<1>19. QED
  BY <1>2, <1>14, <1>15, <1>16, <1>17, <1>18, StepsOn

LEMMA LocateHolds ==
    ASSUME ActInv, NEW c \in Calls, ActionStep(c), Locate(c) PROVE Holds(c)'
<1>1. /\ ActingTypes /\ acting[c] \in ActingRecord
  BY StepFrom
<1>2. /\ acting[c].pc = "locate" /\ el' = el /\ ~Type(c)
      /\ \/ Moves(c, [acting[c] EXCEPT !.pc = First(c)], {})
         \/ Moves(c, [acting[c] EXCEPT !.pc = "failed"], {})
  BY DEF Locate, ActingAt, ProceedsTo, ActionFails, Proceeds, PageRests, Type
<1>3. CASE Moves(c, [acting[c] EXCEPT !.pc = First(c)], {})
  <2> DEFINE r == [acting[c] EXCEPT !.pc = First(c)]
  <2>1. /\ First(c) \in ActingPc /\ First(c) \in {"stat", "probe"}
        /\ First(c) = "stat" => Tool[c] = "upload_file" /\ ~IsForm(c)
    BY DEF ActingPc, First, IsForm
  <2>2. /\ r \in ActingRecord /\ r.pc = First(c) /\ r.at = acting[c].at /\ r.wrote = acting[c].wrote
        /\ r.notes = acting[c].notes /\ r.aim = acting[c].aim /\ r.strayed = acting[c].strayed
    BY <1>1, <2>1 DEF ActingRecord
  <2>3. Moves(c, r, {})
    BY <1>3
  <2> HIDE DEF r
  <2>4. GoesThrough(c)' /\ Noting(c)' /\ acting'[c] = r
    BY <1>2, <2>1, <2>2, <2>3, StaysAt
  <2>5. DoesTo(c)'
    BY <2>1, <2>2, <2>4 DEF DoesTo
  <2>6. QED
    BY <1>2, <2>1, <2>2, <2>4, <2>5, StepsOn
<1>4. CASE Moves(c, [acting[c] EXCEPT !.pc = "failed"], {})
  BY <1>2, <1>4, StepEnds DEF Amid
<1>5. QED
  BY <1>2, <1>3, <1>4

LEMMA LookHolds ==
    ASSUME ActInv, NEW c \in Calls, ActionStep(c), Look(c) PROVE Holds(c)'
<1> DEFINE e == el[Field(c)]
           looked == [acting[c] EXCEPT !.prev = e.place, !.still = TRUE, !.calm = @ \/ ActingAt(c, "probe")]
<1>1. /\ ActingTypes /\ acting[c] \in ActingRecord /\ e \in OnPage /\ Field(c) \in Elements
      /\ GoesThrough(c) /\ DoesTo(c) /\ Aims(c) /\ Agrees(c) /\ OwnsUp(c) /\ Noting(c)
  BY StepFrom
<1>2. /\ acting[c].pc \in {"probe", "aim"} /\ el' = el /\ focus' = focus /\ ~Type(c) /\ ~SetFiles(c)
      /\ \/ Moves(c, [acting[c] EXCEPT !.pc = "failed"], {})
         \/ Moves(c, looked, {})
         \/ /\ Moves(c, Settled(c, looked), {})
            /\ e.alive /\ (Tool[c] = "click" \/ acting[c].pc = "aim" => ~e.covered)
  BY DEF Look, ActingAt, ProceedsTo, ActionFails, Proceeds, PageRests, Type, SetFiles, HitTested
<1>3. e.place \in {0, 1} /\ e.place \in Place /\ e.place # -1 /\ e.checked \in BOOLEAN
  BY <1>1 DEF OnPage, Place
<1>4. /\ looked \in ActingRecord /\ looked.pc = acting[c].pc /\ looked.at = acting[c].at
      /\ looked.prev = e.place /\ looked.wrote = acting[c].wrote /\ looked.notes = acting[c].notes
      /\ looked.aim = acting[c].aim /\ looked.strayed = acting[c].strayed /\ looked.checked = acting[c].checked
      /\ acting[c].pc = "aim" => looked.calm = acting[c].calm
  <2>1. (acting[c].calm \/ ActingAt(c, "probe")) \in BOOLEAN
        /\ acting[c].pc = "aim" => (acting[c].calm \/ ActingAt(c, "probe")) = acting[c].calm
    BY <1>1 DEF ActingRecord, ActingAt
  <2> HIDE DEF e
  <2>2. QED
    BY <1>1, <1>3, <2>1 DEF ActingRecord
<1> HIDE DEF looked
<1>5. ASSUME NEW r \in ActingRecord, r.at = acting[c].at, r.wrote = acting[c].wrote, r.strayed = acting[c].strayed,
             acting'[c] = r
      PROVE  OwnsUp(c)' /\ Field(c)' = Field(c)
  <2>1. OwnsUp(c)'
    BY <1>2, <1>5, OwnsStill DEF Amid
  <2>2. QED
    BY <1>5, <2>1 DEF Field
<1>6. CASE Moves(c, [acting[c] EXCEPT !.pc = "failed"], {})
  BY <1>2, <1>6, StepEnds DEF Amid
<1>7. CASE Moves(c, looked, {})
  <2>1. GoesThrough(c)' /\ Noting(c)' /\ acting'[c] = looked
    BY <1>2, <1>4, <1>7, StaysAt
  <2>2. OwnsUp(c)' /\ Field(c)' = Field(c)
    BY <1>4, <1>5, <2>1
  <2>3. DoesTo(c)' /\ Aims(c)'
    BY <1>1, <1>2, <1>4, <2>1, <2>2 DEF DoesTo, Aims
  <2>4. Agrees(c)'
    BY <1>1, <1>2, <1>4, <2>1, <2>2 DEF Agrees
  <2>5. QED
    BY <2>1, <2>2, <2>3, <2>4 DEF Holds
<1>8. CASE Moves(c, Settled(c, looked), {}) /\ e.alive /\ ~e.covered /\ acting[c].pc = "aim"
  <2> DEFINE r == [looked EXCEPT !.pc = "click", !.aim = looked.prev]
  <2>1. Settled(c, looked) = r
    BY <1>8 DEF Settled, ActingAt
  <2>2. /\ r \in ActingRecord /\ r.pc = "click" /\ r.at = acting[c].at /\ r.wrote = acting[c].wrote
        /\ r.notes = acting[c].notes /\ r.aim = e.place /\ r.strayed = acting[c].strayed
        /\ r.checked = acting[c].checked /\ r.calm = acting[c].calm
    BY <1>3, <1>4, <1>8 DEF ActingRecord, ActingPc
  <2>3. Moves(c, r, {})
    BY <1>8, <2>1
  <2> HIDE DEF r
  <2>4. IsForm(c) => acting[c].aim # -1
    BY <1>1, <1>8 DEF Noting
  <2>5. GoesThrough(c)' /\ Noting(c)' /\ acting'[c] = r
    BY <1>3, <1>8, <2>2, <2>3, <2>4, StaysAt
  <2>6. OwnsUp(c)' /\ Field(c)' = Field(c)
    BY <1>5, <2>2, <2>5
  <2>7. DoesTo(c)'
    BY <1>1, <1>8, <2>2, <2>5, <2>6 DEF DoesTo
  <2>8. Aims(c)'
    BY <1>2, <1>8, <2>2, <2>5, <2>6 DEF Aims
  <2>9. Agrees(c)'
    BY <1>1, <1>2, <1>8, <2>2, <2>5, <2>6 DEF Agrees
  <2>10. QED
    BY <2>5, <2>6, <2>7, <2>8, <2>9 DEF Holds
<1>9. CASE /\ Moves(c, Settled(c, looked), {}) /\ e.alive /\ (Tool[c] = "click" => ~e.covered)
           /\ acting[c].pc = "probe"
  <2> DEFINE pc == IF Tool[c] = "click" THEN "click" ELSE "measured"
             notes == Identified(looked.notes, Field(c))
             r == [looked EXCEPT !.pc = pc, !.notes = notes, !.aim = looked.prev, !.checked = e.checked]
  <2>1. Settled(c, looked) = r
    BY <1>4, <1>9 DEF Settled, ActingAt, ActingRecord
  <2>2. pc \in ActingPc /\ pc \in {"click", "measured"} /\ (pc = "click" => Tool[c] = "click")
    BY DEF ActingPc
  <2>3. notes \in Seq(Note) /\ acting[c].notes \in Seq(Note) /\ acting[c].at \in Nat \ {0}
    <3>1. looked.notes \in Seq(Note) /\ acting[c].notes \in Seq(Note) /\ acting[c].at \in Nat \ {0}
      BY <1>1, <1>4 DEF ActingRecord
    <3>2. QED
      BY <1>1, <3>1, IdentifiedNotes
  <2>4. IsForm(c) => NotesAre(c, notes, acting[c].at, e.place)
    <3>1. IsForm(c) => NotesAre(c, acting[c].notes, acting[c].at, -1)
      BY <1>1, <1>9 DEF Noting
    <3>2. Field(c) = Fields[c][acting[c].at] /\ looked.notes = acting[c].notes
      BY <1>4 DEF Field
    <3>3. QED
      BY <1>3, <2>3, <3>1, <3>2, IdentifiesLast
  <2> HIDE DEF pc, notes, e
  <2>5. /\ r \in ActingRecord /\ r.pc = pc /\ r.at = acting[c].at /\ r.wrote = acting[c].wrote
        /\ r.notes = notes /\ r.aim = e.place /\ r.strayed = acting[c].strayed /\ r.checked = e.checked
    BY <1>3, <1>4, <2>2, <2>3 DEF ActingRecord
  <2>6. Moves(c, r, {})
    BY <1>9, <2>1
  <2> HIDE DEF r
  <2>7. acting'[c] = r
    <3>1. r.at \in 1..Len(Fields[c])
      BY <1>1, <2>5, FieldIsNamed
    <3>2. QED
      BY <1>1, <2>2, <2>5, <2>6, <3>1, ActMoves
  <2>8. OwnsUp(c)' /\ Field(c)' = Field(c)
    BY <1>5, <2>5, <2>7
  <2>9. GoesThrough(c)' /\ DoesTo(c)'
    BY <1>1, <1>9, <2>2, <2>5, <2>7 DEF GoesThrough, DoesTo
  <2>10. Aims(c)'
    BY <1>2, <1>9, <2>2, <2>5, <2>7, <2>8 DEF Aims, e
  <2>11. Agrees(c)'
    BY <1>2, <2>2, <2>5, <2>7, <2>8 DEF Agrees, e
  <2>12. Noting(c)'
    BY <1>3, <2>2, <2>4, <2>5, <2>7 DEF Noting, NotesAre, IsForm
  <2>13. QED
    BY <2>8, <2>9, <2>10, <2>11, <2>12 DEF Holds
<1>10. QED
  BY <1>2, <1>6, <1>7, <1>8, <1>9

\* The same, when the field has what its value asks for.
LEMMA StepFills ==
    ASSUME ActInv, NEW c \in Calls, ActionStep(c), ~Type(c),
           acting[c].pc \notin {"idle", "locate", "probe", "type", "done", "failed", "cancelled"},
           NEW r \in ActingRecord, NEW touched, r.at = acting[c].at, r.wrote = acting[c].wrote,
           r.notes = acting[c].notes, r.aim = acting[c].aim, r.strayed = acting[c].strayed,
           SetFiles(c) => acting'[c].pc = "done",
           Moves(c, Filled(r, Fields[c]), touched)
    PROVE  Holds(c)'
<1>1. IsForm(c) => acting[c].aim # -1
  BY StepFrom DEF Noting
<1>2. /\ GoesThrough(c)' /\ DoesTo(c)' /\ Aims(c)' /\ Agrees(c)' /\ Noting(c)'
      /\ acting'[c].wrote = acting[c].wrote \cup {acting[c].at} /\ acting'[c].strayed = acting[c].strayed
  BY <1>1, FillsOn
<1>3. OwnsUp(c)'
  BY <1>2, OwnsStill DEF Amid
<1>4. QED
  BY <1>2, <1>3 DEF Holds

LEMMA MeasuredHolds ==
    ASSUME ActInv, NEW c \in Calls, ActionStep(c), Measured(c) PROVE Holds(c)'
<1> DEFINE kind == Kind[Field(c)]
           r == [acting[c] EXCEPT !.prev = -1]
<1>1. /\ ActingTypes /\ acting[c] \in ActingRecord /\ Field(c) \in Elements
      /\ GoesThrough(c) /\ DoesTo(c) /\ Agrees(c) /\ OwnsUp(c) /\ Noting(c)
      /\ kind \in {"text", "toggle", "radio", "select", "file"}
  BY StepFrom, KindsAre
<1>2. /\ acting[c].pc = "measured" /\ el' = el /\ focus' = focus /\ ~Type(c) /\ ~SetFiles(c)
  BY DEF Measured, ActingAt, PageRests, Type, SetFiles
<1>3. /\ r \in ActingRecord /\ r.at = acting[c].at /\ r.wrote = acting[c].wrote /\ r.notes = acting[c].notes
      /\ r.aim = acting[c].aim /\ r.strayed = acting[c].strayed /\ r.checked = acting[c].checked
      /\ r.calm = acting[c].calm
  BY <1>1 DEF ActingRecord, Place
<1>4. \/ kind = "file" /\ Moves(c, [acting[c] EXCEPT !.pc = "failed"], {})
      \/ Moves(c, Filled(r, Fields[c]), {})
      \/ \E pc \in {"prepare", "options", "aim"} :
             /\ Moves(c, [r EXCEPT !.pc = pc], {})
             /\ pc = "prepare" => kind = "text"
             /\ pc = "options" => kind = "select"
             /\ pc = "aim" => kind \notin {"text", "select", "file"} /\ r.checked # Wanted[c]
  BY DEF Measured, ProceedsTo, ActionFails, Proceeds, Unset
<1> HIDE DEF r, kind
<1>5. CASE Moves(c, [acting[c] EXCEPT !.pc = "failed"], {})
  BY <1>2, <1>5, StepEnds DEF Amid
<1>6. CASE Moves(c, Filled(r, Fields[c]), {})
  BY <1>2, <1>3, <1>6, StepFills
<1>7. ASSUME NEW pc \in {"prepare", "options", "aim"}, Moves(c, [r EXCEPT !.pc = pc], {}),
             pc = "prepare" => kind = "text", pc = "options" => kind = "select",
             pc = "aim" => kind \notin {"text", "select", "file"} /\ r.checked # Wanted[c]
      PROVE  Holds(c)'
  <2> DEFINE s == [r EXCEPT !.pc = pc]
  <2>1. /\ s \in ActingRecord /\ s.pc = pc /\ s.at = acting[c].at /\ s.wrote = acting[c].wrote
        /\ s.notes = acting[c].notes /\ s.aim = acting[c].aim /\ s.strayed = acting[c].strayed
        /\ s.checked = acting[c].checked /\ s.calm = acting[c].calm
    BY <1>3, <1>7 DEF ActingRecord, ActingPc
  <2>2. Moves(c, s, {})
    BY <1>7
  <2> HIDE DEF s
  <2>3. GoesThrough(c)' /\ Noting(c)' /\ acting'[c] = s
    BY <1>2, <1>7, <2>1, <2>2, StaysAt
  <2>4. Field(c)' = Field(c)
    BY <2>1, <2>3 DEF Field
  <2>5. DoesTo(c)'
    BY <1>1, <1>7, <2>1, <2>3, <2>4 DEF DoesTo, kind
  <2>6. Aims(c)'
    BY <1>7, <2>1, <2>3 DEF Aims
  <2>7. Agrees(c)'
    BY <1>1, <1>2, <1>3, <1>7, <2>1, <2>3, <2>4 DEF Agrees
  <2>8. OwnsUp(c)'
    BY <1>2, <2>1, <2>3, OwnsStill DEF Amid
  <2>9. QED
    BY <2>3, <2>5, <2>6, <2>7, <2>8 DEF Holds
<1>8. QED
  BY <1>4, <1>5, <1>6, <1>7

LEMMA ClickHolds ==
    ASSUME ActInv, NEW c \in Calls, ActionStep(c), Click(c) PROVE Holds(c)'
<1> DEFINE x == Field(c)
           e == el[x]
           lands == e.alive /\ ~e.covered /\ e.place = acting[c].aim
           checked == CASE Kind[x] = "toggle" -> ~e.checked
                        [] Kind[x] = "radio" -> TRUE
                        [] OTHER -> e.checked
           r == [acting[c] EXCEPT !.pc = "clicked", !.hit = lands]
<1>1. /\ ActingTypes /\ acting[c] \in ActingRecord /\ x \in Elements /\ el \in [Elements -> OnPage]
      /\ e \in OnPage /\ GoesThrough(c) /\ DoesTo(c) /\ Agrees(c) /\ OwnsUp(c) /\ Noting(c)
      /\ Wanted[c] \in BOOLEAN
  BY StepFrom, KindsAre DEF ActingTypes
<1>2. /\ acting[c].pc = "click" /\ ~Type(c) /\ ~SetFiles(c)
      /\ el' = IF lands THEN [el EXCEPT ![x].checked = checked] ELSE el
      /\ Moves(c, r, IF lands THEN {x} ELSE {})
  BY DEF Click, ActingAt, Type, SetFiles
<1>3. lands \in BOOLEAN /\ e.checked \in BOOLEAN
  BY <1>1 DEF OnPage
<1>4. lands => el'[x].checked = checked
  BY <1>1, <1>2 DEF OnPage
<1>5. /\ Kind[x] = "toggle" => checked = ~e.checked
      /\ Kind[x] = "radio" => checked = TRUE
  OBVIOUS
<1> HIDE DEF checked, lands
<1>6. /\ r \in ActingRecord /\ r.pc = "clicked" /\ r.at = acting[c].at /\ r.wrote = acting[c].wrote
      /\ r.notes = acting[c].notes /\ r.aim = acting[c].aim /\ r.strayed = acting[c].strayed
      /\ r.checked = acting[c].checked /\ r.calm = acting[c].calm /\ r.hit = lands
  BY <1>1, <1>3 DEF ActingRecord, ActingPc
<1> HIDE DEF r
<1>7. GoesThrough(c)' /\ Noting(c)' /\ acting'[c] = r
  BY <1>2, <1>6, StaysAt
<1>8. x' = x
  BY <1>6, <1>7 DEF Field
<1> HIDE DEF x, e
<1>9. DoesTo(c)'
  BY <1>1, <1>2, <1>6, <1>7, <1>8 DEF DoesTo, x
<1>10. Aims(c)'
  BY <1>6, <1>7 DEF Aims
<1>11. Agrees(c)'
  <2>1. ASSUME r.calm, Tool[c] # "click", lands, Kind[x] = "radio" => Wanted[c]
        PROVE  el'[x].checked = Wanted[c]
    <3>1. e.checked # Wanted[c] /\ Kind[x] \in {"toggle", "radio"}
      BY <1>1, <1>2, <1>6, <2>1 DEF Agrees, DoesTo, x, e
    <3>2. checked = Wanted[c]
      BY <1>1, <1>3, <1>5, <2>1, <3>1
    <3>3. QED
      BY <1>4, <2>1, <3>2
  <2>2. QED
    BY <1>6, <1>7, <1>8, <2>1 DEF Agrees, x
<1>12. OwnsUp(c)'
  BY <1>2, <1>6, <1>7, OwnsStill DEF Amid
<1>13. QED
  BY <1>7, <1>9, <1>10, <1>11, <1>12 DEF Holds

LEMMA ClickedHolds ==
    ASSUME ActInv, NEW c \in Calls, ActionStep(c), Clicked(c) PROVE Holds(c)'
<1>1. /\ acting[c].pc = "clicked" /\ ~Type(c) /\ ~SetFiles(c)
      /\ Moves(c, Filled(acting[c], Fields[c]), {}) /\ acting[c] \in ActingRecord
  BY StepFrom DEF Clicked, ActingAt, Proceeds, Type, SetFiles
<1>2. QED
  BY <1>1, StepFills

\* Prepare, then one key: the field has the focus, its text selected.
LEMMA PrepareFillHolds ==
    ASSUME ActInv, NEW c \in Calls, ActionStep(c), PrepareFill(c) PROVE Holds(c)'
<1>1. /\ ActingTypes /\ acting[c] \in ActingRecord /\ DoesTo(c) /\ Noting(c)
  BY StepFrom
<1>2. /\ acting[c].pc = "prepare" /\ el' = el /\ ~Type(c) /\ ~SetFiles(c)
      /\ \/ Moves(c, [acting[c] EXCEPT !.pc = "failed"], {})
         \/ /\ focus' = [on |-> Field(c), all |-> TRUE]
            /\ \E pc \in {"delete", "type"} : Moves(c, [acting[c] EXCEPT !.pc = pc, !.typed = 0], TextFields)
  BY DEF PrepareFill, ActingAt, Type, SetFiles, ProceedsTo, ActionFails, Proceeds
<1>3. CASE Moves(c, [acting[c] EXCEPT !.pc = "failed"], {})
  BY <1>2, <1>3, StepEnds DEF Amid
<1>4. ASSUME focus' = [on |-> Field(c), all |-> TRUE], NEW pc \in {"delete", "type"},
             Moves(c, [acting[c] EXCEPT !.pc = pc, !.typed = 0], TextFields)
      PROVE  Holds(c)'
  <2> DEFINE r == [acting[c] EXCEPT !.pc = pc, !.typed = 0]
  <2>1. /\ r \in ActingRecord /\ r.pc = pc /\ r.typed = 0 /\ r.at = acting[c].at /\ r.wrote = acting[c].wrote
        /\ r.notes = acting[c].notes /\ r.aim = acting[c].aim /\ r.strayed = acting[c].strayed
    BY <1>1, <1>4 DEF ActingRecord, ActingPc
  <2>2. Moves(c, r, TextFields)
    BY <1>4
  <2> HIDE DEF r
  <2>3. GoesThrough(c)' /\ Noting(c)' /\ acting'[c] = r
    BY <1>2, <1>4, <2>1, <2>2, StaysAt
  <2>4. Field(c)' = Field(c)
    BY <2>1, <2>3 DEF Field
  <2>5. DoesTo(c)' /\ Aims(c)'
    BY <1>1, <1>2, <1>4, <2>1, <2>3, <2>4 DEF DoesTo, Aims
  <2>6. Agrees(c)'
    BY <1>4, <2>1, <2>3, <2>4 DEF Agrees
  <2>7. OwnsUp(c)'
    BY <1>2, <2>1, <2>3, OwnsStill DEF Amid
  <2>8. QED
    BY <2>3, <2>5, <2>6, <2>7 DEF Holds
<1>5. QED
  BY <1>2, <1>3, <1>4

LEMMA DeleteHolds ==
    ASSUME ActInv, NEW c \in Calls, ActionStep(c), Delete(c) PROVE Holds(c)'
<1> DEFINE r == [acting[c] EXCEPT !.pc = "type"]
<1>1. /\ ActingTypes /\ acting[c] \in ActingRecord /\ DoesTo(c) /\ Agrees(c) /\ Noting(c)
  BY StepFrom
<1>2. /\ acting[c].pc = "delete" /\ focus' = focus /\ ~Type(c) /\ ~SetFiles(c)
      /\ Moves(c, r, {focus.on})
  BY DEF Delete, ActingAt, Type, SetFiles
<1>3. /\ r \in ActingRecord /\ r.pc = "type" /\ r.at = acting[c].at /\ r.wrote = acting[c].wrote
      /\ r.notes = acting[c].notes /\ r.aim = acting[c].aim /\ r.strayed = acting[c].strayed
      /\ r.calm = acting[c].calm /\ r.typed = acting[c].typed
  BY <1>1 DEF ActingRecord, ActingPc
<1> HIDE DEF r
<1>4. GoesThrough(c)' /\ Noting(c)' /\ acting'[c] = r
  BY <1>2, <1>3, StaysAt
<1>5. Field(c)' = Field(c)
  BY <1>3, <1>4 DEF Field
<1>6. DoesTo(c)' /\ Aims(c)'
  BY <1>1, <1>2, <1>3, <1>4, <1>5 DEF DoesTo, Aims
<1>7. Agrees(c)'
  BY <1>1, <1>2, <1>3, <1>4, <1>5 DEF Agrees
<1>8. OwnsUp(c)'
  BY <1>2, <1>3, <1>4, OwnsStill DEF Amid
<1>9. QED
  BY <1>4, <1>6, <1>7, <1>8 DEF Holds

\* One more key.
LEMMA OneMoreKey ==
    ASSUME NEW c, NEW n \in Nat
    PROVE  Append(Typed(c, n), c) = Typed(c, n + 1) /\ Typed(c, 1) = <<c>>
<1>1. Typed(c, n) \in Seq({c}) /\ Len(Typed(c, n)) = n
  BY DEF Typed
<1> DEFINE more == Append(Typed(c, n), c)
<1>2. /\ more \in Seq({c}) /\ Len(more) = n + 1
  BY <1>1
<1> HIDE DEF more
<1>3. more = [i \in 1..(n + 1) |-> more[i]] /\ \A i \in 1..(n + 1) : more[i] = c
  BY <1>2
<1>4. more = Typed(c, n + 1)
  BY <1>3 DEF Typed
<1>5. Typed(c, 1) = <<c>>
  BY DEF Typed
<1>6. QED
  BY <1>4, <1>5 DEF more

\* What a key leaves of the field of a call nobody disturbed.
LEMMA TypesOn ==
    ASSUME ActInv, NEW c \in Calls, Type(c), acting[c].calm
    PROVE  /\ el'[Field(c)].text = Typed(c, acting[c].typed + 1)
           /\ focus'.on = Field(c) /\ ~focus'.all
<1> DEFINE x == Field(c)
           n == acting[c].typed
<1>1. /\ acting[c] \in ActingRecord /\ x \in Elements /\ el \in [Elements -> OnPage] /\ el[x] \in OnPage
      /\ Agrees(c) /\ acting[c].pc = "type" /\ focus \in [on : Elements \cup {"body"}, all : BOOLEAN]
  BY StepFrom DEF ActingTypes, Type, ActingAt
<1>2. focus.on = x /\ (focus.all \/ el[x].text = Typed(c, n)) /\ (focus.all => n = 0) /\ n \in Nat
  BY <1>1 DEF Agrees, ActingRecord
<1>3. focus'.on = x /\ ~focus'.all
  BY <1>1, <1>2 DEF Type
<1>4. CASE focus.all
  <2>1. el' = [el EXCEPT ![x].text = <<c>>]
    BY <1>1, <1>2, <1>4 DEF Type
  <2>2. el'[x].text = <<c>>
    BY <1>1, <2>1 DEF OnPage
  <2>3. n + 1 = 1
    BY <1>2, <1>4
  <2>4. QED
    BY <1>3, <2>2, <2>3, OneMoreKey
<1>5. CASE ~focus.all
  <2>1. el' = [el EXCEPT ![x].text = Append(@, c)]
    BY <1>1, <1>2, <1>5 DEF Type
  <2>2. el'[x].text = Append(el[x].text, c)
    BY <1>1, <2>1 DEF OnPage
  <2>3. QED
    BY <1>2, <1>3, <1>5, <2>2, OneMoreKey
<1>6. QED
  BY <1>4, <1>5

\* The keys go to the field, or they have strayed.
LEMMA TypeHolds ==
    ASSUME ActInv, NEW c \in Calls, ActionStep(c), Type(c) PROVE Holds(c)'
<1> DEFINE x == Field(c)
           r == [acting[c] EXCEPT !.typed = @ + 1, !.strayed = @ \/ focus.on # x]
           at == acting[c].at
<1>1. /\ ActingTypes /\ acting[c] \in ActingRecord /\ GoesThrough(c) /\ OwnsUp(c) /\ Noting(c) /\ DoesTo(c)
  BY StepFrom
<1>2. /\ acting[c].pc = "type"
      /\ Moves(c, Filled(r, Fields[c]), {focus.on}) \/ Moves(c, r, {focus.on})
  BY DEF Type, ActingAt
<1>3. /\ r \in ActingRecord /\ r.at = at /\ r.wrote = acting[c].wrote /\ r.notes = acting[c].notes
      /\ r.aim = acting[c].aim /\ r.pc = "type" /\ r.typed = acting[c].typed + 1 /\ r.calm = acting[c].calm
      /\ ~r.strayed => ~acting[c].strayed /\ focus.on = x
  <2> DEFINE n == acting[c].typed + 1
             b == acting[c].strayed \/ focus.on # x
  <2>1. b \in BOOLEAN /\ n \in Nat /\ r = [acting[c] EXCEPT !.typed = n, !.strayed = b]
    BY <1>1 DEF ActingRecord
  <2>2. ~b => ~acting[c].strayed /\ focus.on = x
    OBVIOUS
  <2> HIDE DEF x, n, b, r
  <2>3. /\ r \in ActingRecord /\ r.at = at /\ r.wrote = acting[c].wrote /\ r.notes = acting[c].notes
        /\ r.aim = acting[c].aim /\ r.pc = "type" /\ r.typed = n /\ r.calm = acting[c].calm /\ r.strayed = b
    BY <1>1, <1>2, <2>1 DEF ActingRecord
  <2>4. QED
    BY <2>2, <2>3 DEF n
<1> HIDE DEF r
<1>4. IsForm(c) => acting[c].aim # -1
  BY <1>1, <1>2 DEF Noting
<1>5. ASSUME NEW y \in Elements PROVE el'[y].files = <<>> \/ el'[y].files[1] # c
  <2>1. ~SetFiles(c)
    BY <1>2 DEF SetFiles, ActingAt
  <2>2. el'[y].files = el[y].files
    BY <1>1, <2>1, StepLeaves
  <2>3. QED
    BY <1>1, <1>2, <2>2 DEF OwnsUp
<1>6. ASSUME ~r.strayed, NEW y \in Elements, c \in Range(el'[y].text)
      PROVE  (\E i \in acting[c].wrote : Fields[c][i] = y) \/ y = x
  <2>1. focus.on = x /\ ~acting[c].strayed
    BY <1>3, <1>6
  <2>2. c \in Range(el[y].text) \/ y = focus.on
    BY <1>1, <1>6, StepLeaves
  <2>3. QED
    BY <1>1, <2>1, <2>2 DEF OwnsUp
<1>7. CASE Moves(c, Filled(r, Fields[c]), {focus.on})
  <2>1. /\ GoesThrough(c)' /\ DoesTo(c)' /\ Aims(c)' /\ Agrees(c)' /\ Noting(c)'
        /\ acting'[c].wrote = acting[c].wrote \cup {at} /\ acting'[c].strayed = r.strayed
    BY <1>2, <1>3, <1>4, <1>7, FillsOn
  <2>2. x = Fields[c][at]
    BY DEF Field
  <2>3. OwnsUp(c)'
    BY <1>5, <1>6, <2>1, <2>2 DEF OwnsUp
  <2>4. QED
    BY <2>1, <2>3 DEF Holds
<1>8. CASE Moves(c, r, {focus.on})
  <2>1. GoesThrough(c)' /\ Noting(c)' /\ acting'[c] = r
    BY <1>2, <1>3, <1>8, StaysAt
  <2>2. Field(c)' = x
    BY <1>3, <2>1 DEF Field
  <2>3. DoesTo(c)' /\ Aims(c)'
    BY <1>1, <1>2, <1>3, <2>1, <2>2 DEF DoesTo, Aims
  <2>4. Agrees(c)'
    <3>1. CASE ~acting[c].calm
      BY <1>3, <2>1, <3>1 DEF Agrees
    <3>2. CASE acting[c].calm
      BY <1>3, <2>1, <2>2, <3>2, TypesOn DEF Agrees
    <3>3. QED
      BY <3>1, <3>2
  <2>5. Amid(c)'
    BY <1>3, <2>1 DEF Amid
  <2>6. OwnsUp(c)'
    BY <1>3, <1>5, <1>6, <2>1, <2>2, <2>5 DEF OwnsUp
  <2>7. QED
    BY <2>1, <2>3, <2>4, <2>6 DEF Holds
<1>9. QED
  BY <1>2, <1>7, <1>8

LEMMA ReadOptionsHolds ==
    ASSUME ActInv, NEW c \in Calls, ActionStep(c), ReadOptions(c) PROVE Holds(c)'
<1> DEFINE r == [acting[c] EXCEPT !.pc = "select"]
<1>1. /\ ActingTypes /\ acting[c] \in ActingRecord /\ DoesTo(c) /\ Noting(c)
  BY StepFrom
<1>2. /\ acting[c].pc = "options" /\ el' = el /\ ~Type(c) /\ ~SetFiles(c)
      /\ \/ Moves(c, [acting[c] EXCEPT !.pc = "failed"], {})
         \/ Moves(c, r, {})
  BY DEF ReadOptions, ActingAt, Type, SetFiles, ProceedsTo, ActionFails, Proceeds, PageRests
<1>3. CASE Moves(c, [acting[c] EXCEPT !.pc = "failed"], {})
  BY <1>2, <1>3, StepEnds DEF Amid
<1>4. CASE Moves(c, r, {})
  <2>1. /\ r \in ActingRecord /\ r.pc = "select" /\ r.at = acting[c].at /\ r.wrote = acting[c].wrote
        /\ r.notes = acting[c].notes /\ r.aim = acting[c].aim /\ r.strayed = acting[c].strayed
    BY <1>1 DEF ActingRecord, ActingPc
  <2> HIDE DEF r
  <2>2. GoesThrough(c)' /\ Noting(c)' /\ acting'[c] = r
    BY <1>2, <1>4, <2>1, StaysAt
  <2>3. Field(c)' = Field(c)
    BY <2>1, <2>2 DEF Field
  <2>4. DoesTo(c)' /\ Aims(c)' /\ Agrees(c)'
    BY <1>1, <1>2, <2>1, <2>2, <2>3 DEF DoesTo, Aims, Agrees
  <2>5. OwnsUp(c)'
    BY <1>2, <2>1, <2>2, OwnsStill DEF Amid
  <2>6. QED
    BY <2>2, <2>4, <2>5 DEF Holds
<1>5. QED
  BY <1>2, <1>3, <1>4

LEMMA SelectOptionHolds ==
    ASSUME ActInv, NEW c \in Calls, ActionStep(c), SelectOption(c) PROVE Holds(c)'
<1>1. /\ acting[c].pc = "select" /\ ~Type(c) /\ ~SetFiles(c) /\ acting[c] \in ActingRecord
      /\ \/ \E touched : Moves(c, [acting[c] EXCEPT !.pc = "failed"], touched)
         \/ Moves(c, Filled(acting[c], Fields[c]), {Field(c)})
  BY StepFrom DEF SelectOption, ActingAt, Type, SetFiles, ProceedsTo, ActionFails, Proceeds
<1>2. CASE \E touched : Moves(c, [acting[c] EXCEPT !.pc = "failed"], touched)
  BY <1>1, <1>2, StepEnds DEF Amid
<1>3. CASE Moves(c, Filled(acting[c], Fields[c]), {Field(c)})
  BY <1>1, <1>3, StepFills
<1>4. QED
  BY <1>1, <1>2, <1>3

\* An upload reads the file and hands it over.
LEMMA UploadGoesOn ==
    ASSUME ActInv, NEW c \in Calls, ActionStep(c), NEW r \in ActingRecord,
           acting[c].pc \in {"stat", "read"}, r.pc \in {"read", "attach"}, el' = el,
           r.at = acting[c].at, r.wrote = acting[c].wrote, r.notes = acting[c].notes,
           r.aim = acting[c].aim, r.strayed = acting[c].strayed, Moves(c, r, {})
    PROVE  Holds(c)'
<1>1. DoesTo(c) /\ Noting(c)
  BY StepFrom
<1>2. GoesThrough(c)' /\ Noting(c)' /\ acting'[c] = r
  BY StaysAt
<1>3. DoesTo(c)' /\ Aims(c)' /\ Agrees(c)'
  BY <1>1, <1>2 DEF DoesTo, Aims, Agrees
<1>4. ~Type(c) /\ ~SetFiles(c)
  BY DEF Type, SetFiles, ActingAt
<1>5. OwnsUp(c)'
  BY <1>2, <1>4, OwnsStill DEF Amid
<1>6. QED
  BY <1>2, <1>3, <1>5 DEF Holds

LEMMA StatUploadHolds ==
    ASSUME ActInv, NEW c \in Calls, ActionStep(c), StatUpload(c) PROVE Holds(c)'
<1> DEFINE r == [acting[c] EXCEPT !.pc = "read"]
<1>1. /\ acting[c] \in ActingRecord /\ acting[c].pc = "stat" /\ el' = el /\ ~Type(c) /\ ~SetFiles(c)
      /\ Moves(c, [acting[c] EXCEPT !.pc = "failed"], {}) \/ Moves(c, r, {})
  BY StepFrom DEF StatUpload, ActingAt, Type, SetFiles, ProceedsTo, ActionFails, Proceeds, PageRests
<1>2. /\ r \in ActingRecord /\ r.pc = "read" /\ r.at = acting[c].at /\ r.wrote = acting[c].wrote
      /\ r.notes = acting[c].notes /\ r.aim = acting[c].aim /\ r.strayed = acting[c].strayed
  BY <1>1 DEF ActingRecord, ActingPc
<1> HIDE DEF r
<1>3. CASE Moves(c, [acting[c] EXCEPT !.pc = "failed"], {})
  BY <1>1, <1>3, StepEnds DEF Amid
<1>4. CASE Moves(c, r, {})
  BY <1>1, <1>2, <1>4, UploadGoesOn
<1>5. QED
  BY <1>1, <1>3, <1>4

LEMMA ReadUploadHolds ==
    ASSUME ActInv, NEW c \in Calls, ActionStep(c), ReadUpload(c) PROVE Holds(c)'
<1> DEFINE r == [acting[c] EXCEPT !.pc = "attach", !.data = disk]
<1>1. /\ acting[c] \in ActingRecord /\ acting[c].pc = "read" /\ el' = el /\ ~Type(c) /\ ~SetFiles(c)
      /\ Moves(c, [acting[c] EXCEPT !.pc = "failed"], {}) \/ Moves(c, r, {})
  BY StepFrom DEF ReadUpload, ActingAt, Type, SetFiles, ProceedsTo, ActionFails, Proceeds, PageRests
<1>2. /\ r \in ActingRecord /\ r.pc = "attach" /\ r.at = acting[c].at /\ r.wrote = acting[c].wrote
      /\ r.notes = acting[c].notes /\ r.aim = acting[c].aim /\ r.strayed = acting[c].strayed
  BY <1>1, StepFrom DEF ActingRecord, ActingPc, ActingTypes
<1> HIDE DEF r
<1>3. CASE Moves(c, [acting[c] EXCEPT !.pc = "failed"], {})
  BY <1>1, <1>3, StepEnds DEF Amid
<1>4. CASE Moves(c, r, {})
  BY <1>1, <1>2, <1>4, UploadGoesOn
<1>5. QED
  BY <1>1, <1>3, <1>4

LEMMA SetFilesHolds ==
    ASSUME ActInv, NEW c \in Calls, ActionStep(c), SetFiles(c) PROVE Holds(c)'
<1>1. /\ ActingTypes /\ acting[c] \in ActingRecord /\ DoesTo(c) /\ acting[c].pc = "attach" /\ ~Type(c)
      /\ \/ el' = el /\ Moves(c, [acting[c] EXCEPT !.pc = "failed"], {})
         \/ Moves(c, Filled(acting[c], Fields[c]), {Field(c)})
  BY StepFrom DEF SetFiles, ActingAt, Type, ProceedsTo, ActionFails, Proceeds
<1>2. CASE el' = el /\ Moves(c, [acting[c] EXCEPT !.pc = "failed"], {})
  BY <1>1, <1>2, StepEnds DEF Amid
<1>3. CASE Moves(c, Filled(acting[c], Fields[c]), {Field(c)})
  <2> DEFINE f == Filled(acting[c], Fields[c])
  <2>1. Tool[c] = "upload_file" /\ Len(Fields[c]) = 1 /\ acting[c].at \in 1..1
    BY <1>1, KindsAre, FieldIsNamed DEF DoesTo
  <2>2. f \in ActingRecord /\ f.at \in 1..Len(Fields[c]) /\ f.pc = "done"
    <3>1. acting[c].at < Len(Fields[c]) \/ f.pc = "done"
      BY <1>1, FilledMoves
    <3>2. ~(acting[c].at < Len(Fields[c]))
      BY <2>1
    <3>3. QED
      BY <1>1, <3>1, <3>2, FilledMoves
  <2> HIDE DEF f
  <2>3. acting'[c].pc = "done"
    BY <1>1, <1>3, <2>2, ActMoves DEF f
  <2>4. QED
    BY <1>1, <1>3, <2>3, StepFills
<1>4. QED
  BY <1>1, <1>2, <1>3

LEMMA CancelledHolds ==
    ASSUME ActInv, NEW c \in Calls, ActionStep(c), Cancelled(c) PROVE Holds(c)'
<1>1. /\ acting[c].pc \notin {"idle", "done"} /\ el' = el
      /\ Moves(c, [acting[c] EXCEPT !.pc = "cancelled"], {})
  BY DEF Cancelled, Acting, Ended, ActingAt, ProceedsTo, Proceeds, PageRests
<1>2. CASE Type(c)
  BY <1>2, TypeHolds
<1>3. CASE ~Type(c)
  BY <1>1, <1>3, StepEnds DEF Amid
<1>4. QED
  BY <1>2, <1>3

LEMMA ActStepHolds ==
    ASSUME ActInv, NEW c \in Calls, ActionStep(c) PROVE ActInv'
<1>1. Holds(c)'
  BY StartHolds, LocateHolds, LookHolds, MeasuredHolds, ClickHolds, ClickedHolds, PrepareFillHolds, DeleteHolds,
     TypeHolds, ReadOptionsHolds, SelectOptionHolds, StatUploadHolds, ReadUploadHolds, SetFilesHolds,
     CancelledHolds DEF ActionStep
<1>2. ActingTypes'
  BY ActStepTypes DEF ActInv
<1>3. \A d \in Calls : d # c =>
          GoesThrough(d)' /\ DoesTo(d)' /\ Aims(d)' /\ Agrees(d)' /\ OwnsUp(d)' /\ Noting(d)'
  BY OthersHold
<1>4. QED
  BY <1>1, <1>2, <1>3 DEF ActInv, Holds

-----------------------------------------------------------------------------
\* What the page does by itself: it unsettles those at an element, or disturbs those
\* at some.
Unsettled(x) ==
    acting' = [c \in Calls |-> IF Acting(c) /\ Field(c) = x
                               THEN [acting[c] EXCEPT !.still = FALSE] ELSE acting[c]]
DisturbedAt(xs) ==
    acting' = [c \in Calls |-> IF Acting(c) /\ Field(c) \in xs
                               THEN [acting[c] EXCEPT !.calm = FALSE] ELSE acting[c]]

LEMMA PageActsDo ==
    ASSUME PageActs
    PROVE  /\ disk' = disk
           /\ \E x \in Elements :
                 \/ /\ Unsettled(x) /\ focus' = focus
                    /\ \/ el' = [el EXCEPT ![x].place = 1 - @]
                       \/ el' = [el EXCEPT ![x].covered = ~@]
                       \/ el' = [el EXCEPT ![x].alive = FALSE]
                 \/ /\ DisturbedAt({x}) /\ focus' = focus
                    /\ el' = [el EXCEPT ![x].checked = ~@] \/ el' = [el EXCEPT ![x].options = {1}]
                 \/ DisturbedAt(TextFields) /\ focus' = [on |-> x, all |-> FALSE] /\ el' = el
<1>1. PICK x \in Elements :
         \/ /\ Unsettled(x) /\ focus' = focus
            /\ \/ el' = [el EXCEPT ![x] = [el[x] EXCEPT !.place = 1 - @]]
               \/ el' = [el EXCEPT ![x] = [el[x] EXCEPT !.covered = ~@]]
               \/ el' = [el EXCEPT ![x] = [el[x] EXCEPT !.alive = FALSE]]
         \/ /\ DisturbedAt({x}) /\ focus' = focus
            /\ \/ el' = [el EXCEPT ![x] = [el[x] EXCEPT !.checked = ~@]]
               \/ el' = [el EXCEPT ![x] = [el[x] EXCEPT !.options = {1}]]
         \/ DisturbedAt(TextFields) /\ focus' = [on |-> x, all |-> FALSE] /\ el' = el
  BY DEF PageActs, Unsettled, DisturbedAt
<1>2. QED
  BY <1>1 DEF PageActs

LEMMA PageActsTypes ==
    ASSUME ActingTypes, PageActs PROVE ActingTypes'
<1>1. PICK x \in Elements :
          \/ /\ Unsettled(x) /\ focus' = focus
             /\ \/ el' = [el EXCEPT ![x].place = 1 - @]
                \/ el' = [el EXCEPT ![x].covered = ~@]
                \/ el' = [el EXCEPT ![x].alive = FALSE]
          \/ /\ DisturbedAt({x}) /\ focus' = focus
             /\ el' = [el EXCEPT ![x].checked = ~@] \/ el' = [el EXCEPT ![x].options = {1}]
          \/ DisturbedAt(TextFields) /\ focus' = [on |-> x, all |-> FALSE] /\ el' = el
  BY PageActsDo
<1>2. el \in [Elements -> OnPage] /\ el[x] \in OnPage
  BY DEF ActingTypes
<1>3. el' \in [Elements -> OnPage]
  <2>1. (1 - el[x].place) \in {0, 1} /\ {1} \subseteq Int
    BY <1>2 DEF OnPage
  <2>2. /\ [el EXCEPT ![x].place = 1 - @] \in [Elements -> OnPage]
        /\ [el EXCEPT ![x].covered = ~@] \in [Elements -> OnPage]
        /\ [el EXCEPT ![x].alive = FALSE] \in [Elements -> OnPage]
    BY <1>2, <2>1 DEF OnPage
  <2>3. /\ [el EXCEPT ![x].checked = ~@] \in [Elements -> OnPage]
        /\ [el EXCEPT ![x].options = {1}] \in [Elements -> OnPage]
    BY <1>2, <2>1 DEF OnPage
  <2>4. QED
    BY <1>1, <1>2, <2>2, <2>3
<1>4. focus' \in [on : Elements \cup {"body"}, all : BOOLEAN] /\ disk' \in OnDisk
  <2>1. [on |-> x, all |-> FALSE] \in [on : Elements \cup {"body"}, all : BOOLEAN]
    OBVIOUS
  <2>2. QED
    BY <1>1, <2>1, PageActsDo DEF ActingTypes
<1>5. ASSUME NEW c \in Calls
      PROVE  /\ {acting[c], [acting[c] EXCEPT !.still = FALSE], [acting[c] EXCEPT !.calm = FALSE]} \subseteq ActingRecord
             /\ [acting[c] EXCEPT !.still = FALSE].at = acting[c].at /\ [acting[c] EXCEPT !.calm = FALSE].at = acting[c].at
             /\ acting[c].at \in 1..Len(Fields[c])
  BY FieldIsNamed DEF ActingRecord
<1>6. acting' \in [Calls -> ActingRecord] /\ \A c \in Calls : acting'[c].at \in 1..Len(Fields[c])
  BY <1>1, <1>5 DEF Unsettled, DisturbedAt
<1>7. QED
  BY <1>3, <1>4, <1>6 DEF ActingTypes

\* What each call, and each element, keeps when the page acts.
LEMMA PageKeeps ==
    ASSUME ActingTypes, PageActs, NEW c \in Calls
    PROVE  /\ acting'[c].pc = acting[c].pc /\ acting'[c].at = acting[c].at /\ acting'[c].aim = acting[c].aim
           /\ acting'[c].wrote = acting[c].wrote /\ acting'[c].notes = acting[c].notes
           /\ acting'[c].strayed = acting[c].strayed /\ acting'[c].checked = acting[c].checked
           /\ acting'[c].hit = acting[c].hit /\ acting'[c].typed = acting[c].typed
           /\ \A x \in Elements : el'[x].text = el[x].text /\ el'[x].files = el[x].files
           /\ acting'[c].still => acting[c].still
           /\ acting'[c].calm => acting[c].calm
           /\ Acting(c) /\ acting'[c].still =>
                  /\ el'[Field(c)].alive = el[Field(c)].alive
                  /\ el'[Field(c)].covered = el[Field(c)].covered
                  /\ el'[Field(c)].place = el[Field(c)].place
           /\ Acting(c) /\ acting'[c].calm =>
                  /\ el'[Field(c)].checked = el[Field(c)].checked
                  /\ Kind[Field(c)] = "text" => focus' = focus
<1>1. PICK x \in Elements :
          \/ /\ Unsettled(x) /\ focus' = focus
             /\ \/ el' = [el EXCEPT ![x].place = 1 - @]
                \/ el' = [el EXCEPT ![x].covered = ~@]
                \/ el' = [el EXCEPT ![x].alive = FALSE]
          \/ /\ DisturbedAt({x}) /\ focus' = focus
             /\ el' = [el EXCEPT ![x].checked = ~@] \/ el' = [el EXCEPT ![x].options = {1}]
          \/ DisturbedAt(TextFields) /\ focus' = [on |-> x, all |-> FALSE] /\ el' = el
  BY PageActsDo
<1>2. /\ el \in [Elements -> OnPage] /\ acting[c] \in ActingRecord /\ Field(c) \in Elements
  BY FieldIsNamed DEF ActingTypes
<1>3. CASE /\ Unsettled(x) /\ focus' = focus
           /\ \/ el' = [el EXCEPT ![x].place = 1 - @]
              \/ el' = [el EXCEPT ![x].covered = ~@]
              \/ el' = [el EXCEPT ![x].alive = FALSE]
  <2>1. acting'[c] = IF Acting(c) /\ Field(c) = x THEN [acting[c] EXCEPT !.still = FALSE] ELSE acting[c]
    BY <1>3 DEF Unsettled
  <2>2. \A y \in Elements : /\ el'[y].text = el[y].text /\ el'[y].files = el[y].files /\ el'[y].checked = el[y].checked
                            /\ y # x => el'[y] = el[y]
    BY <1>2, <1>3 DEF OnPage
  <2>3. QED
    BY <1>2, <1>3, <2>1, <2>2 DEF ActingRecord
<1>4. CASE /\ DisturbedAt({x}) /\ focus' = focus
           /\ el' = [el EXCEPT ![x].checked = ~@] \/ el' = [el EXCEPT ![x].options = {1}]
  <2>1. acting'[c] = IF Acting(c) /\ Field(c) \in {x} THEN [acting[c] EXCEPT !.calm = FALSE] ELSE acting[c]
    BY <1>4 DEF DisturbedAt
  <2>2. \A y \in Elements : /\ el'[y].text = el[y].text /\ el'[y].files = el[y].files /\ el'[y].alive = el[y].alive
                            /\ el'[y].covered = el[y].covered /\ el'[y].place = el[y].place
                            /\ y # x => el'[y] = el[y]
    BY <1>2, <1>4 DEF OnPage
  <2>3. QED
    BY <1>2, <1>4, <2>1, <2>2 DEF ActingRecord
<1>5. CASE DisturbedAt(TextFields) /\ focus' = [on |-> x, all |-> FALSE] /\ el' = el
  <2>1. acting'[c] = IF Acting(c) /\ Field(c) \in TextFields
                     THEN [acting[c] EXCEPT !.calm = FALSE] ELSE acting[c]
    BY <1>5 DEF DisturbedAt
  <2>2. Kind[Field(c)] = "text" => Field(c) \in TextFields
    BY <1>2 DEF TextFields
  <2>3. QED
    BY <1>2, <1>5, <2>1, <2>2 DEF ActingRecord
<1>6. QED
  BY <1>1, <1>3, <1>4, <1>5

LEMMA PageActsHolds ==
    ASSUME ActInv, PageActs PROVE ActInv'
<1>1. ASSUME NEW c \in Calls PROVE Holds(c)'
  <2>1. GoesThrough(c) /\ DoesTo(c) /\ Aims(c) /\ Agrees(c) /\ OwnsUp(c) /\ Noting(c) /\ ActingTypes
    BY StepFrom
  <2>2. Field(c)' = Field(c)
    BY <2>1, PageKeeps DEF Field
  <2>3. GoesThrough(c)' /\ DoesTo(c)'
    BY <2>1, <2>2, PageKeeps DEF GoesThrough, DoesTo
  <2>4. Aims(c)'
    BY <2>1, <2>2, PageKeeps DEF Aims, Acting, Ended, ActingAt
  <2>5. Agrees(c)'
    <3>1. CASE ~acting'[c].calm
      BY <3>1 DEF Agrees
    <3>2. CASE ~Acting(c)
      BY <2>1, <3>2, PageKeeps DEF Agrees, Acting, Ended, ActingAt
    <3>3. CASE Acting(c) /\ acting'[c].calm
      <4>1. /\ acting'[c].pc = acting[c].pc /\ acting'[c].checked = acting[c].checked /\ acting[c].calm
            /\ acting'[c].hit = acting[c].hit /\ acting'[c].typed = acting[c].typed
            /\ el'[Field(c)].checked = el[Field(c)].checked
            /\ Kind[Field(c)] = "text" => focus' = focus
        BY <2>1, <3>3, PageKeeps
      <4>2. el'[Field(c)].text = el[Field(c)].text
        BY <2>1, StepFrom, PageKeeps
      <4>3. QED
        BY <2>1, <2>2, <4>1, <4>2 DEF Agrees, DoesTo
    <3>4. QED
      BY <3>1, <3>2, <3>3
  <2>6. OwnsUp(c)'
    <3>1. Amid(c)' = Amid(c) /\ acting[c].strayed = acting'[c].strayed /\ acting'[c].wrote = acting[c].wrote
          /\ acting'[c].pc = acting[c].pc
          /\ \A x \in Elements : el'[x].text = el[x].text /\ el'[x].files = el[x].files
      BY <2>1, PageKeeps DEF Amid
    <3>2. QED
      BY <2>1, <2>2, <3>1 DEF OwnsUp
  <2>7. Noting(c)'
    <3>1. IsForm(c) /\ acting[c].pc # "idle" => NotesAre(c, acting'[c].notes, acting'[c].at, acting'[c].aim)
      BY <2>1, PageKeeps DEF Noting
    <3>2. QED
      BY <2>1, <3>1, PageKeeps DEF Noting, NotesAre, IsForm
  <2>8. QED
    BY <2>3, <2>4, <2>5, <2>6, <2>7 DEF Holds
<1>2. ActingTypes'
  BY PageActsTypes DEF ActInv
<1>3. QED
  BY <1>1, <1>2 DEF ActInv, Holds

LEMMA StillHolds ==
    ASSUME ActInv, acting' = acting, el' = el, focus' = focus, disk' \in OnDisk PROVE ActInv'
<1>1. ActingTypes'
  BY DEF ActInv, ActingTypes
<1>2. ASSUME NEW c \in Calls
      PROVE  GoesThrough(c)' /\ DoesTo(c)' /\ Aims(c)' /\ Agrees(c)' /\ OwnsUp(c)' /\ Noting(c)'
  <2>1. GoesThrough(c) /\ DoesTo(c) /\ Aims(c) /\ Agrees(c) /\ OwnsUp(c) /\ Noting(c)
    BY DEF ActInv
  <2>2. Field(c)' = Field(c)
    BY DEF Field
  <2>3. GoesThrough(c)' /\ DoesTo(c)' /\ Aims(c)'
    BY <2>1, <2>2 DEF GoesThrough, DoesTo, Aims
  <2>4. Agrees(c)' /\ OwnsUp(c)' /\ Noting(c)'
    BY <2>1, <2>2 DEF Agrees, OwnsUp, Amid, Noting, NotesAre, IsForm
  <2>5. QED
    BY <2>3, <2>4
<1>3. QED
  BY <1>1, <1>2 DEF ActInv

LEMMA ActNext ==
    ASSUME ActInv, [ActionNext]_actionVars PROVE ActInv'
<1>1. CASE PageActs
  BY <1>1, PageActsHolds
<1>2. CASE DiskActs
  <2>1. disk' \in OnDisk /\ acting' = acting /\ el' = el /\ focus' = focus
    BY <1>2 DEF DiskActs, OnDisk
  <2>2. QED
    BY <2>1, StillHolds
<1>3. CASE \E c \in Calls : ActionStep(c)
  BY <1>3, ActStepHolds
<1>4. CASE UNCHANGED actionVars
  BY <1>4, StillHolds DEF actionVars, ActInv, ActingTypes
<1>5. QED
  BY <1>1, <1>2, <1>3, <1>4 DEF ActionNext

LEMMA ActHolds == ActionSpec => []ActInv
<1>1. ActionInit => ActInv
  BY ActInit
<1>2. ActInv /\ [ActionNext]_actionVars => ActInv'
  BY ActNext
<1>3. QED
  BY <1>1, <1>2, PTL DEF ActionSpec

-----------------------------------------------------------------------------
\* Only a step of its own moves a call.
LEMMA MovesItself ==
    ASSUME ActInv, [ActionNext]_actionVars, NEW c \in Calls,
           acting'[c].pc # acting[c].pc \/ acting'[c].wrote # acting[c].wrote
    PROVE  ActionStep(c)
<1>1. ~PageActs
  BY StepFrom, PageKeeps
<1>2. ~DiskActs /\ ~(UNCHANGED actionVars)
  BY DEF DiskActs, actionVars
<1>3. PICK d \in Calls : ActionStep(d)
  BY <1>1, <1>2 DEF ActionNext
<1>4. d = c
  BY <1>3, OthersHold
<1>5. QED
  BY <1>3, <1>4

\* What a call tells as filled is what it goes on from.
LEMMA TellsSame ==
    ASSUME NEW c \in Calls, NEW r, NEW touched, Moves(c, r, touched)
    PROVE  acting'[c].wrote = r.wrote
<1>1. acting'[c] = Leaves(r)
  BY DEF Moves
<1>2. CASE r.pc \notin {"done", "failed", "cancelled"}
  BY <1>1, <1>2 DEF Leaves
<1>3. CASE r.pc \in {"done", "failed", "cancelled"}
  <2> DEFINE aim == IF r.aim = -1 THEN -1 ELSE 0
  <2>1. acting'[c] = [Unmade EXCEPT !.pc = r.pc, !.at = r.at, !.notes = r.notes, !.wrote = r.wrote,
                                      !.strayed = r.strayed, !.aim = aim]
    BY <1>1, <1>3 DEF Leaves, Unset
  <2> HIDE DEF aim
  <2>2. QED
    BY <2>1 DEF Unmade
<1>4. QED
  BY <1>2, <1>3

ClickLands ==
    \A c \in Calls : ActingAt(c, "click") /\ acting'[c].pc = "clicked" /\ acting[c].still => acting'[c].hit

\* A click comes down on its element unless the page moved or covered it since the last
\* look (resolve and the click of dom/actions.py), whatever other calls do.
THEOREM ClicksWhatItNamesHolds == ActionSpec => ClicksWhatItNames
<1>1. ASSUME ActInv, [ActionNext]_actionVars PROVE ClickLands
  <2>1. SUFFICES ASSUME NEW c \in Calls, acting[c].pc = "click", acting'[c].pc = "clicked", acting[c].still
                 PROVE  acting'[c].hit
    BY DEF ClickLands, ActingAt
  <2> DEFINE x == Field(c)
             lands == el[x].alive /\ ~el[x].covered /\ el[x].place = acting[c].aim
  <2>2. Aims(c) /\ acting[c] \in ActingRecord /\ ActingTypes
    BY <1>1, StepFrom
  <2>3. lands = TRUE
    BY <2>1, <2>2 DEF Aims
  <2>4. ActionStep(c)
    BY <1>1, <2>1, MovesItself
  <2>5. Click(c) \/ Cancelled(c)
    BY <2>1, <2>4 DEF ActionStep, ActingAt, Start, Locate, Look, Measured, Clicked, PrepareFill,
       Delete, Type, ReadOptions, SelectOption, StatUpload, ReadUpload, SetFiles
  <2>6. CASE Cancelled(c)
    <3>1. Moves(c, [acting[c] EXCEPT !.pc = "cancelled"], {})
      BY <2>6 DEF Cancelled, ProceedsTo, Proceeds
    <3>2. acting'[c].pc = "cancelled"
      BY <2>2, <3>1, FieldIsNamed, ActMoves DEF ActingRecord, ActingPc
    <3>3. QED
      BY <2>1, <3>2
  <2>7. CASE Click(c)
    <3> DEFINE r == [acting[c] EXCEPT !.pc = "clicked", !.hit = TRUE]
    <3>1. PICK touched : Moves(c, [acting[c] EXCEPT !.pc = "clicked", !.hit = lands], touched)
      BY <2>7 DEF Click
    <3> HIDE DEF lands
    <3>2. r.pc = "clicked" /\ r.hit
      BY <2>2 DEF ActingRecord
    <3>3. Moves(c, r, touched)
      BY <2>3, <3>1
    <3>4. acting'[c] = Leaves(r)
      BY <3>3 DEF Moves
    <3>5. QED
      BY <3>2, <3>4 DEF Leaves
  <2>8. QED
    BY <2>5, <2>6, <2>7
<1>2. QED
  BY <1>1, ActHolds, PTL DEF ActionSpec, ClicksWhatItNames, ClickLands

\* A form that failed has filled the fields before the one it names and typed into no
\* other unless its keys strayed; a failed upload has left no file (fill_form, upload_file).
THEOREM FailureNamesTheFieldHolds == ActionSpec => []FailureNamesTheField
<1>1. ASSUME ActInv PROVE FailureNamesTheField
  <2>1. SUFFICES ASSUME NEW c \in Calls, acting[c].pc = "failed"
                 PROVE  /\ acting[c].wrote = 1..(acting[c].at - 1)
                        /\ \A x \in Elements \ {Fields[c][i] : i \in acting[c].wrote} :
                               ~acting[c].strayed => c \notin Range(el[x].text)
                        /\ Tool[c] = "upload_file" =>
                               \A x \in Elements : el[x].files = <<>> \/ el[x].files[1] # c
    BY DEF FailureNamesTheField, ActingAt
  <2>2. GoesThrough(c) /\ OwnsUp(c)
    BY <1>1, StepFrom
  <2>3. QED
    BY <2>1, <2>2 DEF GoesThrough, OwnsUp, Amid
<1>2. QED
  BY <1>1, ActHolds, PTL

\* The fields a call that has ended had measured: those before the one it ended at,
\* and that one if it was.
LEMMA FoundAre ==
    ASSUME ActInv, NEW c \in Calls, Ended(c), IsForm(c)
    PROVE  /\ acting[c].at \in 1..Len(Fields[c]) /\ Len(Fields[c]) \in Nat
           /\ Found(c) = {j \in 1..acting[c].at : j < acting[c].at \/ acting[c].aim # -1}
<1> DEFINE at == acting[c].at
<1>1. at \in 1..Len(Fields[c]) /\ Len(Fields[c]) \in Nat /\ GoesThrough(c) /\ Noting(c)
  BY StepFrom, FieldIsNamed
<1>2. acting[c].pc \in {"done", "failed", "cancelled"}
  BY DEF Ended
<1>3. CASE acting[c].pc = "done"
  <2>1. acting[c].wrote = 1..at /\ acting[c].aim # -1
    BY <1>1, <1>3 DEF GoesThrough, Noting
  <2> HIDE DEF at
  <2>2. 1..at \cup {at} = {j \in 1..at : TRUE}
    BY <1>1
  <2>3. QED
    BY <1>1, <2>1, <2>2 DEF Found, Unset, at
<1>4. CASE acting[c].pc # "done"
  <2>1. acting[c].wrote = 1..(at - 1)
    BY <1>1, <1>4 DEF GoesThrough
  <2> HIDE DEF at
  <2>2. /\ 1..(at - 1) \cup {at} = {j \in 1..at : TRUE}
        /\ 1..(at - 1) = {j \in 1..at : j < at}
    BY <1>1
  <2>3. CASE acting[c].aim = -1
    BY <1>1, <2>1, <2>2, <2>3 DEF Found, Unset, at
  <2>4. CASE acting[c].aim # -1
    BY <1>1, <2>1, <2>2, <2>4 DEF Found, Unset, at
  <2>5. QED
    BY <2>3, <2>4
<1>5. QED
  BY <1>3, <1>4

\* The notes of a call that has ended, as a set.
LEMMA NotesOf ==
    ASSUME ActInv, NEW c \in Calls, Ended(c), IsForm(c)
    PROVE  /\ NotesAre(c, acting[c].notes, acting[c].at, acting[c].aim)
           /\ Range(acting[c].notes) = {acting[c].notes[j] : j \in 1..acting[c].at}
<1>1. Noting(c) /\ acting[c].notes \in Seq(Note) /\ acting[c].pc # "idle"
  BY StepFrom DEF ActingRecord, Ended
<1>2. NotesAre(c, acting[c].notes, acting[c].at, acting[c].aim)
  BY <1>1 DEF Noting
<1>3. DOMAIN acting[c].notes = 1..acting[c].at
  BY <1>1, <1>2, DomainUpTo DEF NotesAre
<1>4. QED
  BY <1>2, <1>3 DEF Range

LEMMA FormRecords ==
    ASSUME ActInv, NEW c \in Calls, Ended(c), Tool[c] = "fill_form"
    PROVE  {Fields[c][i] : i \in InClear(c)} =
               IF c \in Telling THEN {} ELSE {Fields[c][i] : i \in Found(c)} \ Secrets
<1> DEFINE at == acting[c].at
           aim == acting[c].aim
           notes == acting[c].notes
           found == {j \in 1..at : j < at \/ aim # -1}
<1>1. c \notin Telling /\ c \notin Selected
  BY ActionConstants DEF ActionConstants
<1>2. at \in 1..Len(Fields[c]) /\ Len(Fields[c]) \in Nat /\ Found(c) = found
  BY FoundAre DEF IsForm
<1>3. NotesAre(c, notes, at, aim) /\ Range(notes) = {notes[j] : j \in 1..at}
  BY NotesOf DEF IsForm
<1>4. \A j \in 1..at : notes[j].uid = Fields[c][j] /\ notes[j].resolved = (j \in found)
  BY <1>1, <1>3 DEF NotesAre
<1>5. InClear(c) = {i \in 1..Len(Fields[c]) :
                           \E n \in Range(notes) : n.uid = Fields[c][i] /\ n.resolved /\ n.uid \notin Secrets}
  BY <1>1 DEF InClear, IsPlain
<1> HIDE DEF notes, found, at, aim
<1>6. InClear(c) = {i \in 1..Len(Fields[c]) :
                           \E j \in found : Fields[c][j] = Fields[c][i] /\ Fields[c][i] \notin Secrets}
  <2>1. ASSUME NEW i \in 1..Len(Fields[c])
        PROVE  (\E n \in Range(notes) : n.uid = Fields[c][i] /\ n.resolved /\ n.uid \notin Secrets)
               <=> (\E j \in found : Fields[c][j] = Fields[c][i] /\ Fields[c][i] \notin Secrets)
    <3>1. found \subseteq 1..at
      BY DEF found
    <3>2. ASSUME NEW n \in Range(notes), n.uid = Fields[c][i], n.resolved, n.uid \notin Secrets
          PROVE  \E j \in found : Fields[c][j] = Fields[c][i] /\ Fields[c][i] \notin Secrets
      <4>1. PICK j \in 1..at : n = notes[j]
        BY <1>3, <3>2
      <4>2. notes[j].uid = Fields[c][j] /\ notes[j].resolved = (j \in found)
        BY <1>4
      <4>3. Fields[c][j] = Fields[c][i] /\ Fields[c][i] \notin Secrets
        BY <3>2, <4>1, <4>2
      <4>4. j \in found
        BY <3>2, <4>1, <4>2
      <4>5. QED
        BY <4>3, <4>4
    <3>3. ASSUME NEW j \in found, Fields[c][j] = Fields[c][i], Fields[c][i] \notin Secrets
          PROVE  \E n \in Range(notes) : n.uid = Fields[c][i] /\ n.resolved /\ n.uid \notin Secrets
      <4>1. notes[j] \in Range(notes)
        BY <1>3, <3>1, <3>3
      <4>2. notes[j].uid = Fields[c][j] /\ notes[j].resolved = TRUE
        BY <1>4, <3>1, <3>3
      <4>3. QED
        BY <3>3, <4>1, <4>2
    <3>4. QED
      BY <3>2, <3>3
  <2>2. QED
    BY <1>5, <2>1
<1>7. found \subseteq 1..Len(Fields[c])
  BY <1>2 DEF found
<1>8. QED
  BY <1>1, <1>2, <1>6, <1>7

LEMMA FillRecords ==
    ASSUME ActInv, NEW c \in Calls, Ended(c), Tool[c] = "fill"
    PROVE  {Fields[c][i] : i \in InClear(c)} =
               IF c \in Telling THEN {} ELSE {Fields[c][i] : i \in Found(c)} \ Secrets
<1> DEFINE aim == acting[c].aim
           notes == acting[c].notes
<1>1. Len(Fields[c]) = 1
  BY KindsAre
<1>2. acting[c].at = 1
  BY <1>1, FieldIsNamed DEF ActInv
<1>3. Found(c) = {j \in 1..1 : j < 1 \/ aim # -1}
  BY <1>2, FoundAre DEF IsForm
<1>4. Found(c) = IF aim # -1 THEN {1} ELSE {}
  BY <1>3
<1>5. NotesAre(c, notes, 1, aim) /\ Range(notes) = {notes[j] : j \in 1..1}
  BY <1>2, NotesOf DEF IsForm
<1>6. /\ notes[1].resolved = (1 < 1 \/ aim # -1)
      /\ notes[1].uid = IF 1 = 1 /\ aim = -1 /\ c \in Selected THEN "" ELSE Fields[c][1]
  <2>1. 1 \in 1..1
    OBVIOUS
  <2>2. QED
    BY <1>5, <2>1 DEF NotesAre
<1>7. (1 < 1 \/ aim # -1) = (aim # -1)
  OBVIOUS
<1>8. Range(notes) = {notes[1]}
  BY <1>5
<1>9. InClear(c) = {i \in 1..1 : notes[1].resolved /\ notes[1].uid \notin Secrets /\ c \notin Telling}
  BY <1>1, <1>8 DEF InClear, IsPlain
<1> HIDE DEF notes, aim
<1>10. InClear(c) = IF aim # -1 /\ Fields[c][1] \notin Secrets /\ c \notin Telling THEN {1} ELSE {}
  <2>1. CASE aim = -1
    BY <1>6, <1>7, <1>9, <2>1
  <2>2. CASE aim # -1
    <3>1. notes[1].resolved = TRUE /\ notes[1].uid = Fields[c][1]
      BY <1>6, <1>7, <2>2
    <3>2. QED
      BY <1>9, <2>2, <3>1
  <2>3. QED
    BY <2>1, <2>2
<1>11. QED
  BY <1>4, <1>10

\* The record of a fill holds in clear the values of exactly the fields it measured that
\* nothing says are secret, however it ended (redact_args of tools/_secrets.py).
THEOREM RecordsWhatItMayHolds == ActionSpec => []RecordsWhatItMay
<1>1. ActInv => RecordsWhatItMay
  BY FormRecords, FillRecords DEF RecordsWhatItMay
<1>2. QED
  BY <1>1, ActHolds, PTL

\* The steps that tell a field as filled.
LEMMA TellsFilled ==
    ASSUME ActInv, [ActionNext]_actionVars, NEW c \in Calls, acting'[c].wrote # acting[c].wrote
    PROVE  \/ Measured(c) /\ el' = el
              /\ Kind[Field(c)] \notin {"text", "select", "file"} /\ acting[c].checked = Wanted[c]
           \/ Clicked(c) /\ el' = el
           \/ Type(c) /\ acting[c].typed + 1 = Keys
           \/ SelectOption(c) /\ el' = [el EXCEPT ![Field(c)].chosen = 2]
           \/ SetFiles(c) /\ Kind[Field(c)] = "file"
              /\ el' = [el EXCEPT ![Field(c)].files = <<c, acting[c].data>>]
<1>1. ActionStep(c) /\ acting[c] \in ActingRecord
  BY MovesItself, StepFrom
<1>2. ASSUME NEW r, NEW touched, Moves(c, r, touched) PROVE r.wrote # acting[c].wrote
  BY <1>2, TellsSame
<1>3. ASSUME NEW pc, NEW touched PROVE ~Moves(c, [acting[c] EXCEPT !.pc = pc], touched)
  <2>1. [acting[c] EXCEPT !.pc = pc].wrote = acting[c].wrote
    BY <1>1 DEF ActingRecord
  <2>2. QED
    BY <1>2, <2>1
<1>4. ~ActionFails(c) /\ \A pc : ~ProceedsTo(c, pc)
  BY <1>3 DEF ActionFails, ProceedsTo, Proceeds
<1>5. ~Start(c)
  <2>1. ASSUME NEW pc, NEW notes PROVE [acting[c] EXCEPT !.pc = pc, !.notes = notes].wrote = acting[c].wrote
    BY <1>1 DEF ActingRecord
  <2>2. ASSUME NEW pc, NEW notes PROVE ~Moves(c, [acting[c] EXCEPT !.pc = pc, !.notes = notes], {})
    BY <1>2, <2>1
  <2>3. QED
    BY <2>2 DEF Start, Proceeds
<1>6. ~Look(c)
  <2> DEFINE looked == [acting[c] EXCEPT !.prev = el[Field(c)].place, !.still = TRUE,
                                         !.calm = @ \/ ActingAt(c, "probe")]
  <2>1. looked.wrote = acting[c].wrote
    BY <1>1 DEF ActingRecord
  <2>2. Settled(c, looked).wrote = acting[c].wrote
    <3>1. DOMAIN looked = DOMAIN acting[c]
      OBVIOUS
    <3> HIDE DEF looked
    <3>2. "wrote" \in DOMAIN acting[c]
      BY <1>1 DEF ActingRecord
    <3>3. ASSUME NEW pc, NEW aim, NEW notes, NEW checked
          PROVE  /\ [looked EXCEPT !.pc = pc, !.aim = aim].wrote = looked.wrote
                 /\ [looked EXCEPT !.pc = pc, !.notes = notes, !.aim = aim, !.checked = checked].wrote = looked.wrote
                 /\ [looked EXCEPT !.pc = pc].wrote = looked.wrote
      BY <3>1, <3>2
    <3>4. QED
      BY <2>1, <3>3 DEF Settled
  <2>3. ~Moves(c, looked, {}) /\ ~Moves(c, Settled(c, looked), {})
    BY <1>2, <2>1, <2>2
  <2>4. Look(c) => ActionFails(c) \/ Moves(c, looked, {}) \/ Moves(c, Settled(c, looked), {})
    BY DEF Look, Proceeds
  <2>5. QED
    BY <1>4, <2>3, <2>4
<1>7. ~Click(c)
  <2>1. ASSUME NEW lands PROVE [acting[c] EXCEPT !.pc = "clicked", !.hit = lands].wrote = acting[c].wrote
    BY <1>1 DEF ActingRecord
  <2>2. ASSUME NEW lands, NEW touched
        PROVE  ~Moves(c, [acting[c] EXCEPT !.pc = "clicked", !.hit = lands], touched)
    BY <1>2, <2>1
  <2>3. QED
    BY <2>2 DEF Click
<1>8. ~ReadUpload(c)
  <2>1. [acting[c] EXCEPT !.pc = "attach", !.data = disk].wrote = acting[c].wrote
    BY <1>1 DEF ActingRecord
  <2>2. QED
    BY <1>2, <1>4, <2>1 DEF ReadUpload, Proceeds
<1>9. ~Locate(c) /\ ~ReadOptions(c) /\ ~StatUpload(c) /\ ~Cancelled(c)
  BY <1>4 DEF Locate, ReadOptions, StatUpload, Cancelled
<1>10. ~PrepareFill(c) /\ ~Delete(c)
  <2>1. \A pc : [acting[c] EXCEPT !.pc = pc, !.typed = 0].wrote = acting[c].wrote
    BY <1>1 DEF ActingRecord
  <2>2. \A pc : ~Moves(c, [acting[c] EXCEPT !.pc = pc, !.typed = 0], TextFields)
    BY <1>2, <2>1
  <2>3. QED
    BY <1>3, <1>4, <2>2 DEF PrepareFill, Delete
<1>11. ASSUME Measured(c)
       PROVE  el' = el /\ Kind[Field(c)] \notin {"text", "select", "file"} /\ acting[c].checked = Wanted[c]
  <2> DEFINE r == [acting[c] EXCEPT !.prev = -1]
  <2>1. r.checked = acting[c].checked /\ \A pc : [r EXCEPT !.pc = pc].wrote = acting[c].wrote
    BY <1>1 DEF ActingRecord
  <2> HIDE DEF r
  <2>2. \A pc : ~Moves(c, [r EXCEPT !.pc = pc], {})
    BY <1>2, <2>1
  <2>3. /\ el' = el
        /\ \/ ActionFails(c)
           \/ \E pc : Moves(c, [r EXCEPT !.pc = pc], {})
           \/ Kind[Field(c)] \notin {"text", "select", "file"} /\ r.checked = Wanted[c]
    BY <1>11 DEF Measured, Proceeds, PageRests, Unset, r
  <2>4. QED
    BY <1>4, <2>1, <2>2, <2>3
<1>12. Clicked(c) => el' = el
  BY DEF Clicked, PageRests
<1>13. ASSUME SelectOption(c) PROVE el' = [el EXCEPT ![Field(c)].chosen = 2]
  BY <1>3, <1>4, <1>13 DEF SelectOption
<1>14. ASSUME SetFiles(c)
       PROVE  Kind[Field(c)] = "file" /\ el' = [el EXCEPT ![Field(c)].files = <<c, acting[c].data>>]
  BY <1>4, <1>14 DEF SetFiles
<1>15. ASSUME Type(c) PROVE acting[c].typed + 1 = Keys
  <2> DEFINE r == [acting[c] EXCEPT !.typed = @ + 1, !.strayed = @ \/ focus.on # Field(c)]
  <2>1. r.wrote = acting[c].wrote /\ r.typed = acting[c].typed + 1
    BY <1>1 DEF ActingRecord
  <2>2. r.typed = Keys \/ Moves(c, r, {focus.on})
    BY <1>15 DEF Type
  <2> HIDE DEF r
  <2>3. QED
    BY <1>2, <2>1, <2>2
<1>16. QED
  BY <1>1, <1>5, <1>6, <1>7, <1>8, <1>9, <1>10, <1>11, <1>12, <1>13, <1>14, <1>15 DEF ActionStep

\* No value asks for a radio button to be unchecked: a click cannot do that.
NoRadioUnchecked == \A c \in Calls : \A i \in 1..Len(Fields[c]) : Kind[Fields[c][i]] = "radio" => Wanted[c]

FilledSo ==
    \A c \in Calls :
        /\ Tool[c] # "click" /\ acting'[c].wrote # acting[c].wrote
        /\ acting[c].calm /\ (ActingAt(c, "clicked") => acting[c].hit)
        => AsAsked(el', c, Field(c))

\* A field told as filled has what its value asks for unless someone else disturbed it or
\* its click missed (fill, fill_form, upload_file), where no radio is asked to be unchecked.
THEOREM FilledAsAskedHolds ==
    ASSUME NoRadioUnchecked PROVE ActionSpec => FilledAsAsked
<1>1. ASSUME ActInv, [ActionNext]_actionVars PROVE FilledSo
  <2>1. SUFFICES ASSUME NEW c \in Calls, Tool[c] # "click", acting'[c].wrote # acting[c].wrote,
                        acting[c].calm, ActingAt(c, "clicked") => acting[c].hit
                 PROVE  AsAsked(el', c, Field(c))
    BY DEF FilledSo
  <2> DEFINE x == Field(c)
  <2>2. /\ acting[c] \in ActingRecord /\ x \in Elements /\ el \in [Elements -> OnPage] /\ el[x] \in OnPage
        /\ DoesTo(c) /\ Agrees(c)
    BY <1>1, StepFrom DEF ActingTypes
  <2>3. Kind[x] = "radio" => Wanted[c]
    <3>1. acting[c].at \in 1..Len(Fields[c]) /\ x = Fields[c][acting[c].at]
      BY <1>1, StepFrom, FieldIsNamed DEF Field
    <3>2. QED
      BY <3>1 DEF NoRadioUnchecked
  <2>4. ASSUME Measured(c), el' = el, Kind[x] \notin {"text", "select", "file"}, acting[c].checked = Wanted[c]
        PROVE  AsAsked(el', c, x)
    <3>1. el[x].checked = Wanted[c]
      BY <2>1, <2>2, <2>4 DEF Agrees, Measured, ActingAt
    <3>2. QED
      BY <2>4, <3>1 DEF AsAsked
  <2>5. ASSUME Clicked(c), el' = el PROVE AsAsked(el', c, x)
    <3>1. acting[c].pc = "clicked" /\ acting[c].hit /\ Kind[x] \in {"toggle", "radio"}
      BY <2>1, <2>2, <2>5 DEF DoesTo, Clicked, ActingAt
    <3>2. el[x].checked = Wanted[c]
      BY <2>1, <2>2, <2>3, <3>1 DEF Agrees
    <3>3. QED
      BY <2>5, <3>1, <3>2 DEF AsAsked
  <2>6. ASSUME Type(c), acting[c].typed + 1 = Keys PROVE AsAsked(el', c, x)
    <3>1. Kind[x] = "text"
      BY <2>2, <2>6 DEF DoesTo, Type, ActingAt
    <3>2. el'[x].text = Typed(c, Keys)
      BY <1>1, <2>1, <2>6, TypesOn
    <3>3. QED
      BY <3>1, <3>2 DEF AsAsked
  <2>7. ASSUME SelectOption(c), el' = [el EXCEPT ![x].chosen = 2] PROVE AsAsked(el', c, x)
    <3>1. Kind[x] = "select"
      BY <2>2, <2>7 DEF DoesTo, SelectOption, ActingAt
    <3>2. el'[x].chosen = 2
      BY <2>2, <2>7 DEF OnPage
    <3>3. QED
      BY <3>1, <3>2 DEF AsAsked
  <2>8. ASSUME Kind[x] = "file", el' = [el EXCEPT ![x].files = <<c, acting[c].data>>] PROVE AsAsked(el', c, x)
    <3>1. el'[x].files = <<c, acting[c].data>>
      BY <2>2, <2>8 DEF OnPage
    <3>2. QED
      BY <2>8, <3>1 DEF AsAsked
  <2>9. QED
    BY <1>1, <2>1, <2>4, <2>5, <2>6, <2>7, <2>8, TellsFilled
<1>2. QED
  BY <1>1, ActHolds, PTL DEF ActionSpec, FilledAsAsked, FilledSo
=============================================================================
