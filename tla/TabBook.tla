------------------------------- MODULE TabBook -------------------------------
(***************************************************************************)
(* The tabs of a session: the book of their indices and of the active one  *)
(* (sessions/page_book.py, sessions/session.py), and of each tab the       *)
(* dialog that waits for an answer and the stack that go_back returns      *)
(* along (sessions/page.py), under the tools that open, select, close and  *)
(* move tabs and answer dialogs (tools/*.py), any number of them at once.  *)
(*                                                                         *)
(* A tab of the browser is a number, as is a dialog; an index is what the  *)
(* book calls a tab.  A call is at one of its awaits; the browser acts     *)
(* between any two, and the server hears of a dialog some time after it    *)
(* opened.  A call that fails, is cancelled or runs out of its timeout     *)
(* ends at its await, and what it asked of the browser may happen still.   *)
(***************************************************************************)
EXTENDS ToolCalls, Integers, Sequences, FiniteSets

CONSTANTS
    Urls,
    MaxTabs,    \* bound: tabs opened
    MaxDialogs, \* bound: dialogs opened
    Busy,       \* bound: the tabs whose pages show dialogs
    Restless    \* bound: the tabs whose pages move by themselves

ASSUME TabConstants ==
    /\ MaxTabs \in Nat \ {0} /\ MaxDialogs \in Nat /\ Busy \cup Restless \subseteq 1..MaxTabs

VARIABLES
    \* The server.
    pages,   \* _pages: of each index in the book, its tab
    next,    \* _next_index
    active,  \* _active_index
    hist,    \* of each tab: _nav_history
    slot,    \* of each tab: _pending_dialog
    call,    \* what each call is at
    \* The browser.
    opened,  \* the number of tabs opened
    alive,   \* those not closed
    url,     \* of each tab
    dialog,  \* of each tab: the dialog it shows
    news,    \* of each tab: dialogs not heard of yet
    dialogs, \* the number of dialogs opened
    answers, \* the answers sent, each a call and a dialog
    strayed  \* tabs whose stack need not end where they are, for what happened since
             \* the last navigation that was alone with its tab

book == <<pages, next, active>>
browser == <<opened, alive, url, dialog, news, dialogs>>
vars == <<book, hist, slot, call, browser, answers, strayed>>

Tab == 1..MaxTabs
None == -1       \* no index
Nothing == 0     \* no tab, no dialog
Idle == [pc |-> "idle", tool |-> "none", tab |-> Nothing, to |-> "none", dialog |-> Nothing]

At(c, pc) == call[c].pc = pc
Becomes(c, state) == call' = [call EXCEPT ![c] = state]
Goes(c, pc) == Becomes(c, [call[c] EXCEPT !.pc = pc])
Done(c) == Becomes(c, [Idle EXCEPT !.pc = "done"])

\* PageBook.active, of the indices idx: the tab, or Nothing (NoActivePageError).
Active == IF active \in DOMAIN pages THEN pages[active] ELSE Nothing
Lowest(indices) == IF indices = {} THEN None ELSE CHOOSE i \in indices : \A j \in indices : i <= j

\* _open_initial_page: the context comes with one tab.
Init ==
    /\ pages = [i \in {0} |-> 1] /\ next = 1 /\ active = 0
    /\ hist = [t \in Tab |-> <<>>] /\ slot = [t \in Tab |-> Nothing]
    /\ call = [c \in Calls |-> Idle]
    /\ opened = 1 /\ alive = {1}
    /\ url = [t \in Tab |-> "blank"] /\ dialog = [t \in Tab |-> Nothing]
    /\ news = [t \in Tab |-> <<>>] /\ dialogs = 0
    /\ answers = {} /\ strayed = {}

-----------------------------------------------------------------------------
\* PageBook.

Add(tab) ==
    /\ pages' = [j \in DOMAIN pages \cup {next} |-> IF j = next THEN tab ELSE pages[j]]
    /\ next' = next + 1 /\ active' = next

\* Indices are added in ascending order, and so is the first one left.
Remove(i) ==
    LET left == DOMAIN pages \ {i} IN
    /\ pages' = [j \in left |-> pages[j]]
    /\ active' = IF active = i THEN Lowest(left) ELSE active
    /\ UNCHANGED next

-----------------------------------------------------------------------------
\* Page.goto, for the tools that move a tab.

\* The calls moving the tab.
Movers(t) == {c \in Calls : call[c].tab = t /\ call[c].pc \in {"going", "there"}}

\* A return has dropped its entry and is not there yet.
Returning(t) == {c \in Movers(t) : call[c].tool = "go_back" /\ At(c, "going")}

Records(c) == call[c].tool \in {"navigate", "new_page"}

\* A navigation aborts those of the tab that are not there yet, and a return so
\* aborted has left the stack behind.
GoTo(c, tool, t, u) ==
    /\ call' = [d \in Calls |->
           IF d = c THEN [Idle EXCEPT !.pc = "going", !.tool = tool, !.tab = t, !.to = u]
           ELSE IF call[d].tab = t /\ At(d, "going") THEN [call[d] EXCEPT !.pc = "aborted"]
           ELSE call[d]]
    /\ strayed' = IF Returning(t) # {} THEN strayed \cup {t} ELSE strayed

\* The document is loaded, where a redirect may have led.
Lands(c) ==
    /\ At(c, "going") /\ call[c].tab \in alive
    /\ \E u \in IF call[c].tool = "navigate" THEN Urls ELSE {call[c].to} :
           url' = [url EXCEPT ![call[c].tab] = u]
    /\ Goes(c, "there")
    /\ UNCHANGED <<book, hist, slot, opened, alive, dialog, news, dialogs, answers, strayed>>

\* Of a call that is over: what it records while a return is on its way lies on
\* top of the entry the return leads to; a navigation that was alone with its tab
\* makes up for whatever went before.
Settles(c, t) ==
    strayed' = IF ~Records(c) THEN strayed
               ELSE IF Returning(t) # {} THEN strayed \cup {t}
               ELSE IF Movers(t) = {c} THEN strayed \ {t} ELSE strayed

\* Fault: the URL asked for is recorded, not the one arrived at.
Arrives_RecordsRequest(c) ==
    LET t == call[c].tab IN
    /\ At(c, "there")
    /\ hist' = IF Records(c) THEN [hist EXCEPT ![t] = Append(@, call[c].to)] ELSE hist
    /\ Done(c) /\ Settles(c, t)
    /\ UNCHANGED <<book, slot, browser, answers>>

\* The await returns; unless history is being replayed, the tab's URL is recorded.
Arrives(c) ==
    LET t == call[c].tab IN
    /\ At(c, "there")
    /\ hist' = IF Records(c) THEN [hist EXCEPT ![t] = Append(@, url[t])] ELSE hist
    /\ Done(c) /\ Settles(c, t)
    /\ UNCHANGED <<book, slot, browser, answers>>

Navigate(c) ==
    /\ At(c, "idle") /\ Active # Nothing
    /\ \E u \in Urls : GoTo(c, "navigate", Active, u)
    /\ UNCHANGED <<book, hist, slot, browser, answers>>

Reload(c) ==
    /\ At(c, "idle") /\ Active # Nothing
    /\ GoTo(c, "reload", Active, url[Active])
    /\ UNCHANGED <<book, hist, slot, browser, answers>>

\* back_url drops the entry being left before the goto is awaited; with fewer
\* than two entries the tool answers so, and nothing changes.
GoBack(c) ==
    /\ At(c, "idle") /\ Active # Nothing
    /\ LET h == hist[Active] IN
       /\ Len(h) >= 2
       /\ hist' = [hist EXCEPT ![Active] = SubSeq(h, 1, Len(h) - 1)]
       /\ GoTo(c, "go_back", Active, h[Len(h) - 1])
    /\ UNCHANGED <<book, slot, browser, answers>>

-----------------------------------------------------------------------------
\* Opening, selecting and closing tabs.

NewPage(c) ==
    /\ At(c, "idle")
    /\ \E u \in Urls \cup {"none"} :
           Becomes(c, [Idle EXCEPT !.pc = "opening", !.tool = "new_page", !.to = u])
    /\ UNCHANGED <<book, hist, slot, browser, answers, strayed>>

\* Session.new_page, once the context has opened the tab.
Opens(c) ==
    /\ At(c, "opening") /\ opened < MaxTabs
    /\ opened' = opened + 1 /\ alive' = alive \cup {opened + 1}
    /\ Add(opened + 1)
    /\ IF call[c].to = "none" THEN Done(c) /\ UNCHANGED strayed
       ELSE GoTo(c, "new_page", opened + 1, call[c].to)
    /\ UNCHANGED <<hist, slot, url, dialog, news, dialogs, answers>>

\* A cancelled opening leaves a tab that no index names.
OpensUnseen(c) ==
    /\ At(c, "opening") /\ opened < MaxTabs
    /\ opened' = opened + 1 /\ alive' = alive \cup {opened + 1}
    /\ Done(c)
    /\ UNCHANGED <<book, hist, slot, url, dialog, news, dialogs, answers, strayed>>

SelectPage(c) ==
    /\ At(c, "idle")
    /\ \E i \in DOMAIN pages : active' = i
    /\ Done(c)
    /\ UNCHANGED <<pages, next, hist, slot, browser, answers, strayed>>

\* Fault: the tab leaves the book once it is closed.
ClosePage_RemovesLate(c) ==
    /\ At(c, "idle")
    /\ \E i \in DOMAIN pages :
           Becomes(c, [Idle EXCEPT !.pc = "closing", !.tool = "close_page", !.tab = pages[i]])
    /\ UNCHANGED <<book, hist, slot, browser, answers, strayed>>

\* The tab leaves the book before Page.close is awaited.
ClosePage(c) ==
    /\ At(c, "idle")
    /\ \E i \in DOMAIN pages :
           /\ Remove(i)
           /\ Becomes(c, [Idle EXCEPT !.pc = "closing", !.tool = "close_page", !.tab = pages[i]])
    /\ UNCHANGED <<hist, slot, browser, answers, strayed>>

\* The browser closes a tab, with its dialog.
Closes(c) ==
    /\ At(c, "closing")
    /\ alive' = alive \ {call[c].tab}
    /\ dialog' = [dialog EXCEPT ![call[c].tab] = Nothing]
    /\ Done(c)
    /\ UNCHANGED <<book, hist, slot, opened, url, news, dialogs, answers, strayed>>

-----------------------------------------------------------------------------
\* Dialogs.

\* respond_to_dialog takes the dialog before it sends the answer.
Respond(c) ==
    /\ At(c, "idle") /\ Active # Nothing /\ slot[Active] # Nothing
    /\ Becomes(c, [Idle EXCEPT !.pc = "answering", !.tool = "handle_dialog",
                               !.tab = Active, !.dialog = slot[Active]])
    /\ slot' = [slot EXCEPT ![Active] = Nothing]
    /\ answers' = answers \cup {<<c, slot[Active]>>}
    /\ UNCHANGED <<book, hist, browser, strayed>>

\* Fault: an answered call empties the slot, whatever came into it meanwhile.
Answered_EmptiesSlot(c) ==
    /\ At(c, "answering") /\ Done(c)
    /\ slot' = [slot EXCEPT ![call[c].tab] = Nothing]
    /\ UNCHANGED <<book, hist, browser, answers, strayed>>

\* The await returns, with an error if the dialog was gone by then.
Answered(c) ==
    /\ At(c, "answering") /\ Done(c)
    /\ UNCHANGED <<book, hist, slot, browser, answers, strayed>>

\* A dialog blocks its page: the next one opens after it is gone.
DialogOpens(t) ==
    /\ t \in alive \cap Busy /\ dialog[t] = Nothing /\ dialogs < MaxDialogs
    /\ dialogs' = dialogs + 1
    /\ dialog' = [dialog EXCEPT ![t] = dialogs + 1]
    /\ news' = [news EXCEPT ![t] = Append(@, dialogs + 1)]
    /\ UNCHANGED <<book, hist, slot, call, opened, alive, url, answers, strayed>>

\* _on_dialog.
OnDialog(t) ==
    /\ news[t] # <<>>
    /\ slot' = [slot EXCEPT ![t] = Head(news[t])]
    /\ news' = [news EXCEPT ![t] = Tail(@)]
    /\ UNCHANGED <<book, hist, call, opened, alive, url, dialog, dialogs, answers, strayed>>

\* An answer arrives, or a navigation or a user takes the dialog away.
DialogGone(t) ==
    /\ dialog[t] # Nothing
    /\ dialog' = [dialog EXCEPT ![t] = Nothing]
    /\ UNCHANGED <<book, hist, slot, call, opened, alive, url, news, dialogs, answers, strayed>>

-----------------------------------------------------------------------------
\* A call ends in an error, by a timeout or by cancellation.  A return on its
\* way had dropped its entry already, and a navigation that was there is not
\* recorded any more: both leave the stack behind.
Fails(c) ==
    /\ call[c].pc \in {"opening", "going", "aborted", "there", "closing", "answering"}
    /\ Done(c)
    /\ strayed' = IF c \in Returning(call[c].tab) \/ (At(c, "there") /\ Records(c))
                  THEN strayed \cup {call[c].tab} ELSE strayed
    /\ UNCHANGED <<book, hist, slot, browser, answers>>

\* A link, a script, or a navigation whose call is over.
PageMoves(t) ==
    /\ t \in alive \cap Restless
    /\ \E u \in Urls : url' = [url EXCEPT ![t] = u]
    /\ strayed' = strayed \cup {t}
    /\ UNCHANGED <<book, hist, slot, call, opened, alive, dialog, news, dialogs, answers>>

Step(c) ==
    \/ Navigate(c) \/ Reload(c) \/ GoBack(c) \/ Lands(c) \/ Arrives(c)
    \/ NewPage(c) \/ Opens(c) \/ OpensUnseen(c) \/ SelectPage(c) \/ ClosePage(c) \/ Closes(c)
    \/ Respond(c) \/ Answered(c) \/ Fails(c)

Next ==
    \/ \E c \in Calls : Step(c)
    \/ \E t \in Tab : DialogOpens(t) \/ OnDialog(t) \/ DialogGone(t) \/ PageMoves(t)

Spec == Init /\ [][Next]_vars

-----------------------------------------------------------------------------
\* A call never acts on a tab that is being closed, and a session with tabs has
\* an active one: the active index names a tab of the book that no call is at
\* closing, and is none exactly when the book is empty (page_book.py:24).
ActiveIsOpen ==
    /\ active = None <=> DOMAIN pages = {}
    /\ active # None => active \in DOMAIN pages
    /\ \A c \in Calls : At(c, "closing") => \A i \in DOMAIN pages : pages[i] # call[c].tab

\* A page that is blocked by a dialog can be released (page.py:86): a dialog
\* that is open, and that the server has heard of, is the one in the slot of its
\* tab, or its answer has been sent.
DialogCanBeAnswered ==
    \A t \in Tab : dialog[t] # Nothing =>
        \/ \E n \in 1..Len(news[t]) : news[t][n] = dialog[t]
        \/ slot[t] = dialog[t]
        \/ \E c \in Calls : <<c, dialog[t]>> \in answers

\* The stack ends at the URL of its tab between the moves of the tab, as page.py:131
\* says it always does, but for what the code does not make up for until the next
\* navigation of the tab that no other move overlaps: a return that failed or was
\* aborted, a navigation that failed once it had landed or was recorded while a
\* return was on its way, and the moves of the page itself.  Calls that overlap in
\* any other way, and the failures of all others, leave the stack right.
StackEndsHere ==
    \A t \in Tab \ strayed : Movers(t) = {} /\ hist[t] # <<>> => hist[t][Len(hist[t])] = url[t]
=============================================================================
