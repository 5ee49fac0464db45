------------------------- MODULE SettledObservation -------------------------
(***************************************************************************)
(* What a tool call tells of the tab it leaves behind: the observation it  *)
(* was asked for (tools/_settled_observation.py) and the "[page]" line     *)
(* (tools/_page_line.py), both appended by the wrapper of every tool       *)
(* (tools/_base.py) once the tool's body has returned, while the browser   *)
(* requests, answers and commits navigations on its own time.              *)
(*                                                                         *)
(* One tab.  A document is the number of its request, a URL and a title    *)
(* are values; an action moves the tab by a request, by history.pushState  *)
(* or not at all, before or after its body returns.  Every wait of the     *)
(* code polls: a poll is one action, and a budget may run out at any poll  *)
(* at which the code lets it end.                                          *)
(***************************************************************************)
EXTENDS ToolCalls, Integers

CONSTANTS
    ToolOf,    \* of a call: "click" (or click_at, fill), "press" (any tool that
               \* moves the tab and tells nothing), "back" (or reload), "navigate"
    Addresses, \* URLs
    Titles,
    Serial,    \* bound: one call at a time
    MaxReq     \* bound: requests of documents

ASSUME ObservationConstants ==
    /\ ToolOf \in [Calls -> {"click", "press", "back", "navigate"}]
    /\ Serial \in BOOLEAN /\ MaxReq \in Nat
    /\ "none" \notin Addresses \cup Titles

VARIABLES
    tab,       \* the browser's, as the server has heard of it: url, doc and title
    nav,       \* the navigation under way, and the one whose commit is late
    req,       \* last_document_reqid
    shown_url, \* Page.shown_url
    doc_mark,  \* Page.doc_mark
    told,      \* the URL the agent was last shown, and whether the baseline could
               \* follow: the tab was still there when the code last looked
    telling    \* what each call is at

observationVars == <<tab, nav, req, shown_url, doc_mark, told, telling>>

NoUrl == "none"    \* no URL
NoMark == -1       \* no request id
NoTitle == "none"  \* no title
\* heard: the monitor takes it to be under way.  late: an earlier document, its
\* URL and its number, that was committed before this one was requested, but will
\* be heard of after.
NoNav == [req |-> NoMark, url |-> NoUrl, answered |-> TRUE, dead |-> TRUE, heard |-> FALSE,
          late |-> <<NoUrl, NoMark>>]
Settling == {"click"}                               \* SETTLING_TOOLS
PageContext == Settling \cup {"back", "navigate"}   \* PAGE_CONTEXT_TOOLS

Untold == [pc |-> "idle", observe |-> FALSE, led |-> NoUrl, asked |-> NoUrl,
           since |-> NoMark,                          \* req when this attempt started
           mark |-> NoMark, expected |-> NoUrl, long |-> FALSE,      \* settled_url
           heard |-> NoMark, gaveUp |-> FALSE,        \* _committed: req when it began
           tries |-> 0, before |-> <<NoUrl, NoMark>>, from |-> NoTitle,
           leaving |-> FALSE,                         \* the page read was being left
           block |-> NoTitle,                         \* the title of the page observed
           says |-> {}, last |-> NoUrl,               \* the URLs of the result
           line |-> FALSE]                            \* it carries a "[page]" line

ObservationInit ==
    /\ \E u \in Addresses, t \in Titles : tab = [url |-> u, doc |-> 0, title |-> t]
    /\ told = [url |-> NoUrl, fresh |-> TRUE] /\ nav = NoNav /\ req = 0
    /\ shown_url = NoUrl /\ doc_mark = NoMark
    /\ telling = [c \in Calls |-> Untold]

TellingAt(c, pc) == telling[c].pc = pc
Sets(c, new) == telling' = [telling EXCEPT ![c] = new]
Ends(c, line) ==
    telling' = [telling EXCEPT ![c] = [Untold EXCEPT !.pc = "done", !.led = telling[c].led, !.line = line]]
\* What is left of a call that has no page to read any more.
Rest(c) ==
    LET r == telling[c] IN
    [Untold EXCEPT !.pc = "line", !.led = r.led, !.asked = r.asked, !.last = r.last, !.says = r.says]
Running(c) == telling[c].pc \notin {"idle", "done"}

\* awaiting_commit: a document was requested since a navigation was last heard.
Pending == nav.heard

-----------------------------------------------------------------------------
\* The browser.

\* The request of a document, heard.  It aborts the one under way, but for one
\* that was committed already.
Requests(u) ==
    /\ req < MaxReq /\ req' = req + 1
    /\ \E late \in {nav.late} \cup IF nav.answered /\ ~nav.dead THEN {<<nav.url, nav.req>>} ELSE {} :
           nav' = [req |-> req + 1, url |-> u, answered |-> FALSE, dead |-> FALSE, heard |-> TRUE, late |-> late]

\* framenavigated, for another move than the navigation under way: the log is
\* rotated all the same (_rotate), and nothing is taken to be pending any more.
Passes(u, doc) ==
    /\ tab' = [tab EXCEPT !.url = u, !.doc = doc]
    /\ nav' = [nav EXCEPT !.heard = FALSE]
    /\ UNCHANGED req

\* The page does what an action asks of it.
Led(c) ==
    /\ telling[c].led # NoUrl
    /\ \/ Requests(telling[c].led) /\ UNCHANGED tab
       \/ ToolOf[c] \in {"click", "press"} /\ Passes(telling[c].led, tab.doc)
    /\ Sets(c, [telling[c] EXCEPT !.led = NoUrl])
    /\ UNCHANGED <<shown_url, doc_mark, told>>

\* A script of the page, or a redirect of its server.
Hop ==
    /\ \E u \in Addresses :
           \/ Requests(u) /\ UNCHANGED tab
           \/ u # tab.url /\ Passes(u, tab.doc)
    /\ UNCHANGED <<shown_url, doc_mark, told, telling>>

\* A script or a document that loads sets the title.
Retitled ==
    /\ \E t \in Titles : tab' = [tab EXCEPT !.title = t]
    /\ UNCHANGED <<nav, req, shown_url, doc_mark, told, telling>>

\* A response; that of a download or a 204 is never committed.
Answer ==
    /\ nav # NoNav /\ ~nav.answered
    /\ \E dead \in BOOLEAN : nav' = [nav EXCEPT !.answered = TRUE, !.dead = dead]
    /\ UNCHANGED <<tab, req, shown_url, doc_mark, told, telling>>

Commit ==
    /\ nav # NoNav /\ nav.answered /\ ~nav.dead
    /\ tab' = [tab EXCEPT !.url = nav.url, !.doc = nav.req]
    /\ nav' = NoNav
    /\ UNCHANGED <<req, shown_url, doc_mark, told, telling>>

\* The commit comes from the page's process, requests from the network's.
LateCommit ==
    /\ nav.late[1] # NoUrl
    /\ tab' = [tab EXCEPT !.url = nav.late[1], !.doc = nav.late[2]]
    /\ nav' = [nav EXCEPT !.heard = FALSE, !.late = <<NoUrl, NoMark>>]
    /\ UNCHANGED <<req, shown_url, doc_mark, told, telling>>

Browser == Hop \/ Retitled \/ Answer \/ Commit \/ LateCommit \/ \E c \in Calls : Led(c)
BrowserRests == UNCHANGED <<tab, nav, req>>

-----------------------------------------------------------------------------
\* The body of a tool.

\* The baseline is seeded, the mark of an action refreshed.
NotePage(c) ==
    /\ shown_url' = IF shown_url = NoUrl THEN tab.url ELSE shown_url
    /\ doc_mark' = IF ToolOf[c] \in Settling THEN req ELSE doc_mark

BodyStarts(c) ==
    /\ TellingAt(c, "idle")
    /\ Serial => \A d \in Calls : ~Running(d)
    /\ NotePage(c)
    /\ \E u \in Addresses \cup {NoUrl}, observe \in BOOLEAN :
           /\ ToolOf[c] \in {"back", "navigate"} => u # NoUrl
           /\ observe => ToolOf[c] \in {"click", "navigate"}   \* observe="snapshot"
           /\ Sets(c, [telling[c] EXCEPT !.pc = "body", !.led = u, !.observe = observe, !.since = req,
                                         !.asked = IF ToolOf[c] = "navigate" THEN u ELSE NoUrl])
    /\ BrowserRests /\ UNCHANGED told

\* An event is acknowledged before what it leads to; a goto returns once a
\* document it asked for has loaded, and navigate then says its URL.
BodyEnds(c) ==
    /\ TellingAt(c, "body")
    /\ ToolOf[c] \in {"back", "navigate"} => telling[c].led = NoUrl /\ tab.doc > telling[c].since
    /\ LET url == IF ToolOf[c] = "navigate" THEN tab.url ELSE NoUrl IN
       Sets(c, [telling[c] EXCEPT !.pc = IF telling[c].observe THEN "observe" ELSE "line",
                                  !.last = url, !.says = {url} \ {NoUrl}])
    /\ BrowserRests /\ UNCHANGED <<shown_url, doc_mark, told>>

\* A failed body, or a call cancelled: an error, decorated with nothing.  The
\* observation spends the mark even so.
ToolFails(c) ==
    /\ Running(c)
    /\ Ends(c, FALSE)
    /\ doc_mark' = IF TellingAt(c, "settle") /\ telling[c].observe THEN NoMark ELSE doc_mark
    /\ BrowserRests /\ UNCHANGED <<shown_url, told>>

-----------------------------------------------------------------------------
\* The "[page]" line, and the end of the result.

\* Of the code's last look at the tab, and of the line if there is one.
Named(c, url, line) == IF line THEN url ELSE telling[c].last
Shows(last, fresh) == told' = IF last = NoUrl THEN told ELSE [url |-> last, fresh |-> fresh]

\* Fault: the baseline follows the tab, whether or not the result says where it is.
Finish_AlwaysRebases(c, url, line) ==
    /\ shown_url' = url
    /\ Shows(Named(c, url, line), Named(c, url, line) = url)
    /\ Ends(c, line)

\* Fault: only the line moves the baseline, not the tool's own output.
Finish_OnlyByLine(c, url, line) ==
    /\ shown_url' = IF line THEN url ELSE shown_url
    /\ Shows(Named(c, url, line), Named(c, url, line) = url)
    /\ Ends(c, line)

Finish(c, url, line) ==
    /\ shown_url' = IF line \/ url \in telling[c].says THEN url ELSE shown_url
    /\ Shows(Named(c, url, line), Named(c, url, line) = url)
    /\ Ends(c, line)

\* The line is due where the tab is not where it is expected; its title is awaited.
Compare(c, expected) ==
    IF ToolOf[c] \in PageContext /\ tab.url # expected
    THEN Sets(c, [telling[c] EXCEPT !.pc = "title", !.expected = tab.url]) /\ UNCHANGED <<shown_url, told>>
    ELSE Finish(c, tab.url, FALSE)

Waits(c, expected) == ToolOf[c] \in Settling /\ expected # NoUrl /\ doc_mark # NoMark

\* page_context_suffix: settled_url, which may wait, and the comparison.
Line(c) ==
    LET expected == IF ToolOf[c] = "navigate" THEN telling[c].asked ELSE shown_url IN
    /\ TellingAt(c, "line")
    /\ IF Waits(c, expected)
       THEN /\ Sets(c, [telling[c] EXCEPT !.pc = "settle", !.mark = doc_mark, !.expected = expected,
                                          !.observe = FALSE])
            /\ UNCHANGED <<shown_url, told>>
       ELSE Compare(c, expected)
    /\ BrowserRests /\ UNCHANGED doc_mark

\* The observation is headed by this line, title and all.
Observed(c, url, title) == telling[c].block # NoTitle /\ telling[c].block = title /\ telling[c].last = url

\* The title, of whatever document the tab holds by now.  A line that the result
\* carries already is not said twice.
Titled(c) ==
    /\ TellingAt(c, "title")
    /\ Finish(c, telling[c].expected, ~Observed(c, telling[c].expected, tab.title))
    /\ BrowserRests /\ UNCHANGED doc_mark

\* Neither attempt finds the title: no line, and no new baseline even where the
\* result names the URL.
TitleFails(c) ==
    /\ TellingAt(c, "title")
    /\ Shows(telling[c].last, FALSE) /\ Ends(c, FALSE)
    /\ BrowserRests /\ UNCHANGED <<shown_url, doc_mark>>

-----------------------------------------------------------------------------
\* settled_observation.

\* _settled_document: wait as the line does, which spends the mark.
Observe(c) ==
    /\ TellingAt(c, "observe")
    /\ IF Waits(c, shown_url)
       THEN /\ Sets(c, [telling[c] EXCEPT !.pc = "settle", !.mark = doc_mark, !.expected = shown_url])
            /\ UNCHANGED doc_mark
       ELSE Sets(c, [telling[c] EXCEPT !.pc = "ready", !.mark = doc_mark]) /\ doc_mark' = NoMark
    /\ BrowserRests /\ UNCHANGED <<shown_url, told>>

\* A poll sees the request of a document: the budget is the longer one.
SettleExtends(c) ==
    /\ TellingAt(c, "settle") /\ tab.url = telling[c].expected
    /\ ~telling[c].long /\ req > telling[c].mark
    /\ Sets(c, [telling[c] EXCEPT !.long = TRUE])
    /\ BrowserRests /\ UNCHANGED <<shown_url, doc_mark, told>>

\* The URL moves, or the budget is over.
SettleEnds(c) ==
    /\ TellingAt(c, "settle")
    /\ tab.url # telling[c].expected \/ telling[c].long \/ req <= telling[c].mark
    /\ IF telling[c].observe
       THEN Sets(c, [telling[c] EXCEPT !.pc = "ready"]) /\ doc_mark' = NoMark /\ UNCHANGED <<shown_url, told>>
       ELSE Compare(c, telling[c].expected) /\ UNCHANGED doc_mark
    /\ BrowserRests

\* Fault: a navigation is waited for only until its URL or its budget says so.
Ready_SkipsCommit(c) ==
    /\ TellingAt(c, "ready")
    /\ Sets(c, [telling[c] EXCEPT !.pc = "build",
                                  !.heard = IF telling[c].mark = NoMark THEN NoMark ELSE req])
    /\ BrowserRests /\ UNCHANGED <<shown_url, doc_mark, told>>

\* _document_ready has waited out DOMContentLoaded: on to _committed, where the
\* call had a mark.
Ready(c) ==
    /\ TellingAt(c, "ready")
    /\ Sets(c, [telling[c] EXCEPT !.pc = IF telling[c].mark = NoMark THEN "build" ELSE "commit",
                                  !.heard = IF telling[c].mark = NoMark THEN NoMark ELSE req])
    /\ BrowserRests /\ UNCHANGED <<shown_url, doc_mark, told>>

\* _committed: the commit, or the end of either of its budgets.
Committed(c) ==
    /\ TellingAt(c, "commit")
    /\ Sets(c, [telling[c] EXCEPT !.pc = "build",
                                  !.gaveUp = telling[c].gaveUp \/ (req > telling[c].mark /\ Pending)])
    /\ BrowserRests /\ UNCHANGED <<shown_url, doc_mark, told>>

\* A navigation of this attempt, requested before its wait for commits began, is
\* still under way as the page is read.
BeingLeft(c) ==
    /\ telling[c].since < nav.req /\ nav.req <= telling[c].heard
    /\ ~nav.dead     \* an answer that is never committed
    /\ nav.heard     \* another move of the tab, taken for its commit

\* _document_ready again: read the page, or give up after two attempts.
Read(c) ==
    /\ TellingAt(c, "build")
    /\ Sets(c, IF telling[c].tries = 2 THEN Rest(c)
               ELSE [telling[c] EXCEPT !.pc = "read", !.before = <<tab.url, req>>, !.from = tab.title,
                                       !.leaving = BeingLeft(c), !.tries = @ + 1])
    /\ BrowserRests /\ UNCHANGED <<shown_url, doc_mark, told>>

\* The page was read at some instant of the evaluation; the observation stands
\* if the tab did not move and asked for no document meanwhile.
ReadEnds(c) ==
    LET r == telling[c] IN
    /\ TellingAt(c, "read")
    /\ IF <<tab.url, req>> = r.before
       THEN \E title \in {r.from, tab.title} :
                Sets(c, [Rest(c) EXCEPT !.block = title, !.last = tab.url, !.says = @ \cup {tab.url},
                                        !.leaving = r.leaving, !.gaveUp = r.gaveUp])
       ELSE Sets(c, [r EXCEPT !.pc = "commit", !.mark = r.before[2], !.since = r.before[2], !.heard = req])
    /\ BrowserRests /\ UNCHANGED <<shown_url, doc_mark, told>>

\* An evaluation that fails leaves a note, and no observation.
ReadFails(c) ==
    /\ TellingAt(c, "read")
    /\ Sets(c, Rest(c))
    /\ BrowserRests /\ UNCHANGED <<shown_url, doc_mark, told>>

TellingStep(c) ==
    \/ BodyStarts(c) \/ BodyEnds(c) \/ ToolFails(c)
    \/ Observe(c) \/ SettleExtends(c) \/ SettleEnds(c) \/ Ready(c) \/ Committed(c)
    \/ Read(c) \/ ReadEnds(c) \/ ReadFails(c)
    \/ Line(c) \/ Titled(c) \/ TitleFails(c)

ObservationNext == Browser \/ \E c \in Calls : TellingStep(c)
ObservationSpec == ObservationInit /\ [][ObservationNext]_observationVars

-----------------------------------------------------------------------------
\* An observation that stands does not describe a page left behind: a
\* navigation requested after the call began (for the second attempt, after the
\* first did) and before its wait for commits began was no longer under way when
\* the page was read (_settled_observation.py:30, "an observation waits for the
\* commit"), unless that wait used up a budget, the answer was one that is never
\* committed, or another move of the tab was heard of in between, which the
\* monitor takes for the commit (network.py:126).
ReadsWhereItLed == \A c \in Calls : telling[c].block # NoTitle => telling[c].gaveUp \/ ~telling[c].leaving

\* A "[page]" line tells the agent something new (_page_line.py:3, "the tab is not
\* where the agent was last shown"): it is not the one the observation of the same
\* result carries, and its URL is not the one that the last result to name one gave,
\* unless the baseline could not follow that.  Only a navigate reports against the
\* URL it was asked for.
LineIsNews ==
    [][\A c \in Calls : telling'[c].line # telling[c].line =>
           /\ telling[c].block # NoTitle => <<told'.url, tab.title>> # <<telling[c].last, telling[c].block>>
           /\ ToolOf[c] # "navigate" /\ told.fresh => told'.url # told.url]_observationVars

\* Nothing is lost, only deferred (_page_line.py:59): between calls the baseline
\* that the next action's URL is compared with is what the agent was last shown,
\* unless the tab had left that by the time the result ended, or its title could
\* not be had for the line.
BaselineIsTold ==
    (\A c \in Calls : ~Running(c)) /\ told.fresh => told.url \in {NoUrl, shown_url}
=============================================================================
