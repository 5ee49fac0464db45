------------------------------ MODULE NetworkLog ------------------------------
(***************************************************************************)
(* The requests of one tab (sessions/network.py, NetworkMonitor) and its   *)
(* console (sessions/console.py), each in two rings (sessions/log.py,      *)
(* PreservingLog): the live ring holds what the current document asked for *)
(* or wrote, and when the document is replaced what it leaves behind goes  *)
(* to the preserved one.                                                   *)
(*                                                                         *)
(* Requests are announced by the browser's HTTP layer and heard at once;   *)
(* a commit is announced by the content process of the new document and    *)
(* may be heard long after that document's own first requests.  Console    *)
(* messages come from the content process too, in their order.             *)
(*                                                                         *)
(* A document is the number of the navigation that made it, 0 for the blank*)
(* one a tab begins with.  A history move within a document counts as one  *)
(* more, as it does for the log.  An entry is its reqid or msgid, from 1;  *)
(* a ring is the set of those it holds, since both are filled in their     *)
(* order, and evicts its lowest.  0 is None.                               *)
(***************************************************************************)
EXTENDS Integers, Sequences, FiniteSets

CONSTANTS
    MaxEntries,    \* MAX_ENTRIES
    Overlap,       \* the tab may move on before its last commit was heard
    Early,         \* a document that came without a request may ask for
                   \* something before its commit was heard
    MaxRequests,   \* bound: requests of the tab
    MaxMessages,   \* bound: console messages of the tab
    MaxDocuments   \* bound: its navigations

ASSUME NetworkConstants ==
    /\ MaxEntries \in Nat \ {0}
    /\ Overlap \in BOOLEAN
    /\ Early \in BOOLEAN
    /\ MaxRequests \in Nat
    /\ MaxMessages \in Nat
    /\ MaxDocuments \in Nat

VARIABLES
    \* NetworkMonitor and its PreservingLog.
    live,            \* _entries
    preserved,       \* _preserved
    next_id,         \* _next_id
    pending,         \* the entries _pending leads to
    answered,        \* the entries with a status
    last_document,   \* _last_document
    first_document,  \* _first_document_since_rotation
    \* ConsoleMonitor and its PreservingLog.
    console,         \* _entries
    old_console,     \* _preserved
    source,          \* the document that wrote each message heard, by msgid
    \* The browser.
    kind,            \* what a request is for
    of,              \* the document a request is to bring, or is asked for by
    open,            \* requests not answered
    documents,       \* how many navigations began
    navigating,      \* the document the tab waits for, 0 for none
    content,         \* the document it has
    announced,       \* what the content process announced and was not heard yet:
                     \* <<"commit", d>> and <<"console", d>>
    shown            \* the last document whose commit was heard

logVars == <<live, preserved, next_id, pending, answered, last_document, first_document>>
requestVars == <<kind, of, open>>
consoleVars == <<console, old_console, source>>
tabVars == <<documents, navigating, content, announced, shown>>
vars == <<logVars, requestVars, consoleVars, tabVars>>

\* The tab's own document; one of an embed; anything else.
Kind == {"document", "embed", "other"}
Id == 1..MaxRequests
Recorded == 1..(next_id - 1)
Document == 0..MaxDocuments

Init ==
    /\ next_id = 1
    /\ live = {} /\ preserved = {} /\ pending = {} /\ answered = {}
    /\ last_document = 0
    /\ first_document = 0
    /\ console = {} /\ old_console = {} /\ source = <<>>
    /\ kind = [i \in Id |-> "other"]
    /\ of = [i \in Id |-> 0]
    /\ open = {}
    /\ documents = 0
    /\ navigating = 0
    /\ content = 0
    /\ announced = <<>>
    /\ shown = 0

-----------------------------------------------------------------------------
(* What the monitor does with an event. *)

\* What a deque(maxlen=MAX_ENTRIES) keeps of the entries appended to it.
Newest(ring) == {i \in ring : Cardinality({j \in ring : i < j}) < MaxEntries}

\* Fault: only the first of the tab's document requests is remembered.
MarksDocument_First(k) ==
    IF k # "document" \/ first_document # 0 THEN UNCHANGED <<last_document, first_document>>
    ELSE last_document' = next_id /\ first_document' = next_id

\* Only the tab's own document requests count.
MarksDocument(k) ==
    IF k # "document" THEN UNCHANGED <<last_document, first_document>>
    ELSE /\ last_document' = next_id
         /\ first_document' = IF first_document = 0 THEN next_id ELSE first_document

\* _on_request: a request of kind k, for document d or asked for by it.
OnRequest(k, d) ==
    /\ next_id <= MaxRequests
    /\ next_id' = next_id + 1
    /\ live' = Newest(live \cup {next_id})
    /\ pending' = pending \cup {next_id}
    /\ MarksDocument(k)
    /\ kind' = [kind EXCEPT ![next_id] = k]
    /\ of' = [of EXCEPT ![next_id] = d]
    /\ open' = open \cup {next_id}
    /\ UNCHANGED <<preserved, answered>>

\* _on_response and _on_request_failed.
OnAnswer(i) ==
    /\ open' = open \ {i}
    /\ pending' = pending \ {i}
    /\ answered' = IF i \in pending THEN answered \cup {i} ELSE answered
    /\ UNCHANGED <<live, preserved, next_id, last_document, first_document, kind, of>>

\* Fault: a commit retires the whole ring.
Retired_All == live

\* The entries a commit retires.
Retired == {i \in live : first_document # 0 => i <= first_document}

\* Fault: the preserved ring holds one document only.
Rotate_DropsPreserved ==
    /\ live' = live \ Retired
    /\ preserved' = Retired
    /\ pending' = pending \ Retired
    /\ first_document' = 0
    /\ UNCHANGED <<next_id, answered, last_document, requestVars>>

\* _rotate, and PreservingLog.rotate.
Rotate ==
    /\ live' = live \ Retired
    /\ preserved' = Newest(preserved \cup Retired)
    /\ pending' = pending \ Retired
    /\ first_document' = 0
    /\ UNCHANGED <<next_id, answered, last_document, requestVars>>

-----------------------------------------------------------------------------
(* The browser. *)

\* Whether document d was asked for by a request.
Requested(d) == \E i \in Recorded : kind[i] = "document" /\ of[i] = d

\* The commits not heard yet.
Commits == {d \in Document : \E i \in DOMAIN announced : announced[i] = <<"commit", d>>}

\* Whether the tab may move on.
Settled == navigating = 0 /\ Commits = {}

\* The tab asks for another document; one it waited for is given up.
Navigate ==
    /\ documents < MaxDocuments
    /\ Settled \/ Overlap
    /\ documents' = documents + 1
    /\ navigating' = documents'
    /\ OnRequest("document", documents')
    /\ UNCHANGED <<consoleVars, content, announced, shown>>

\* The document asked for is somewhere else: one more request for it.
Redirect ==
    /\ navigating # 0
    /\ last_document \notin open
    /\ OnRequest("document", navigating)
    /\ UNCHANGED <<consoleVars, tabVars>>

\* The document of the tab, or an embed in it, asks for something.
Ask ==
    /\ content # 0
    /\ Early \/ content = shown \/ Requested(content)
    /\ \E k \in Kind \ {"document"} : OnRequest(k, content)
    /\ UNCHANGED <<consoleVars, tabVars>>

\* A script of the document writes to the console.
Write ==
    /\ content # 0
    /\ Len(source) + Len(announced) - Cardinality(Commits) < MaxMessages
    /\ announced' = Append(announced, <<"console", content>>)
    /\ UNCHANGED <<logVars, requestVars, consoleVars, documents, navigating, content, shown>>

Answer ==
    /\ \E i \in open : OnAnswer(i)
    /\ UNCHANGED <<consoleVars, tabVars>>

\* The document the tab waited for is there.
Commit ==
    /\ navigating # 0
    /\ last_document \notin open
    /\ content' = navigating
    /\ announced' = Append(announced, <<"commit", navigating>>)
    /\ navigating' = 0
    /\ UNCHANGED <<logVars, requestVars, consoleVars, documents, shown>>

\* A download, a 204 or an error: there is no document, and no commit.
CommitsNothing ==
    /\ navigating # 0
    /\ last_document \notin open
    /\ navigating' = 0
    /\ UNCHANGED <<logVars, requestVars, consoleVars, documents, content, announced, shown>>

\* about:blank, a data: URL, a move within the document: a commit without a
\* request.
MoveWithoutRequest ==
    /\ documents < MaxDocuments
    /\ Settled \/ Overlap
    /\ documents' = documents + 1
    /\ content' = documents'
    /\ announced' = Append(announced, <<"commit", documents'>>)
    /\ UNCHANGED <<logVars, requestVars, consoleVars, navigating, shown>>

\* The next announcement is heard.
Hears(what) ==
    /\ announced # <<>>
    /\ Head(announced)[1] = what
    /\ announced' = Tail(announced)

\* A message carries no evidence of its document: the whole ring is retired.
RotateConsole ==
    /\ console' = {}
    /\ old_console' = Newest(old_console \cup console)
    /\ UNCHANGED source

\* framenavigated of the main frame.
Navigated ==
    /\ Hears("commit")
    /\ shown' = Head(announced)[2]
    /\ Rotate
    /\ RotateConsole
    /\ UNCHANGED <<documents, navigating, content>>

\* ConsoleMonitor._on_console
OnConsole ==
    /\ Hears("console")
    /\ source' = Append(source, Head(announced)[2])
    /\ console' = Newest(console \cup {Len(source')})
    /\ UNCHANGED <<logVars, requestVars, old_console, documents, navigating, content, shown>>

-----------------------------------------------------------------------------

Next ==
    \/ Navigate \/ Redirect \/ MoveWithoutRequest
    \/ Commit \/ CommitsNothing \/ Navigated
    \/ Ask \/ Answer
    \/ Write \/ OnConsole

Spec == Init /\ [][Next]_vars

-----------------------------------------------------------------------------
(* What the listings may be relied on for. *)

\* Nothing the shown document, or one to come, asked for or wrote is ever taken out
\* of the default listing (network.py:95 "Retire what the replaced document left
\* behind, and only that"), and of the console's, which has no document to come in
\* it, nothing is left in that a replaced one wrote.
RetiresOnlyTheReplaced ==
    /\ \A i \in preserved : kind[i] # "document" => of[i] < shown
    /\ \A m \in old_console : source[m] < shown
    /\ \A m \in console : source[m] = shown

\* A log's entries are in one of its rings each, but for those that made room for as
\* many newer ones.
KeepsAllBut(recorded, ring, old) ==
    /\ ring \cap old = {}
    /\ \A i \in recorded \ (ring \cup old) :
          Cardinality({j \in recorded : i < j}) >= MaxEntries

\* Only the bound of a ring makes an entry go: any other is listed in one of them,
\* and in one only (log.py rotate, find).
OnlyBoundsForget ==
    /\ KeepsAllBut(Recorded, live, preserved)
    /\ KeepsAllBut(DOMAIN source, console, old_console)

\* awaiting_commit()
AwaitingCommit == first_document # 0
AwaitingAnswer == AwaitingCommit /\ last_document \notin answered

\* Whoever waits for a commit waits as long as one is to come, and waits for the
\* answer of a request exactly while it is the newest the tab made for a document
\* and is open (network.py awaiting_commit).
AwaitsEveryCommit ==
    /\ navigating # 0 \/ (\E d \in Commits : Requested(d)) => AwaitingCommit
    /\ AwaitingCommit =>
          \E i \in Recorded :
             /\ kind[i] = "document"
             /\ \A j \in Recorded : kind[j] = "document" => j <= i
             /\ AwaitingAnswer <=> i \in open
=============================================================================
