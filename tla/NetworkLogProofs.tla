--------------------------- MODULE NetworkLogProofs ---------------------------
(***************************************************************************)
(* Only the bound of a ring makes an entry go, a commit is awaited while   *)
(* one is to come, and it retires nothing of the document that it brings:  *)
(* for any number of entries, requests, messages and documents.            *)
(*                                                                         *)
(* The first needs the types alone.  The other two rest on the tab: at     *)
(* most one commit is on its way, what the content process announced       *)
(* before it is the shown document's and what it announced after it the    *)
(* next one's, and _first_document_since_rotation parts the requests of    *)
(* the one from those of the other.                                        *)
(***************************************************************************)
EXTENDS NetworkLog, FiniteSetTheorems, SequenceTheorems, TLAPS

Announcement == {"commit", "console"} \X Document

LogTypes ==
    /\ next_id \in Nat \ {0} /\ next_id <= MaxRequests + 1
    /\ live \subseteq Recorded /\ preserved \subseteq Recorded
    /\ pending \subseteq Recorded /\ answered \subseteq Recorded /\ open \subseteq Recorded
    /\ last_document \in {0} \cup Recorded /\ first_document \in {0} \cup Recorded
    /\ kind \in [Id -> Kind] /\ of \in [Id -> Document]

ConsoleTypes ==
    /\ source \in Seq(Document)
    /\ console \subseteq DOMAIN source /\ old_console \subseteq DOMAIN source

TabTypes ==
    /\ documents \in Document /\ navigating \in Document
    /\ content \in Document /\ shown \in Document
    /\ announced \in Seq(Announcement)

TypeOK == LogTypes /\ ConsoleTypes /\ TabTypes

-----------------------------------------------------------------------------
(* The tab. *)

IsCommit(i) == announced[i][1] = "commit"

\* The commit on its way is of the document the tab has, after the shown one;
\* what was written is of the one or the other, as it was before or after.
TabOK ==
    /\ shown <= content /\ content <= documents
    /\ navigating # 0 => navigating = documents /\ content < documents /\ content = shown
    /\ content # shown => \E i \in DOMAIN announced : IsCommit(i)
    /\ \A i \in DOMAIN announced :
          /\ IsCommit(i) => announced[i][2] = content /\ shown < content
          /\ ~IsCommit(i) => announced[i][2] \in {shown, content}
          /\ \A j \in DOMAIN announced : IsCommit(j) =>
                /\ IsCommit(i) => i = j
                /\ i < j => announced[i][2] = shown
                /\ j < i => announced[i][2] = content

-----------------------------------------------------------------------------
(* The requests. *)

IsDocument(i) == kind[i] = "document"

\* The marks are of the document requests, the last one of the newest, which
\* a commit to come has not made the ring forget.
MarksOK ==
    /\ \A i \in Recorded : of[i] <= documents
    /\ \A i \in Recorded : ~IsDocument(i) => of[i] <= content
    /\ last_document # 0 => IsDocument(last_document)
    /\ \A i \in Recorded : IsDocument(i) => i <= last_document
    /\ first_document # 0 => IsDocument(first_document) /\ last_document # 0
    /\ open \cap answered = {}
    /\ first_document # 0 =>
          \/ last_document \in open /\ last_document \in pending
          \/ last_document \in answered
    /\ navigating # 0 => first_document # 0
    /\ content # shown /\ Requested(content) => first_document # 0

\* What was asked for before the first document request, or with none at all,
\* is of the shown document or of one before it.
PartedOK ==
    \A i \in Recorded : ~IsDocument(i) /\ (first_document # 0 => i < first_document) => of[i] <= shown

-----------------------------------------------------------------------------
(* Types. *)

LEMMA RequestTypes ==
    ASSUME NetworkConstants, LogTypes, NEW k \in Kind, NEW d \in Document, OnRequest(k, d)
    PROVE  /\ LogTypes'
           /\ next_id \in Id /\ Recorded' = Recorded \cup {next_id} /\ next_id \notin Recorded
           /\ kind' = [kind EXCEPT ![next_id] = k] /\ of' = [of EXCEPT ![next_id] = d]
           /\ \A i \in Recorded : i < next_id /\ i \in Id
<1>1. next_id \in Nat \ {0} /\ next_id <= MaxRequests /\ MaxRequests \in Nat /\ next_id' = next_id + 1
  BY DEF OnRequest, LogTypes, NetworkConstants
<1>2. /\ next_id \in Id /\ Recorded' = Recorded \cup {next_id} /\ next_id \notin Recorded
      /\ \A i \in Recorded : i < next_id /\ i \in Id
  BY <1>1 DEF Recorded, Id
<1>3. kind' \in [Id -> Kind] /\ of' \in [Id -> Document]
  BY <1>2 DEF OnRequest, LogTypes
<1>4. live' \subseteq Recorded' /\ pending' \subseteq Recorded' /\ open' \subseteq Recorded'
      /\ preserved' \subseteq Recorded' /\ answered' \subseteq Recorded'
  BY <1>2 DEF OnRequest, Newest, LogTypes
<1>5. last_document' \in {0} \cup Recorded' /\ first_document' \in {0} \cup Recorded'
  <2>1. CASE k # "document"
    BY <1>2, <2>1 DEF OnRequest, MarksDocument, LogTypes
  <2>2. CASE k = "document"
    BY <1>2, <2>2 DEF OnRequest, MarksDocument, LogTypes
  <2>3. QED
    BY <2>1, <2>2
<1>6. next_id' \in Nat \ {0} /\ next_id' <= MaxRequests + 1
  BY <1>1
<1>7. LogTypes'
  BY <1>3, <1>4, <1>5, <1>6 DEF LogTypes
<1>8. QED
  BY <1>2, <1>7 DEF OnRequest

LEMMA AnswerTypes ==
    ASSUME LogTypes, NEW i \in open, OnAnswer(i)
    PROVE  LogTypes' /\ Recorded' = Recorded
<1>1. Recorded' = Recorded
  BY DEF OnAnswer, Recorded
<1>2. open' \subseteq Recorded /\ pending' \subseteq Recorded /\ answered' \subseteq Recorded
  BY DEF OnAnswer, LogTypes
<1>3. QED
  BY <1>1, <1>2 DEF OnAnswer, LogTypes

LEMMA RotateTypes ==
    ASSUME LogTypes, Rotate
    PROVE  LogTypes' /\ Recorded' = Recorded
<1>1. Recorded' = Recorded
  BY DEF Rotate, Recorded
<1>2. live' \subseteq Recorded /\ preserved' \subseteq Recorded /\ pending' \subseteq Recorded
  BY DEF Rotate, LogTypes, Newest, Retired
<1>3. QED
  BY <1>1, <1>2 DEF Rotate, LogTypes, requestVars

\* What is heard comes first, and the rest moves up.
LEMMA HeardOne ==
    ASSUME TabTypes, NEW what, Hears(what)
    PROVE  /\ Len(announced) \in Nat /\ DOMAIN announced = 1..Len(announced)
           /\ 1 \in DOMAIN announced /\ Head(announced) = announced[1]
           /\ announced[1] = <<what, announced[1][2]>>
           /\ announced[1][2] \in Document
           /\ announced' \in Seq(Announcement) /\ Len(announced') = Len(announced) - 1
           /\ DOMAIN announced' = 1..Len(announced) - 1
           /\ \A i \in DOMAIN announced' : i + 1 \in DOMAIN announced /\ announced'[i] = announced[i + 1]
<1>1. announced \in Seq(Announcement) /\ announced # <<>> /\ announced' = Tail(announced)
      /\ Head(announced)[1] = what
  BY DEF TabTypes, Hears
<1>2. /\ Len(announced) \in Nat /\ DOMAIN announced = 1..Len(announced)
      /\ Len(announced) # 0 /\ Head(announced) = announced[1]
  BY <1>1, LenProperties, EmptySeq
<1>3. 1 \in DOMAIN announced /\ announced[1] \in Announcement
  BY <1>1, <1>2, ElementOfSeq
<1>4. announced[1] = <<what, announced[1][2]>> /\ announced[1][2] \in Document
  BY <1>1, <1>2, <1>3 DEF Announcement
<1>5. /\ announced' \in Seq(Announcement) /\ Len(announced') = Len(announced) - 1
      /\ \A i \in 1..Len(announced) - 1 : announced'[i] = announced[i + 1]
  BY <1>1, HeadTailProperties
<1>6. DOMAIN announced' = 1..Len(announced) - 1
  BY <1>5, LenProperties
<1>7. QED
  BY <1>2, <1>3, <1>4, <1>5, <1>6

LEMMA AnnouncedOne ==
    ASSUME TabTypes, NEW a \in Announcement, announced' = Append(announced, a)
    PROVE  /\ announced' \in Seq(Announcement)
           /\ Len(announced) \in Nat /\ DOMAIN announced = 1..Len(announced)
           /\ DOMAIN announced' = 1..Len(announced) + 1
           /\ announced'[Len(announced) + 1] = a
           /\ \A i \in DOMAIN announced : announced'[i] = announced[i]
<1>1. announced \in Seq(Announcement)
  BY DEF TabTypes
<1>2. QED
  BY <1>1, AppendProperties, LenProperties

LEMMA MessageTypes ==
    ASSUME ConsoleTypes, NEW d \in Document, source' = Append(source, d)
    PROVE  /\ source' \in Seq(Document)
           /\ Len(source) \in Nat /\ DOMAIN source = 1..Len(source)
           /\ Len(source') = Len(source) + 1 /\ DOMAIN source' = 1..Len(source) + 1
           /\ source'[Len(source) + 1] = d
           /\ \A m \in DOMAIN source : source'[m] = source[m]
<1>1. source \in Seq(Document)
  BY DEF ConsoleTypes
<1>2. QED
  BY <1>1, AppendProperties, LenProperties

LEMMA TypesKept ==
    ASSUME NetworkConstants, TypeOK, [Next]_vars
    PROVE  TypeOK'
<1> USE DEF TypeOK
<1>1. ASSUME UNCHANGED logVars, UNCHANGED requestVars PROVE LogTypes'
  BY <1>1 DEF LogTypes, logVars, requestVars, Recorded
<1>2. ASSUME UNCHANGED consoleVars PROVE ConsoleTypes'
  BY <1>2 DEF ConsoleTypes, consoleVars
<1>3. 0 \in Document /\ MaxDocuments \in Nat
      /\ \A n \in Document : n < MaxDocuments => n + 1 \in Document
  BY DEF Document, NetworkConstants
<1>4. CASE UNCHANGED vars
  <2>1. TabTypes'
    BY <1>4 DEF vars, tabVars, TabTypes
  <2>2. QED
    BY <1>1, <1>2, <1>4, <2>1 DEF vars
<1>5. CASE Navigate
  <2>1. documents' \in Document
    BY <1>3, <1>5 DEF Navigate, TabTypes
  <2>2. LogTypes'
    BY <1>5, <2>1, RequestTypes DEF Navigate, Kind
  <2>3. TabTypes'
    BY <1>5, <2>1 DEF Navigate, TabTypes
  <2>4. QED
    BY <1>2, <1>5, <2>2, <2>3 DEF Navigate
<1>6. CASE Redirect
  <2>1. LogTypes'
    BY <1>6, RequestTypes DEF Redirect, Kind, TabTypes
  <2>2. TabTypes'
    BY <1>6 DEF Redirect, TabTypes, tabVars
  <2>3. QED
    BY <1>2, <1>6, <2>1, <2>2 DEF Redirect
<1>7. CASE Ask
  <2>1. LogTypes'
    BY <1>7, RequestTypes DEF Ask, TabTypes
  <2>2. TabTypes'
    BY <1>7 DEF Ask, TabTypes, tabVars
  <2>3. QED
    BY <1>2, <1>7, <2>1, <2>2 DEF Ask
<1>8. CASE Answer
  <2>1. LogTypes'
    BY <1>8, AnswerTypes DEF Answer
  <2>2. TabTypes'
    BY <1>8 DEF Answer, TabTypes, tabVars
  <2>3. QED
    BY <1>2, <1>8, <2>1, <2>2 DEF Answer
<1>9. CASE Write \/ Commit \/ CommitsNothing \/ MoveWithoutRequest
  <2>1. documents' \in Document /\ navigating' \in Document /\ content' \in Document /\ shown' \in Document
    BY <1>3, <1>9 DEF Write, Commit, CommitsNothing, MoveWithoutRequest, TabTypes
  <2>2. announced' \in Seq(Announcement)
    <3>1. \A d \in Document : <<"commit", d>> \in Announcement /\ <<"console", d>> \in Announcement
      BY DEF Announcement
    <3>2. \/ UNCHANGED announced
          \/ \E a \in Announcement : announced' = Append(announced, a)
      BY <1>3, <1>9, <3>1 DEF Write, Commit, CommitsNothing, MoveWithoutRequest, TabTypes
    <3>3. QED
      BY <3>2, AnnouncedOne DEF TabTypes
  <2>3. TabTypes'
    BY <2>1, <2>2 DEF TabTypes
  <2>4. QED
    BY <1>1, <1>2, <1>9, <2>3 DEF Write, Commit, CommitsNothing, MoveWithoutRequest
<1>10. CASE Navigated
  <2>1. LogTypes'
    BY <1>10, RotateTypes DEF Navigated
  <2>2. TabTypes'
    BY <1>10, HeardOne DEF Navigated, TabTypes
  <2>3. ConsoleTypes'
    BY <1>10 DEF Navigated, RotateConsole, ConsoleTypes, Newest
  <2>4. QED
    BY <2>1, <2>2, <2>3
<1>11. CASE OnConsole
  <2>1. announced[1][2] \in Document /\ Head(announced) = announced[1] /\ announced' \in Seq(Announcement)
    BY <1>11, HeardOne DEF OnConsole
  <2>2. ConsoleTypes'
    <3>1. source' = Append(source, announced[1][2])
      BY <1>11, <2>1 DEF OnConsole
    <3>2. /\ source' \in Seq(Document) /\ Len(source) \in Nat /\ DOMAIN source = 1..Len(source)
          /\ Len(source') = Len(source) + 1 /\ DOMAIN source' = 1..Len(source) + 1
      BY <2>1, <3>1, MessageTypes
    <3>3. console' \subseteq console \cup {Len(source) + 1} /\ old_console' = old_console
      BY <1>11, <3>2 DEF OnConsole, Newest
    <3>4. \A m \in DOMAIN source : m \in DOMAIN source'
      BY <3>2
    <3>5. Len(source) + 1 \in DOMAIN source'
      BY <3>2
    <3>6. QED
      BY <3>2, <3>3, <3>4, <3>5 DEF ConsoleTypes
  <2>3. TabTypes'
    BY <1>11, <2>1 DEF OnConsole, TabTypes
  <2>4. QED
    BY <1>1, <1>11, <2>2, <2>3 DEF OnConsole
<1>12. QED
  BY <1>4, <1>5, <1>6, <1>7, <1>8, <1>9, <1>10, <1>11 DEF Next

LEMMA InitTypes == ASSUME NetworkConstants, Init PROVE TypeOK
<1>1. 0 \in Document
  BY DEF NetworkConstants, Document
<1>2. <<>> \in Seq(Document) /\ <<>> \in Seq(Announcement) /\ "other" \in Kind
  BY DEF Kind
<1>3. LogTypes
  BY <1>1, <1>2 DEF Init, LogTypes, NetworkConstants
<1>4. ConsoleTypes /\ TabTypes
  BY <1>1, <1>2 DEF Init, ConsoleTypes, TabTypes
<1>5. QED
  BY <1>3, <1>4 DEF TypeOK

\* Of every reachable state: the logs' and the tab's types.
THEOREM TypeCorrect == Spec => []TypeOK
<1>1. Init => TypeOK
  BY InitTypes, NetworkConstants
<1>2. TypeOK /\ [Next]_vars => TypeOK'
  BY TypesKept, NetworkConstants
<1>3. QED
  BY <1>1, <1>2, PTL DEF Spec

-----------------------------------------------------------------------------
(* The rings. *)

\* More entries leave more of them after any one.
LEMMA MoreAfter ==
    ASSUME NetworkConstants, NEW most, IsFiniteSet(most), NEW few \in SUBSET most, NEW i,
           Cardinality({j \in few : i < j}) >= MaxEntries
    PROVE  Cardinality({j \in most : i < j}) >= MaxEntries
<1> DEFINE A == {j \in few : i < j}
           B == {j \in most : i < j}
<1>1. A \subseteq B /\ B \subseteq most
  OBVIOUS
<1>2. IsFiniteSet(B) /\ IsFiniteSet(A)
  BY <1>1, FS_Subset
<1>3. Cardinality(A) \in Nat /\ Cardinality(B) \in Nat /\ Cardinality(A) <= Cardinality(B)
  BY <1>1, <1>2, FS_Subset, FS_CardinalityType
<1> HIDE DEF A, B
<1>4. Cardinality(A) >= MaxEntries => Cardinality(B) >= MaxEntries
  BY <1>3 DEF NetworkConstants
<1>5. QED
  BY <1>4 DEF A, B

\* What falls out of a ring makes room for as many newer entries.
LEMMA DroppedIsOld ==
    ASSUME NetworkConstants, NEW recorded, IsFiniteSet(recorded), NEW ring \in SUBSET recorded,
           NEW i \in ring, i \notin Newest(ring)
    PROVE  Cardinality({j \in recorded : i < j}) >= MaxEntries
<1>1. ~(Cardinality({j \in ring : i < j}) < MaxEntries)
  BY DEF Newest
<1>2. Cardinality({j \in ring : i < j}) \in Nat
  <2>1. IsFiniteSet({j \in ring : i < j})
    <3>1. {j \in ring : i < j} \subseteq recorded
      OBVIOUS
    <3>2. QED
      BY <3>1, FS_Subset
  <2>2. QED
    BY <2>1, FS_CardinalityType
<1>3. Cardinality({j \in ring : i < j}) >= MaxEntries
  BY <1>1, <1>2 DEF NetworkConstants
<1>4. QED
  BY <1>3, MoreAfter

\* One more entry, in the live ring.
LEMMA OneMore ==
    ASSUME NetworkConstants, NEW recorded, NEW ring, NEW old, NEW id, id \notin recorded,
           IsFiniteSet(recorded), ring \subseteq recorded, old \subseteq recorded,
           KeepsAllBut(recorded, ring, old)
    PROVE  KeepsAllBut(recorded \cup {id}, Newest(ring \cup {id}), old)
<1> DEFINE after == recorded \cup {id}
<1>1. IsFiniteSet(after) /\ ring \cup {id} \in SUBSET after
  <2>1. IsFiniteSet({id})
    BY FS_Singleton
  <2>2. QED
    BY <2>1, FS_Union
<1>2. Newest(ring \cup {id}) \cap old = {}
  BY DEF Newest, KeepsAllBut
<1>3. ASSUME NEW i \in after, i \notin Newest(ring \cup {id}), i \notin old
      PROVE  Cardinality({j \in after : i < j}) >= MaxEntries
  <2>1. CASE i \in ring \cup {id}
    BY <1>1, <1>3, <2>1, DroppedIsOld
  <2>2. CASE i \notin ring \cup {id}
    <3>1. Cardinality({j \in recorded : i < j}) >= MaxEntries
      BY <1>3, <2>2 DEF KeepsAllBut
    <3>2. QED
      BY <1>1, <3>1, MoreAfter
  <2>3. QED
    BY <2>1, <2>2
<1>4. QED
  BY <1>2, <1>3 DEF KeepsAllBut

\* Some of the live ring is moved to the preserved one.
LEMMA MovedOver ==
    ASSUME NetworkConstants, NEW recorded, NEW ring, NEW old, NEW moved \in SUBSET ring,
           IsFiniteSet(recorded), ring \subseteq recorded, old \subseteq recorded,
           KeepsAllBut(recorded, ring, old)
    PROVE  KeepsAllBut(recorded, ring \ moved, Newest(old \cup moved))
<1>1. (ring \ moved) \cap Newest(old \cup moved) = {}
  BY DEF Newest, KeepsAllBut
<1>2. ASSUME NEW i \in recorded, i \notin ring \ moved, i \notin Newest(old \cup moved)
      PROVE  Cardinality({j \in recorded : i < j}) >= MaxEntries
  <2>1. CASE i \in old \cup moved
    BY <1>2, <2>1, DroppedIsOld
  <2>2. CASE i \notin old \cup moved
    BY <1>2, <2>2 DEF KeepsAllBut
  <2>3. QED
    BY <2>1, <2>2
<1>3. QED
  BY <1>1, <1>2 DEF KeepsAllBut

LEMMA RingsKept ==
    ASSUME NetworkConstants, TypeOK, OnlyBoundsForget, [Next]_vars
    PROVE  OnlyBoundsForget'
<1> USE DEF OnlyBoundsForget
<1>1. IsFiniteSet(Recorded) /\ IsFiniteSet(DOMAIN source)
  <2>1. next_id \in Nat /\ Len(source) \in Nat /\ DOMAIN source = 1..Len(source)
    BY LenProperties DEF TypeOK, LogTypes, ConsoleTypes
  <2>2. QED
    BY <2>1, FS_Interval DEF Recorded
<1>2. /\ live \subseteq Recorded /\ preserved \subseteq Recorded
      /\ console \subseteq DOMAIN source /\ old_console \subseteq DOMAIN source
  BY DEF TypeOK, LogTypes, ConsoleTypes
<1>3. ASSUME UNCHANGED consoleVars PROVE KeepsAllBut(DOMAIN source, console, old_console)'
  BY <1>3 DEF consoleVars, KeepsAllBut
<1>4. ASSUME UNCHANGED <<live, preserved, next_id>> PROVE KeepsAllBut(Recorded, live, preserved)'
  BY <1>4 DEF KeepsAllBut, Recorded
<1>5. ASSUME NEW k \in Kind, NEW d \in Document, OnRequest(k, d)
      PROVE  KeepsAllBut(Recorded, live, preserved)'
  <2>1. Recorded' = Recorded \cup {next_id} /\ next_id \notin Recorded
    BY <1>5, RequestTypes DEF TypeOK
  <2>2. live' = Newest(live \cup {next_id}) /\ preserved' = preserved
    BY <1>5 DEF OnRequest
  <2>3. KeepsAllBut(Recorded \cup {next_id}, Newest(live \cup {next_id}), preserved)
    BY <1>1, <1>2, <2>1, OneMore
  <2>4. QED
    BY <2>1, <2>2, <2>3 DEF KeepsAllBut
<1>6. CASE Navigate \/ Redirect \/ Ask
  <2>1. UNCHANGED consoleVars
    BY <1>6 DEF Navigate, Redirect, Ask
  <2>2. \E k \in Kind, d \in Document : OnRequest(k, d)
    <3>1. CASE Navigate
      <4>1. documents' \in Document /\ "document" \in Kind
        <5>1. documents \in Nat /\ documents < MaxDocuments /\ MaxDocuments \in Nat /\ documents' = documents + 1
          BY <3>1 DEF Navigate, TypeOK, TabTypes, Document, NetworkConstants
        <5>2. QED
          BY <5>1 DEF Document, Kind
      <4>2. QED
        BY <3>1, <4>1 DEF Navigate
    <3>2. CASE Redirect
      BY <3>2 DEF Redirect, Kind, TypeOK, TabTypes
    <3>3. CASE Ask
      BY <3>3 DEF Ask, TypeOK, TabTypes
    <3>4. QED
      BY <1>6, <3>1, <3>2, <3>3
  <2>3. QED
    BY <1>3, <1>5, <2>1, <2>2
<1>7. CASE \/ UNCHANGED vars \/ Answer \/ Write \/ Commit \/ CommitsNothing \/ MoveWithoutRequest
  BY <1>3, <1>4, <1>7 DEF vars, logVars, consoleVars, Answer, OnAnswer, Write, Commit,
                          CommitsNothing, MoveWithoutRequest
<1>8. CASE Navigated
  <2>1. KeepsAllBut(Recorded, live, preserved)'
    <3>1. Retired \in SUBSET live
      BY DEF Retired
    <3>2. Recorded' = Recorded /\ live' = live \ Retired /\ preserved' = Newest(preserved \cup Retired)
      BY <1>8 DEF Navigated, Rotate, Recorded
    <3>3. KeepsAllBut(Recorded, live \ Retired, Newest(preserved \cup Retired))
      BY <1>1, <1>2, <3>1, MovedOver
    <3>4. QED
      BY <3>2, <3>3 DEF KeepsAllBut
  <2>2. KeepsAllBut(DOMAIN source, console, old_console)'
    <3>1. source' = source /\ console' = console \ console /\ old_console' = Newest(old_console \cup console)
      BY <1>8 DEF Navigated, RotateConsole
    <3>2. KeepsAllBut(DOMAIN source, console \ console, Newest(old_console \cup console))
      BY <1>1, <1>2, MovedOver
    <3>3. QED
      BY <3>1, <3>2 DEF KeepsAllBut
  <2>3. QED
    BY <2>1, <2>2
<1>9. CASE OnConsole
  <2>1. KeepsAllBut(Recorded, live, preserved)'
    BY <1>4, <1>9 DEF OnConsole, logVars
  <2>2. /\ source' = Append(source, announced[1][2]) /\ announced[1][2] \in Document
        /\ console' = Newest(console \cup {Len(source')}) /\ old_console' = old_console
    BY <1>9, HeardOne DEF OnConsole, TypeOK
  <2>3. /\ Len(source) \in Nat /\ DOMAIN source = 1..Len(source)
        /\ Len(source') = Len(source) + 1 /\ DOMAIN source' = 1..Len(source) + 1
    BY <2>2, MessageTypes DEF TypeOK
  <2>4. DOMAIN source' = DOMAIN source \cup {Len(source')} /\ Len(source') \notin DOMAIN source
    BY <2>3
  <2>5. KeepsAllBut(DOMAIN source \cup {Len(source')}, Newest(console \cup {Len(source')}), old_console)
    BY <1>1, <1>2, <2>4, OneMore
  <2>6. KeepsAllBut(DOMAIN source, console, old_console)'
    BY <2>2, <2>4, <2>5 DEF KeepsAllBut
  <2>7. QED
    BY <2>1, <2>6
<1>10. QED
  BY <1>6, <1>7, <1>8, <1>9 DEF Next

\* Only the bound of a ring makes an entry go (log.py rotate, find): of both
\* logs, whatever commits come in whatever order, Overlap and Early included.
THEOREM OnlyBoundsForgetTheorem == Spec => []OnlyBoundsForget
<1>1. Init => OnlyBoundsForget
  <2> SUFFICES ASSUME Init PROVE OnlyBoundsForget
    OBVIOUS
  <2>1. Recorded = {} /\ live = {} /\ preserved = {} /\ DOMAIN source = {} /\ console = {} /\ old_console = {}
    BY DEF Init, Recorded
  <2>2. QED
    BY <2>1 DEF OnlyBoundsForget, KeepsAllBut
<1>2. TypeOK /\ OnlyBoundsForget /\ [Next]_vars => OnlyBoundsForget'
  BY RingsKept, NetworkConstants
<1>3. QED
  BY <1>1, <1>2, TypeCorrect, PTL DEF Spec

-----------------------------------------------------------------------------
(* The tab: at most one commit on its way. *)

LEMMA CommitsAre ==
    ASSUME TabTypes
    PROVE  \A d : d \in Commits <=> \E i \in DOMAIN announced : IsCommit(i) /\ announced[i][2] = d
<1>1. \A i \in DOMAIN announced : /\ announced[i] = <<announced[i][1], announced[i][2]>>
                                  /\ announced[i][2] \in Document
  <2>1. \A i \in DOMAIN announced : announced[i] \in Announcement
    BY ElementOfSeq, LenProperties DEF TabTypes
  <2>2. QED
    BY <2>1 DEF Announcement
<1>2. QED
  BY <1>1 DEF Commits, IsCommit

\* While the tab may move on, it shows the document it has.
LEMMA SettledShowsContent ==
    ASSUME TabTypes, TabOK, navigating # 0 \/ Commits = {}
    PROVE  content = shown /\ \A i \in DOMAIN announced : ~IsCommit(i) /\ announced[i][2] = shown
<1>1. content = shown
  BY CommitsAre DEF TabOK
<1>2. shown \in Nat
  BY DEF TabTypes, Document
<1>3. QED
  BY <1>1, <1>2 DEF TabOK

LEMMA CommitAnnounced ==
    ASSUME TabTypes, TabOK, navigating # 0 \/ Commits = {},
           NEW d \in Document, content < d, d <= documents',
           content' = d, navigating' = 0, UNCHANGED shown,
           announced' = Append(announced, <<"commit", d>>)
    PROVE  TabOK'
<1>1. /\ content = shown /\ content \in Nat /\ d \in Nat
      /\ \A i \in DOMAIN announced : ~IsCommit(i) /\ announced[i][2] = shown
  BY SettledShowsContent DEF TabTypes, Document
<1> DEFINE n == Len(announced) + 1
<1>2. /\ Len(announced) \in Nat /\ DOMAIN announced = 1..Len(announced) /\ DOMAIN announced' = 1..n
      /\ announced'[n] = <<"commit", d>>
      /\ \A i \in DOMAIN announced : announced'[i] = announced[i]
  <2>1. <<"commit", d>> \in Announcement
    BY DEF Announcement
  <2>2. QED
    BY <2>1, AnnouncedOne
<1>3. \A i \in DOMAIN announced' : i = n \/ i \in DOMAIN announced
  BY <1>2
<1>4. n \in Nat \ {0}
  BY <1>2
<1> HIDE DEF n
<1>5. n \in DOMAIN announced' /\ \A i \in DOMAIN announced' : i \in Nat /\ i <= n
  BY <1>2, <1>4
<1>6. announced'[n][1] = "commit" /\ announced'[n][2] = d
  <2>1. <<"commit", d>>[1] = "commit" /\ <<"commit", d>>[2] = d
    OBVIOUS
  <2>2. announced'[n] = <<"commit", d>>
    BY <1>2
  <2>3. QED
    BY <2>1, <2>2
<1>7. \A i \in DOMAIN announced' : i # n => announced'[i][1] # "commit" /\ announced'[i][2] = shown
  BY <1>1, <1>2, <1>3 DEF IsCommit
<1>8. ASSUME NEW i \in DOMAIN announced'
      PROVE  /\ IsCommit(i)' => announced'[i][2] = d /\ shown < d
             /\ ~IsCommit(i)' => announced'[i][2] \in {shown, d}
             /\ \A j \in DOMAIN announced' : IsCommit(j)' =>
                   /\ IsCommit(i)' => i = j
                   /\ i < j => announced'[i][2] = shown
                   /\ j < i => announced'[i][2] = d
  BY <1>1, <1>5, <1>6, <1>7 DEF IsCommit
<1>9. shown <= d
  BY <1>1
<1>10. QED
  BY <1>5, <1>6, <1>8, <1>9 DEF TabOK, IsCommit

LEMMA TabKept ==
    ASSUME NetworkConstants, ~Overlap, TabTypes, TabOK, [Next]_vars
    PROVE  TabOK'
<1>1. /\ shown \in Nat /\ content \in Nat /\ documents \in Nat /\ navigating \in Nat /\ MaxDocuments \in Nat
      /\ shown <= content /\ content <= documents
  BY DEF TabTypes, TabOK, Document, NetworkConstants
<1>2. CASE UNCHANGED vars \/ Redirect \/ Ask \/ Answer
  <2>1. UNCHANGED <<documents, navigating, content, announced, shown>>
    BY <1>2 DEF vars, Redirect, Ask, Answer, tabVars
  <2>2. QED
    BY <2>1 DEF TabOK, IsCommit
<1>3. CASE Navigate
  <2>1. /\ documents' = documents + 1 /\ navigating' = documents + 1
        /\ UNCHANGED <<content, announced, shown>>
        /\ navigating # 0 \/ Commits = {}
    BY <1>3 DEF Navigate, Settled
  <2>2. content = shown
    BY <2>1, SettledShowsContent
  <2>3. content <= documents' /\ content < documents'
    BY <1>1, <2>1
  <2>4. QED
    BY <1>1, <2>1, <2>2, <2>3 DEF TabOK, IsCommit
<1>4. CASE CommitsNothing
  BY <1>4 DEF CommitsNothing, TabOK, IsCommit
<1>5. CASE Commit
  <2>1. /\ navigating # 0 /\ navigating \in Document /\ content < navigating /\ navigating = documents
        /\ navigating <= documents
    BY <1>1, <1>5 DEF Commit, TabOK, TabTypes
  <2>2. QED
    BY <1>5, <2>1, CommitAnnounced DEF Commit
<1>6. CASE MoveWithoutRequest
  <2>1. /\ documents' \in Document /\ content < documents' /\ documents' <= documents'
    BY <1>1, <1>6 DEF MoveWithoutRequest, Document
  <2>2. Commits = {} /\ navigating' = 0
    BY <1>6 DEF MoveWithoutRequest, Settled
  <2>3. QED
    BY <1>6, <2>1, <2>2, CommitAnnounced DEF MoveWithoutRequest
<1>7. CASE Write
  <2> DEFINE n == Len(announced) + 1
  <2>1. /\ Len(announced) \in Nat /\ DOMAIN announced = 1..Len(announced) /\ DOMAIN announced' = 1..n
        /\ announced'[n] = <<"console", content>>
        /\ \A i \in DOMAIN announced : announced'[i] = announced[i]
    <3>1. <<"console", content>> \in Announcement
      BY DEF Announcement, TabTypes
    <3>2. QED
      BY <1>7, <3>1, AnnouncedOne DEF Write
  <2>2. /\ \A i \in DOMAIN announced' : i = n \/ i \in DOMAIN announced
        /\ \A i \in DOMAIN announced : i < n /\ i # n /\ i \in Nat /\ i \in DOMAIN announced'
        /\ n \in Nat
    BY <2>1
  <2> HIDE DEF n
  <2>3. announced'[n][1] # "commit" /\ announced'[n][2] = content
    BY <2>1
  <2>4. UNCHANGED <<documents, navigating, content, shown>>
    BY <1>7 DEF Write
  <2>5. ASSUME NEW i \in DOMAIN announced'
        PROVE  /\ IsCommit(i)' => announced'[i][2] = content /\ shown < content
               /\ ~IsCommit(i)' => announced'[i][2] \in {shown, content}
               /\ \A j \in DOMAIN announced' : IsCommit(j)' =>
                     /\ IsCommit(i)' => i = j
                     /\ i < j => announced'[i][2] = shown
                     /\ j < i => announced'[i][2] = content
    <3>1. \A j \in DOMAIN announced' : IsCommit(j)' => j \in DOMAIN announced /\ IsCommit(j)
      BY <2>1, <2>2, <2>3 DEF IsCommit
    <3>2. CASE i = n
      <4>1. \A j \in DOMAIN announced' : IsCommit(j)' => ~(i < j)
        BY <2>2, <3>1, <3>2
      <4>2. QED
        BY <2>3, <3>1, <3>2, <4>1 DEF IsCommit
    <3>3. CASE i \in DOMAIN announced
      BY <2>1, <3>1, <3>3 DEF TabOK, IsCommit
    <3>4. QED
      BY <2>2, <3>2, <3>3
  <2>6. content # shown => \E i \in DOMAIN announced' : IsCommit(i)'
    BY <2>1, <2>2 DEF TabOK, IsCommit
  <2>7. QED
    BY <2>4, <2>5, <2>6 DEF TabOK
<1>8. CASE Navigated
  <2>1. /\ Len(announced) \in Nat /\ DOMAIN announced = 1..Len(announced)
        /\ 1 \in DOMAIN announced /\ Head(announced) = announced[1]
        /\ announced[1] = <<"commit", announced[1][2]>>
        /\ DOMAIN announced' = 1..Len(announced) - 1
        /\ \A i \in DOMAIN announced' : i + 1 \in DOMAIN announced /\ announced'[i] = announced[i + 1]
    BY <1>8, HeardOne DEF Navigated
  <2>2. IsCommit(1)
    BY <2>1 DEF IsCommit
  <2>3. announced[1][2] = content /\ shown < content
    BY <2>1, <2>2 DEF TabOK
  <2>4. shown' = content /\ UNCHANGED <<documents, navigating, content>>
    BY <1>8, <2>1, <2>3 DEF Navigated
  <2>5. navigating = 0
    BY <1>1, <2>3 DEF TabOK
  <2>6. ASSUME NEW i \in DOMAIN announced' PROVE ~IsCommit(i)' /\ announced'[i][2] = content
    <3>1. i + 1 \in DOMAIN announced /\ i + 1 # 1 /\ 1 < i + 1
      BY <2>1
    <3>2. ~IsCommit(i + 1) /\ announced[i + 1][2] = content
      BY <2>1, <2>2, <3>1 DEF TabOK
    <3>3. QED
      BY <2>1, <3>2 DEF IsCommit
  <2>7. QED
    BY <1>1, <2>4, <2>5, <2>6 DEF TabOK
<1>9. CASE OnConsole
  <2>1. /\ Len(announced) \in Nat /\ DOMAIN announced = 1..Len(announced)
        /\ 1 \in DOMAIN announced
        /\ announced[1] = <<"console", announced[1][2]>>
        /\ DOMAIN announced' = 1..Len(announced) - 1
        /\ \A i \in DOMAIN announced' : i + 1 \in DOMAIN announced /\ announced'[i] = announced[i + 1]
    BY <1>9, HeardOne DEF OnConsole
  <2>2. UNCHANGED <<documents, navigating, content, shown>>
    BY <1>9 DEF OnConsole
  <2>3. \A i \in DOMAIN announced' : /\ i \in Nat
                                     /\ IsCommit(i)' <=> IsCommit(i + 1)
                                     /\ announced'[i][2] = announced[i + 1][2]
    BY <2>1 DEF IsCommit
  <2>4. ~IsCommit(1)
    BY <2>1 DEF IsCommit
  <2>5. ASSUME NEW i \in DOMAIN announced'
        PROVE  /\ IsCommit(i)' => announced'[i][2] = content /\ shown < content
               /\ ~IsCommit(i)' => announced'[i][2] \in {shown, content}
               /\ \A j \in DOMAIN announced' : IsCommit(j)' =>
                     /\ IsCommit(i)' => i = j
                     /\ i < j => announced'[i][2] = shown
                     /\ j < i => announced'[i][2] = content
    <3>1. i + 1 \in DOMAIN announced /\ i \in Nat
      BY <2>1, <2>3
    <3>2. /\ IsCommit(i)' => announced'[i][2] = content /\ shown < content
          /\ ~IsCommit(i)' => announced'[i][2] \in {shown, content}
      BY <2>3, <3>1 DEF TabOK
    <3>3. ASSUME NEW j \in DOMAIN announced', IsCommit(j)'
          PROVE  /\ IsCommit(i)' => i = j
                 /\ i < j => announced'[i][2] = shown
                 /\ j < i => announced'[i][2] = content
      <4>1. j + 1 \in DOMAIN announced /\ j \in Nat /\ IsCommit(j + 1)
        BY <2>1, <2>3, <3>3
      <4>2. /\ IsCommit(i + 1) => i + 1 = j + 1
            /\ i + 1 < j + 1 => announced[i + 1][2] = shown
            /\ j + 1 < i + 1 => announced[i + 1][2] = content
        BY <3>1, <4>1 DEF TabOK
      <4>3. QED
        BY <2>3, <3>1, <4>1, <4>2
    <3>4. QED
      BY <3>2, <3>3
  <2>6. content # shown => \E i \in DOMAIN announced' : IsCommit(i)'
    <3> SUFFICES ASSUME content # shown PROVE \E i \in DOMAIN announced' : IsCommit(i)'
      OBVIOUS
    <3>1. PICK k \in DOMAIN announced : IsCommit(k)
      BY DEF TabOK
    <3>2. k # 1
      BY <2>4, <3>1
    <3>3. k - 1 \in DOMAIN announced' /\ (k - 1) + 1 = k
      BY <2>1, <3>2
    <3>4. IsCommit(k - 1)'
      BY <2>3, <3>1, <3>3
    <3>5. QED
      BY <3>3, <3>4
  <2>7. QED
    BY <2>2, <2>5, <2>6 DEF TabOK
<1>10. QED
  BY <1>2, <1>3, <1>4, <1>5, <1>6, <1>7, <1>8, <1>9 DEF Next

\* Of every reachable state, where the tab waits for its commit: the tab.
THEOREM TabCorrect == ASSUME ~Overlap PROVE Spec => [](TypeOK /\ TabOK)
<1>1. Init => TabOK
  <2> SUFFICES ASSUME Init PROVE TabOK
    OBVIOUS
  <2>1. DOMAIN announced = {} /\ navigating = 0 /\ content = 0 /\ shown = 0 /\ documents = 0
    BY DEF Init
  <2>2. QED
    BY <2>1 DEF TabOK
<1>2. TypeOK /\ TabOK /\ [Next]_vars => TabOK'
  BY TabKept, NetworkConstants DEF TypeOK
<1>3. QED
  BY <1>1, <1>2, TypeCorrect, PTL DEF Spec

-----------------------------------------------------------------------------
(* The marks, and what is awaited. *)

\* A commit that is heard is of the document the tab has, and of no other.
LEMMA HeardCommit ==
    ASSUME TabTypes, TabOK, Navigated
    PROVE  shown' = content /\ shown < content /\ navigating = 0 /\ UNCHANGED content
<1>1. 1 \in DOMAIN announced /\ Head(announced) = announced[1] /\ announced[1] = <<"commit", announced[1][2]>>
  BY HeardOne DEF Navigated
<1>2. announced[1][2] = content /\ shown < content
  BY <1>1 DEF TabOK, IsCommit
<1>3. shown \in Nat /\ content \in Nat
  BY DEF TabTypes, Document
<1>4. QED
  BY <1>1, <1>2, <1>3 DEF Navigated, TabOK

\* Of an entry: the request it is of.
LEMMA EntryTypes ==
    ASSUME LogTypes
    PROVE  /\ next_id \in Nat
           /\ \A i \in Recorded : i \in Id /\ i \in Nat /\ i # 0 /\ i < next_id /\ of[i] \in Nat /\ kind[i] \in Kind
<1>1. next_id \in Nat /\ next_id <= MaxRequests + 1
  BY DEF LogTypes
<1>2. \A i \in Recorded : i \in Nat /\ i # 0 /\ i < next_id
  BY <1>1 DEF Recorded
<1>3. \A i \in Recorded : i \in Id
  <2>1. MaxRequests \in Nat
    BY NetworkConstants DEF NetworkConstants
  <2>2. QED
    BY <1>1, <2>1 DEF Recorded, Id
<1>4. \A i \in Recorded : of[i] \in Nat /\ kind[i] \in Kind
  BY <1>3 DEF LogTypes, Document
<1>5. QED
  BY <1>1, <1>2, <1>3, <1>4

LEMMA RequestMarks ==
    ASSUME NetworkConstants, LogTypes, TabTypes, MarksOK,
           NEW k \in Kind, NEW d \in Document, OnRequest(k, d),
           UNCHANGED <<content, shown>>,
           documents' \in Document, documents <= documents', d <= documents',
           k # "document" => d <= content /\ UNCHANGED navigating
    PROVE  MarksOK'
<1>1. /\ next_id \in Id /\ Recorded' = Recorded \cup {next_id} /\ next_id \notin Recorded
      /\ kind' = [kind EXCEPT ![next_id] = k] /\ of' = [of EXCEPT ![next_id] = d]
  BY RequestTypes
<1>2. /\ next_id \in Nat
      /\ \A i \in Recorded : i \in Id /\ i \in Nat /\ i # 0 /\ i < next_id /\ of[i] \in Nat
  BY EntryTypes
<1>3. next_id # 0
  BY <1>1 DEF Id
<1>4. /\ kind'[next_id] = k /\ of'[next_id] = d
      /\ \A i \in Recorded : kind'[i] = kind[i] /\ of'[i] = of[i]
  BY <1>1, <1>2 DEF LogTypes
<1>5. /\ documents \in Nat /\ documents' \in Nat /\ d \in Nat /\ content \in Nat
  BY DEF TabTypes, Document
<1>6. (\A i \in Recorded : of[i] <= documents)'
  BY <1>1, <1>2, <1>4, <1>5 DEF MarksOK
<1>7. (\A i \in Recorded : ~IsDocument(i) => of[i] <= content)'
  BY <1>1, <1>4 DEF MarksOK, IsDocument
<1>8. open' \cap answered' = {} /\ next_id \in open' /\ next_id \in pending'
      /\ open \subseteq open' /\ pending \subseteq pending' /\ answered' = answered
  BY <1>1 DEF OnRequest, MarksOK, LogTypes
<1>9. CASE k = "document"
  <2>1. last_document' = next_id /\ first_document' = IF first_document = 0 THEN next_id ELSE first_document
    BY <1>9 DEF OnRequest, MarksDocument
  <2>2. first_document' # 0
    BY <1>3, <2>1
  <2>3. IsDocument(last_document)' /\ IsDocument(first_document)'
    <3>1. IsDocument(last_document)'
      BY <1>4, <1>9, <2>1 DEF IsDocument
    <3>2. CASE first_document = 0
      BY <1>4, <1>9, <2>1, <3>1, <3>2 DEF IsDocument
    <3>3. CASE first_document # 0
      <4>1. first_document \in Recorded /\ IsDocument(first_document)
        BY <3>3 DEF LogTypes, MarksOK
      <4>2. first_document' = first_document
        BY <2>1, <3>3
      <4>3. kind'[first_document] = "document"
        BY <1>4, <4>1 DEF IsDocument
      <4>4. QED
        BY <3>1, <4>2, <4>3 DEF IsDocument
    <3>4. QED
      BY <3>1, <3>2, <3>3
  <2>4. \A i \in Recorded' : i <= last_document'
    BY <1>1, <1>2, <2>1
  <2>5. QED
    BY <1>3, <1>6, <1>7, <1>8, <2>1, <2>2, <2>3, <2>4 DEF MarksOK
<1>10. CASE k # "document"
  <2>1. UNCHANGED <<last_document, first_document, navigating>>
    BY <1>10 DEF OnRequest, MarksDocument
  <2>2. /\ \A i \in Recorded' : IsDocument(i)' => i \in Recorded /\ IsDocument(i) /\ of'[i] = of[i]
        /\ \A i \in Recorded : IsDocument(i)' <=> IsDocument(i)
    BY <1>1, <1>4, <1>10 DEF IsDocument
  <2>3. Requested(content)' => Requested(content)
    BY <2>2 DEF Requested, IsDocument
  <2>4. /\ last_document # 0 => IsDocument(last_document)'
        /\ first_document # 0 => IsDocument(first_document)'
    BY <1>4, <2>1 DEF MarksOK, LogTypes, IsDocument
  <2>5. \A i \in Recorded' : IsDocument(i)' => i <= last_document
    BY <2>2 DEF MarksOK
  <2>6. QED
    BY <1>6, <1>7, <1>8, <2>1, <2>3, <2>4, <2>5 DEF MarksOK
<1>11. QED
  BY <1>9, <1>10

LEMMA MarksKept ==
    ASSUME NetworkConstants, ~Overlap, TypeOK, TabOK, MarksOK, [Next]_vars
    PROVE  MarksOK'
<1> USE DEF TypeOK
<1>1. /\ shown \in Nat /\ content \in Nat /\ documents \in Nat /\ navigating \in Nat /\ MaxDocuments \in Nat
      /\ content <= documents
      /\ \A i \in Recorded : of[i] \in Nat /\ of[i] <= documents
  BY EntryTypes DEF TabTypes, TabOK, Document, NetworkConstants, MarksOK
<1>2. ASSUME UNCHANGED <<logVars, requestVars, content, documents, shown>>, navigating' \in {0, navigating}
      PROVE  MarksOK'
  BY <1>2 DEF MarksOK, logVars, requestVars, Recorded, IsDocument, Requested
<1>3. CASE UNCHANGED vars \/ Write \/ OnConsole \/ CommitsNothing
  BY <1>2, <1>3 DEF vars, tabVars, Write, OnConsole, CommitsNothing
<1>4. CASE Navigate
  <2>1. documents' \in Document /\ documents <= documents'
    BY <1>1, <1>4 DEF Navigate, Document
  <2>2. OnRequest("document", documents') /\ UNCHANGED <<content, shown>> /\ "document" \in Kind
    BY <1>4 DEF Navigate, Kind
  <2>3. documents' <= documents'
    BY <2>1 DEF Document
  <2>4. QED
    BY <2>1, <2>2, <2>3, RequestMarks
<1>5. CASE Redirect
  <2>1. navigating \in Document /\ documents' = documents /\ documents \in Document
        /\ UNCHANGED <<content, shown>> /\ OnRequest("document", navigating) /\ "document" \in Kind
    BY <1>5 DEF Redirect, tabVars, TabTypes, Kind
  <2>2. navigating <= documents' /\ documents <= documents'
    BY <1>1, <1>5, <2>1 DEF Redirect, TabOK
  <2>3. QED
    BY <2>1, <2>2, RequestMarks
<1>6. CASE Ask
  <2>1. PICK k \in Kind \ {"document"} : OnRequest(k, content)
    BY <1>6 DEF Ask
  <2>2. UNCHANGED <<documents, navigating, content, shown>> /\ documents \in Document /\ content \in Document
    BY <1>6 DEF Ask, tabVars, TabTypes
  <2>3. content <= documents' /\ documents <= documents' /\ content <= content
    BY <1>1, <2>2
  <2>4. QED
    BY <2>1, <2>2, <2>3, RequestMarks
<1>7. CASE Answer
  <2>1. PICK i \in open : OnAnswer(i)
    BY <1>7 DEF Answer
  <2>2. Recorded' = Recorded /\ UNCHANGED <<kind, of, last_document, first_document, documents, navigating, content, shown>>
    BY <1>7, <2>1, AnswerTypes DEF Answer, OnAnswer, tabVars
  <2>3. open' = open \ {i} /\ pending' = pending \ {i}
        /\ answered' = IF i \in pending THEN answered \cup {i} ELSE answered
    BY <2>1 DEF OnAnswer
  <2>4. open' \cap answered' = {}
    BY <2>3 DEF MarksOK
  <2>5. first_document # 0 =>
            \/ last_document \in open' /\ last_document \in pending'
            \/ last_document \in answered'
    BY <2>3 DEF MarksOK
  <2>6. QED
    BY <2>2, <2>4, <2>5 DEF MarksOK, IsDocument, Requested
<1>8. CASE Commit
  <2>1. /\ navigating # 0 /\ content' = navigating /\ navigating' = 0
        /\ UNCHANGED <<logVars, requestVars, documents, shown>>
    BY <1>8 DEF Commit
  <2>2. first_document # 0 /\ content < content' /\ content' \in Nat
    BY <1>1, <2>1 DEF MarksOK, TabOK
  <2>3. \A i \in Recorded : ~IsDocument(i) => of[i] <= content'
    BY <1>1, <2>2 DEF MarksOK
  <2>4. QED
    BY <2>1, <2>2, <2>3 DEF MarksOK, logVars, requestVars, Recorded, IsDocument
<1>9. CASE MoveWithoutRequest
  <2>1. /\ documents' = documents + 1 /\ content' = documents + 1 /\ navigating' = 0
        /\ UNCHANGED <<logVars, requestVars, shown>>
    BY <1>9 DEF MoveWithoutRequest, Settled
  <2>2. \A i \in Recorded : of[i] <= documents' /\ of[i] <= content' /\ of[i] # content'
    BY <1>1, <2>1
  <2>3. Recorded' = Recorded /\ kind' = kind /\ of' = of
    BY <2>1 DEF Recorded, logVars, requestVars
  <2>4. ~Requested(content)'
    BY <2>2, <2>3 DEF Requested
  <2>5. QED
    BY <2>1, <2>2, <2>3, <2>4 DEF MarksOK, logVars, requestVars, IsDocument
<1>10. CASE Navigated
  <2>1. shown' = content /\ navigating = 0 /\ UNCHANGED <<content, documents, navigating>>
    BY <1>10, HeardCommit DEF Navigated
  <2>2. /\ first_document' = 0 /\ UNCHANGED <<next_id, answered, last_document, kind, of, open>>
    BY <1>10 DEF Navigated, Rotate, requestVars
  <2>3. QED
    BY <2>1, <2>2 DEF MarksOK, Recorded, IsDocument
<1>11. QED
  BY <1>3, <1>4, <1>5, <1>6, <1>7, <1>8, <1>9, <1>10 DEF Next

\* Of every reachable state, where the tab waits for its commit: the marks.
THEOREM MarksCorrect == ASSUME ~Overlap PROVE Spec => [](TypeOK /\ TabOK /\ MarksOK)
<1>1. Init => MarksOK
  <2> SUFFICES ASSUME Init PROVE MarksOK
    OBVIOUS
  <2>1. Recorded = {} /\ open = {} /\ last_document = 0 /\ first_document = 0 /\ navigating = 0 /\ content = shown
    BY DEF Init, Recorded
  <2>2. QED
    BY <2>1 DEF MarksOK
<1>2. TypeOK /\ TabOK /\ MarksOK /\ [Next]_vars => MarksOK'
  BY MarksKept, NetworkConstants
<1>3. QED
  BY <1>1, <1>2, TabCorrect, PTL DEF Spec

\* Whoever waits for a commit waits as long as one is to come, and for an
\* answer exactly while the newest document request is open (network.py,
\* awaiting_commit), where the tab does not move on before its commit is heard.
THEOREM AwaitsEveryCommitTheorem == ASSUME ~Overlap PROVE Spec => []AwaitsEveryCommit
<1>1. TypeOK /\ TabOK /\ MarksOK => AwaitsEveryCommit
  <2> SUFFICES ASSUME TypeOK, TabOK, MarksOK PROVE AwaitsEveryCommit
    OBVIOUS
  <2>1. ASSUME NEW d \in Commits, Requested(d) PROVE first_document # 0
    <3>1. PICK i \in DOMAIN announced : IsCommit(i) /\ announced[i][2] = d
      BY CommitsAre DEF TypeOK
    <3>2. d = content /\ shown < content
      BY <3>1 DEF TabOK
    <3>3. shown \in Nat
      BY DEF TypeOK, TabTypes, Document
    <3>4. QED
      BY <2>1, <3>2, <3>3 DEF MarksOK
  <2>2. ASSUME AwaitingCommit
        PROVE  \E i \in Recorded :
                  /\ kind[i] = "document"
                  /\ \A j \in Recorded : kind[j] = "document" => j <= i
                  /\ AwaitingAnswer <=> i \in open
    <3>1. last_document \in Recorded /\ IsDocument(last_document)
      BY <2>2 DEF AwaitingCommit, MarksOK, TypeOK, LogTypes
    <3>2. AwaitingAnswer <=> last_document \in open
      BY <2>2 DEF AwaitingCommit, AwaitingAnswer, MarksOK
    <3>3. QED
      BY <3>1, <3>2 DEF MarksOK, IsDocument
  <2>3. navigating # 0 => AwaitingCommit
    BY DEF MarksOK, AwaitingCommit
  <2>4. QED
    BY <2>1, <2>2, <2>3 DEF AwaitsEveryCommit, AwaitingCommit
<1>2. QED
  BY <1>1, MarksCorrect, PTL

-----------------------------------------------------------------------------
(* What a commit retires. *)

\* A new entry is of what the shown document has left behind, or it is after
\* the request for the next one.
LEMMA RequestParted ==
    ASSUME NetworkConstants, LogTypes, TabTypes, PartedOK,
           NEW k \in Kind, NEW d \in Document, OnRequest(k, d), UNCHANGED shown,
           k # "document" => first_document # 0 \/ d <= shown,
           k = "document" /\ first_document = 0 => \A i \in Recorded : ~IsDocument(i) => of[i] <= shown
    PROVE  PartedOK'
<1>1. /\ next_id \in Id /\ Recorded' = Recorded \cup {next_id} /\ next_id \notin Recorded
      /\ kind' = [kind EXCEPT ![next_id] = k] /\ of' = [of EXCEPT ![next_id] = d]
      /\ \A i \in Recorded : i < next_id /\ i \in Id
  BY RequestTypes
<1>2. /\ kind'[next_id] = k /\ of'[next_id] = d
      /\ \A i \in Recorded : kind'[i] = kind[i] /\ of'[i] = of[i]
  BY <1>1 DEF LogTypes
<1>3. next_id \in Nat /\ next_id # 0 /\ \A i \in Recorded : i \in Nat /\ i < next_id
  BY <1>1, EntryTypes DEF Id
<1>4. first_document \in {0} \cup Recorded
  BY DEF LogTypes
<1> SUFFICES ASSUME NEW i \in Recorded', kind'[i] # "document", first_document' # 0 => i < first_document'
    PROVE  of'[i] <= shown
  BY DEF PartedOK, IsDocument
<1>5. CASE k = "document"
  <2>1. first_document' = IF first_document = 0 THEN next_id ELSE first_document
    BY <1>5 DEF OnRequest, MarksDocument
  <2>2. i \in Recorded /\ kind[i] # "document" /\ of'[i] = of[i]
    BY <1>1, <1>2, <1>5
  <2>3. CASE first_document = 0
    BY <1>5, <2>2, <2>3 DEF IsDocument
  <2>4. CASE first_document # 0
    <3>1. i < first_document
      BY <2>1, <2>4
    <3>2. QED
      BY <2>2, <3>1 DEF PartedOK, IsDocument
  <2>5. QED
    BY <2>3, <2>4
<1>6. CASE k # "document"
  <2>1. first_document' = first_document
    BY <1>6 DEF OnRequest, MarksDocument
  <2>2. CASE i = next_id
    <3>1. first_document = 0
      BY <1>3, <1>4, <2>1, <2>2
    <3>2. QED
      BY <1>2, <1>6, <2>2, <3>1
  <2>3. CASE i \in Recorded
    BY <1>2, <2>1, <2>3 DEF PartedOK, IsDocument
  <2>4. QED
    BY <1>1, <2>2, <2>3
<1>7. QED
  BY <1>5, <1>6

LEMMA PartedKept ==
    ASSUME NetworkConstants, ~Overlap, ~Early, TypeOK, TabOK, MarksOK, PartedOK, [Next]_vars
    PROVE  PartedOK'
<1> USE DEF TypeOK
<1>1. ASSUME UNCHANGED <<logVars, requestVars, shown>>
      PROVE  PartedOK'
  BY <1>1 DEF PartedOK, logVars, requestVars, Recorded, IsDocument
<1>2. CASE UNCHANGED vars \/ Write \/ OnConsole \/ CommitsNothing \/ Commit \/ MoveWithoutRequest
  BY <1>1, <1>2 DEF vars, tabVars, Write, OnConsole, CommitsNothing, Commit, MoveWithoutRequest
<1>3. CASE Navigate
  <2>1. /\ OnRequest("document", documents') /\ UNCHANGED shown /\ "document" \in Kind
        /\ navigating # 0 \/ Commits = {}
    BY <1>3 DEF Navigate, Settled, Kind
  <2>2. content = shown
    BY <2>1, SettledShowsContent
  <2>3. documents' \in Document
    BY <1>3 DEF Navigate, TabTypes, Document, NetworkConstants
  <2>4. \A i \in Recorded : ~IsDocument(i) => of[i] <= shown
    BY <2>2 DEF MarksOK
  <2>5. QED
    BY <2>1, <2>3, <2>4, RequestParted
<1>4. CASE Redirect
  <2>1. OnRequest("document", navigating) /\ UNCHANGED shown /\ "document" \in Kind /\ navigating \in Document
    BY <1>4 DEF Redirect, tabVars, TabTypes, Kind
  <2>2. first_document # 0
    BY <1>4 DEF Redirect, MarksOK
  <2>3. QED
    BY <2>1, <2>2, RequestParted
<1>5. CASE Ask
  <2>1. PICK k \in Kind \ {"document"} : OnRequest(k, content)
    BY <1>5 DEF Ask
  <2>2. UNCHANGED shown /\ content \in Document /\ content \in Nat
    BY <1>5 DEF Ask, tabVars, TabTypes, Document
  <2>3. first_document # 0 \/ content <= shown
    <3>1. content = shown \/ Requested(content)
      BY <1>5 DEF Ask
    <3>2. QED
      BY <2>2, <3>1 DEF MarksOK
  <2>4. QED
    BY <2>1, <2>2, <2>3, RequestParted
<1>6. CASE Answer
  <2>1. PICK i \in open : OnAnswer(i)
    BY <1>6 DEF Answer
  <2>2. Recorded' = Recorded /\ UNCHANGED <<kind, of, first_document, shown>>
    BY <1>6, <2>1, AnswerTypes DEF Answer, OnAnswer, tabVars
  <2>3. QED
    BY <2>2 DEF PartedOK, IsDocument
<1>7. CASE Navigated
  <2>1. shown' = content
    BY <1>7, HeardCommit
  <2>2. UNCHANGED <<next_id, kind, of>>
    BY <1>7 DEF Navigated, Rotate, requestVars
  <2>3. QED
    BY <2>1, <2>2 DEF PartedOK, MarksOK, Recorded, IsDocument
<1>8. QED
  BY <1>2, <1>3, <1>4, <1>5, <1>6, <1>7 DEF Next

LEMMA ReplacedKept ==
    ASSUME NetworkConstants, ~Overlap, TypeOK, TabOK, MarksOK, PartedOK, RetiresOnlyTheReplaced, [Next]_vars
    PROVE  RetiresOnlyTheReplaced'
<1> USE DEF TypeOK
<1>1. /\ shown \in Nat /\ content \in Nat
      /\ \A i \in Recorded : of[i] \in Nat
      /\ preserved \subseteq Recorded /\ live \subseteq Recorded
      /\ console \subseteq DOMAIN source /\ old_console \subseteq DOMAIN source
      /\ \A m \in DOMAIN source : source[m] \in Nat
  <2>1. \A m \in DOMAIN source : source[m] \in Document
    BY ElementOfSeq, LenProperties DEF ConsoleTypes
  <2>2. QED
    BY <2>1, EntryTypes DEF TabTypes, LogTypes, ConsoleTypes, Document
<1>2. ASSUME UNCHANGED <<preserved, shown, consoleVars>>,
             \A i \in preserved : kind'[i] = kind[i] /\ of'[i] = of[i]
      PROVE  RetiresOnlyTheReplaced'
  BY <1>2 DEF RetiresOnlyTheReplaced, consoleVars
<1>3. CASE \/ UNCHANGED vars \/ Write \/ Commit \/ CommitsNothing \/ MoveWithoutRequest \/ Answer
  BY <1>2, <1>3 DEF vars, tabVars, logVars, requestVars, Write, Commit, CommitsNothing,
                    MoveWithoutRequest, Answer, OnAnswer
<1>4. ASSUME NEW k \in Kind, NEW d \in Document, OnRequest(k, d), UNCHANGED <<shown, consoleVars>>
      PROVE  RetiresOnlyTheReplaced'
  <2>1. /\ next_id \notin Recorded
        /\ kind' = [kind EXCEPT ![next_id] = k] /\ of' = [of EXCEPT ![next_id] = d]
        /\ \A i \in Recorded : i \in Id
    BY <1>4, RequestTypes
  <2>2. \A i \in preserved : kind'[i] = kind[i] /\ of'[i] = of[i]
    BY <1>1, <2>1 DEF LogTypes
  <2>3. QED
    BY <1>2, <1>4, <2>2 DEF OnRequest
<1>5. CASE Navigate
  <2>1. documents' \in Document
    BY <1>5 DEF Navigate, TabTypes, Document, NetworkConstants
  <2>2. QED
    BY <1>4, <1>5, <2>1 DEF Navigate, Kind
<1>6. CASE Redirect
  BY <1>4, <1>6 DEF Redirect, Kind, TabTypes, tabVars
<1>7. CASE Ask
  BY <1>4, <1>7 DEF Ask, TabTypes, tabVars
<1>8. CASE Navigated
  <2>1. shown' = content /\ shown < content
    BY <1>8, HeardCommit
  <2>2. /\ UNCHANGED <<kind, of, source>>
        /\ preserved' \subseteq preserved \cup Retired
        /\ console' = {} /\ old_console' \subseteq old_console \cup console
    BY <1>8 DEF Navigated, Rotate, RotateConsole, requestVars, Newest
  <2>3. \A i \in preserved : kind[i] # "document" => of[i] < content
    BY <1>1, <2>1 DEF RetiresOnlyTheReplaced
  <2>4. ASSUME NEW i \in Retired, kind[i] # "document" PROVE of[i] < content
    <3>1. i \in Recorded /\ (first_document # 0 => i <= first_document)
      BY <1>1 DEF Retired
    <3>2. first_document # 0 => i < first_document
      <4>1. first_document # 0 => IsDocument(first_document) /\ first_document \in Recorded
        BY DEF MarksOK, LogTypes
      <4>2. i \in Nat /\ (first_document # 0 => first_document \in Nat)
        BY <3>1, <4>1, EntryTypes
      <4>3. QED
        BY <2>4, <3>1, <4>1, <4>2 DEF IsDocument
    <3>3. of[i] <= shown
      BY <2>4, <3>1, <3>2 DEF PartedOK, IsDocument
    <3>4. QED
      BY <1>1, <2>1, <3>1, <3>3
  <2>5. \A m \in old_console \cup console : source[m] < content
    BY <1>1, <2>1 DEF RetiresOnlyTheReplaced
  <2>6. QED
    BY <2>1, <2>2, <2>3, <2>4, <2>5 DEF RetiresOnlyTheReplaced
<1>9. CASE OnConsole
  <2>1. /\ announced[1][2] \in Document /\ announced[1] = <<"console", announced[1][2]>>
        /\ 1 \in DOMAIN announced /\ Head(announced) = announced[1]
        /\ DOMAIN announced = 1..Len(announced)
    BY <1>9, HeardOne DEF OnConsole
  <2>2. announced[1][2] = shown
    <3>1. ~IsCommit(1)
      BY <2>1 DEF IsCommit
    <3>2. CASE content = shown
      BY <2>1, <3>1, <3>2 DEF TabOK
    <3>3. CASE content # shown
      <4>1. PICK j \in DOMAIN announced : IsCommit(j)
        BY <3>3 DEF TabOK
      <4>2. 1 < j
        BY <2>1, <3>1, <4>1
      <4>3. QED
        BY <2>1, <4>1, <4>2 DEF TabOK
    <3>4. QED
      BY <3>2, <3>3
  <2>3. /\ source' = Append(source, shown)
        /\ console' \subseteq console \cup {Len(source')}
        /\ UNCHANGED <<preserved, old_console, kind, of, shown>>
    BY <1>9, <2>1, <2>2 DEF OnConsole, logVars, requestVars, Newest
  <2>4. /\ Len(source') = Len(source) + 1
        /\ source'[Len(source) + 1] = shown
        /\ \A m \in DOMAIN source : source'[m] = source[m]
    BY <2>1, <2>2, <2>3, MessageTypes
  <2>5. QED
    BY <1>1, <2>3, <2>4 DEF RetiresOnlyTheReplaced
<1>10. QED
  BY <1>3, <1>5, <1>6, <1>7, <1>8, <1>9 DEF Next

\* Nothing that the shown document asked for or wrote, or one to come asked
\* for, is taken out of the listing (network.py, _rotate): where the tab waits
\* for its commit, and a document that came without a request asks for nothing
\* before its own.
THEOREM RetiresOnlyTheReplacedTheorem ==
    ASSUME ~Overlap, ~Early PROVE Spec => []RetiresOnlyTheReplaced
<1>1. Init => PartedOK /\ RetiresOnlyTheReplaced
  <2> SUFFICES ASSUME Init PROVE PartedOK /\ RetiresOnlyTheReplaced
    OBVIOUS
  <2>1. Recorded = {} /\ preserved = {} /\ console = {} /\ old_console = {}
    BY DEF Init, Recorded
  <2>2. QED
    BY <2>1 DEF PartedOK, RetiresOnlyTheReplaced
<1>2. /\ TypeOK /\ TabOK /\ MarksOK
      /\ PartedOK /\ RetiresOnlyTheReplaced
      /\ [Next]_vars
      => (PartedOK /\ RetiresOnlyTheReplaced)'
  BY PartedKept, ReplacedKept, NetworkConstants
<1>3. QED
  BY <1>1, <1>2, MarksCorrect, PTL DEF Spec

=============================================================================
