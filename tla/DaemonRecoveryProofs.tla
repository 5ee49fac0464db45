------------------------- MODULE DaemonRecoveryProofs -------------------------
(***************************************************************************)
(* No restart of the daemon is missed, and none is reported to a call that *)
(* began after it had been: for any number of requests and of daemons,     *)
(* whatever the renewals say or leave unsaid, and wherever the requests,   *)
(* their cancellations, the daemons and the heartbeat are interleaved.     *)
(*                                                                         *)
(* The lease never knows an older daemon than it knew, unless it knows     *)
(* none; what it forgets of them is a notice or on its way; and no report  *)
(* made or to be made is of the daemon it knows.                           *)
(***************************************************************************)
EXTENDS DaemonRecovery, TLAPS

TypeOK ==
    /\ spawned \in Nat \ {0}
    /\ daemon \in {0, spawned}
    /\ closing \in BOOLEAN /\ (closing => daemon # 0)
    /\ bound \in 0..spawned
    /\ notice \in BOOLEAN /\ hinted \in BOOLEAN /\ recent \in BOOLEAN
    /\ pc \in [Request -> PC]
    /\ sent_to \in [Request -> Nat]
    /\ landed \in [Request -> Nat]
    /\ refusals \in [Request -> Nat]
    /\ \A r \in Request : pc[r] = "running" => landed[r] # 0
    /\ repairs \subseteq {r \in Request : ~Reports(r)}
    /\ visited \subseteq 1..spawned
    /\ covers \in [Request -> Int]
    /\ reported \in Nat
    /\ knew \in [Request -> Nat]
    /\ alarmed \subseteq Request

\* Nothing but initialize is under way before that is answered.
HandshakeOK ==
    \A o \in Request : Kind[o] = "opening" /\ pc[o] # "answered" =>
        /\ \A r \in Request : Kind[r] # "opening" => pc[r] = "new"
        /\ visited = {} /\ reported = 0

-----------------------------------------------------------------------------
(* What is lost, told and known. *)

\* The lease has known every daemon that is remembered to have answered.
LossesOK ==
    /\ bound = 0 => visited = {}
    /\ LossesArePending

\* The pending notice is of a daemon that was replaced.
Signal == notice /\ ~hinted

\* Losses that are not of the daemon the lease knows, nor of the one a notice is of.
Past(losses) ==
    /\ losses < spawned
    /\ bound # 0 => losses < bound
    /\ Signal => losses + 1 < bound

ReportsOK ==
    /\ Signal => bound # 0
    /\ Past(reported)
    /\ \A r \in Request : Reports(r) =>
          /\ pc[r] = "adopting" => covers[r] < spawned
          /\ pc[r] \in {"dropping", "clearing"} => Past(covers[r])

\* The daemon that the next answer of a living one is from.
Fresh == IF NoneLives THEN spawned + 1 ELSE daemon

\* What a call knew when it began is of a daemon before any it is sent to, it
\* waits for or it reports.
Knows(r) ==
    /\ pc[r] # "new" => knew[r] <= reported
    /\ sent_to[r] # 0 => /\ knew[r] < sent_to[r] /\ sent_to[r] <= spawned
                         /\ bound # 0 => sent_to[r] <= bound
    /\ pc[r] \in {"abandoning", "locking", "ensuring", "rechecking"} => knew[r] + 1 < Fresh
    /\ pc[r] \in {"adopting", "dropping", "clearing"} => knew[r] < covers[r]

KnewOK ==
    \A r \in Request : Reports(r) =>
        /\ pc[r] = "new" => sent_to[r] = 0
        /\ r \notin alarmed => Knows(r)

-----------------------------------------------------------------------------
(* What the steps are made of. *)

LEMMA PlacesArePlaces ==
    /\ Forwarded \subseteq PC /\ Respawning \subseteq PC /\ Outcomes \subseteq PC /\ Awaiting \subseteq PC
    /\ {"precheck", "failing", "abandoning", "clearing"} \subseteq PC
BY DEF PC, Awaiting, Forwarded, Respawning, Outcomes

LEMMA WentTo ==
    ASSUME TypeOK, NEW r \in Request, NEW where \in PC, Goto(r, where)
    PROVE  pc' \in [Request -> PC] /\ pc'[r] = where /\ \A s \in Request : s # r => pc'[s] = pc[s]
BY DEF TypeOK, Goto

LEMMA CoversOne ==
    ASSUME TypeOK, NEW r \in Request, NEW found \in Nat, Covers(r, found)
    PROVE  /\ covers' \in [Request -> Int] /\ covers'[r] = found - 1
           /\ \A s \in Request : s # r => covers'[s] = covers[s]
BY DEF TypeOK, Covers

\* What a verdict says of the daemon.
LEMMA VerdictsAre ==
    ASSUME NEW r \in Request, NEW verdict \in Verdicts \cup VerdictsFor(r)
    PROVE  /\ verdict = "alive" => ~NoneLives
           /\ verdict = "gone" => NoneLives \/ pc[r] \in RefuseAt
BY DEF Verdicts, VerdictsFor

\* The lease never knows an older daemon than before, and a newer one than the
\* one it knew is a notice.
LEMMA ObservedOne ==
    ASSUME TypeOK, NEW verdict, verdict = "alive" => ~NoneLives
    PROVE  /\ Observed(verdict) \in 0..spawned /\ bound <= Observed(verdict)
           /\ Raises(verdict) => bound # 0 /\ bound < Observed(verdict)
           /\ ~Raises(verdict) => Observed(verdict) = bound \/ bound = 0
           /\ Observed(verdict) # bound => verdict = "alive" /\ Observed(verdict) = Fresh
           /\ verdict = "alive" => Observed(verdict) = daemon /\ daemon = spawned
BY DEF TypeOK, Observed, Raises, NoneLives, Fresh

LEMMA Checked ==
    ASSUME TypeOK, NEW verdict, verdict = "alive" => ~NoneLives, Check(verdict)
    PROVE  /\ bound' \in 0..spawned /\ bound <= bound' /\ notice' \in BOOLEAN /\ hinted' \in BOOLEAN
           /\ notice => notice'
           /\ notice' => notice \/ (bound # 0 /\ bound < bound')
           /\ ~notice' => bound' = bound \/ bound = 0
           /\ bound' # bound => bound' = Fresh
<1>1. bound' = Observed(verdict) /\ (notice' <=> notice \/ Raises(verdict))
  BY DEF Check
<1>2. notice' \in BOOLEAN /\ hinted' \in BOOLEAN
  BY DEF Check, TypeOK, Raises
<1>3. QED
  BY <1>1, <1>2, ObservedOne

\* What is reported, and what is left of the daemons that answered.
LEMMA Reported ==
    ASSUME TypeOK, NEW r \in Request, covers' \in [Request -> Int], Report(r)
    PROVE  /\ pc' \in [Request -> PC] /\ pc'[r] = "restarted" /\ \A s \in Request : s # r => pc'[s] = pc[s]
           /\ reported' \in Nat /\ reported <= reported' /\ UNCHANGED <<knew, alarmed>>
           /\ reported' \in {reported, covers'[r]}
           /\ visited' \subseteq visited
           /\ Reports(r) => covers'[r] <= reported' /\ \A d \in visited' : covers'[r] < d
           /\ ~Reports(r) => reported' = reported
<1>1. pc' \in [Request -> PC] /\ pc'[r] = "restarted" /\ \A s \in Request : s # r => pc'[s] = pc[s]
  <2>1. "restarted" \in PC
    BY DEF PC, Outcomes
  <2>2. QED
    BY <2>1, WentTo DEF Report
<1>2. reported \in Nat /\ covers'[r] \in Int /\ visited \subseteq 1..spawned /\ spawned \in Nat
  BY DEF TypeOK
<1>3. CASE ~Reports(r)
  BY <1>1, <1>2, <1>3 DEF Report
<1>4. CASE Reports(r)
  <2>1. /\ visited' = visited \ 1..covers'[r]
        /\ reported' = IF covers'[r] > reported THEN covers'[r] ELSE reported
    BY <1>4 DEF Report
  <2>2. ASSUME NEW d \in visited' PROVE covers'[r] < d
    BY <1>2, <2>1
  <2>3. /\ reported' \in Nat /\ reported <= reported' /\ reported' \in {reported, covers'[r]}
        /\ covers'[r] <= reported'
    BY <1>2, <2>1
  <2>4. QED
    BY <1>1, <1>4, <2>1, <2>2, <2>3 DEF Report
<1>5. QED
  BY <1>3, <1>4

LEMMA UnwatchedTypes ==
    ASSUME TypeOK, NEW r \in Request, Unwatched(r)
    PROVE  /\ landed' \in [Request -> Nat] /\ refusals' \in [Request -> Nat]
           /\ \A s \in Request : s # r => landed'[s] = landed[s]
BY DEF TypeOK, Unwatched

LEMMA ForgetsTypes ==
    ASSUME TypeOK, NEW r \in Request, Forgets(r)
    PROVE  /\ sent_to' \in [Request -> Nat] /\ sent_to'[r] = 0
           /\ \A s \in Request : s # r => sent_to'[s] = sent_to[s]
BY DEF TypeOK, Forgets

-----------------------------------------------------------------------------
(* Types. *)

\* A request that goes on, but to run.
LEMMA PlaceTypes ==
    ASSUME TypeOK, NEW r \in Request, NEW where \in PC \ {"running"}, Goto(r, where),
           \A s \in Request : s # r => landed'[s] = landed[s]
    PROVE  pc' \in [Request -> PC] /\ \A s \in Request : pc'[s] = "running" => landed'[s] # 0
<1>1. pc' \in [Request -> PC] /\ pc'[r] = where /\ \A s \in Request : s # r => pc'[s] = pc[s]
  BY WentTo
<1>2. QED
  BY <1>1 DEF TypeOK

LEMMA WorldTypes ==
    ASSUME TypeOK, Die \/ BeginClosing \/ OtherProxySpawns \/ Heartbeat \/ CooldownEnds
    PROVE  TypeOK'
<1>1. CASE Die
  BY <1>1 DEF Die, TypeOK, proxyVars, requestVars, historyVars
<1>2. CASE BeginClosing
  BY <1>2 DEF BeginClosing, TypeOK, proxyVars, requestVars, historyVars
<1>3. CASE OtherProxySpawns
  <2>1. /\ spawned' = spawned + 1 /\ daemon' = spawned' /\ closing' = closing /\ daemon = 0
        /\ UNCHANGED <<proxyVars, requestVars, historyVars>>
    BY <1>3 DEF OtherProxySpawns, Spawn
  <2>2. spawned' \in Nat \ {0} /\ \A n \in 0..spawned : n \in 0..spawned'
    BY <2>1 DEF TypeOK
  <2>3. visited' \subseteq 1..spawned'
    BY <2>1 DEF TypeOK, historyVars
  <2>4. QED
    BY <2>1, <2>2, <2>3 DEF TypeOK, proxyVars, requestVars, historyVars
<1>4. CASE Heartbeat
  <2>1. PICK verdict \in Verdicts : Check(verdict)
    BY <1>4 DEF Heartbeat
  <2>2. verdict = "alive" => ~NoneLives
    BY <2>1 DEF Verdicts
  <2>3. bound' \in 0..spawned /\ notice' \in BOOLEAN /\ hinted' \in BOOLEAN
    BY <2>1, <2>2, Checked
  <2>4. QED
    BY <1>4, <2>3 DEF Heartbeat, TypeOK, worldVars, requestVars, historyVars
<1>5. CASE CooldownEnds
  BY <1>5 DEF CooldownEnds, TypeOK, worldVars, requestVars, historyVars
<1>6. QED
  BY <1>1, <1>2, <1>3, <1>4, <1>5

LEMMA SendTypes ==
    ASSUME TypeOK, NEW r \in Request,
           Begin(r) \/ PrecheckFindsNone(r) \/ PrecheckPasses(r) \/ Lands(r) \/ Answered(r)
    PROVE  TypeOK'
<1> USE PlacesArePlaces DEF Forwarded, Respawning, Outcomes
<1>1. CASE Begin(r)
  <2>1. pc' \in [Request -> PC] /\ \A s \in Request : pc'[s] = "running" => landed'[s] # 0
    BY <1>1, PlaceTypes DEF Begin
  <2>2. knew' \in [Request -> Nat] /\ sent_to' \in [Request -> Nat]
    BY <1>1 DEF Begin, TypeOK
  <2>3. QED
    BY <1>1, <2>1, <2>2 DEF Begin, TypeOK, worldVars, proxyVars
<1>2. CASE PrecheckFindsNone(r)
  <2>1. pc' \in [Request -> PC] /\ \A s \in Request : pc'[s] = "running" => landed'[s] # 0
    BY <1>2, PlaceTypes DEF PrecheckFindsNone
  <2>2. repairs' \subseteq {s \in Request : ~Reports(s)} /\ alarmed' \subseteq Request
    BY <1>2 DEF PrecheckFindsNone, TypeOK, Alarms
  <2>3. QED
    BY <1>2, <2>1, <2>2 DEF PrecheckFindsNone, TypeOK, worldVars, proxyVars, Reports
<1>3. CASE PrecheckPasses(r)
  <2>1. PICK verdict \in VerdictsFor(r) :
          LET pending == notice \/ Raises(verdict)
          IN  /\ bound' = Observed(verdict)
              /\ notice' = (pending /\ Kind[r] # "opening" /\ ~Reports(r))
              /\ hinted' = (hinted /\ notice' /\ ~Raises(verdict))
              /\ IF pending /\ Reports(r)
                 THEN Covers(r, bound') /\ Report(r) /\ UNCHANGED sent_to
                 ELSE /\ Goto(r, "sent")
                      /\ sent_to' = [sent_to EXCEPT ![r] = Observed(verdict)]
                      /\ UNCHANGED historyVars
    BY <1>3 DEF PrecheckPasses
  <2>2. Observed(verdict) \in 0..spawned /\ spawned \in Nat
    BY VerdictsAre, ObservedOne DEF TypeOK
  <2>3. bound' \in 0..spawned /\ notice' \in BOOLEAN /\ hinted' \in BOOLEAN /\ bound' \in Nat
    BY <2>1, <2>2
  <2>4. /\ pc' \in [Request -> PC]
        /\ \A s \in Request : pc'[s] = "running" => landed'[s] # 0
        /\ sent_to' \in [Request -> Nat]
        /\ visited' \subseteq visited /\ covers' \in [Request -> Int] /\ reported' \in Nat
        /\ UNCHANGED <<knew, alarmed>>
    <3>1. CASE Covers(r, bound') /\ Report(r) /\ UNCHANGED sent_to
      <4>1. covers' \in [Request -> Int]
        BY <2>3, <3>1, CoversOne
      <4>2. Goto(r, "restarted") /\ landed' = landed
        BY <1>3, <3>1 DEF Report, PrecheckPasses
      <4>3. QED
        BY <3>1, <4>1, <4>2, Reported, PlaceTypes DEF TypeOK
    <3>2. CASE /\ Goto(r, "sent")
               /\ sent_to' = [sent_to EXCEPT ![r] = Observed(verdict)]
               /\ UNCHANGED historyVars
      <4>1. landed' = landed
        BY <1>3 DEF PrecheckPasses
      <4>2. sent_to' \in [Request -> Nat]
        BY <2>2, <3>2 DEF TypeOK
      <4>3. QED
        BY <3>2, <4>1, <4>2, PlaceTypes DEF TypeOK, historyVars
    <3>3. QED
      BY <2>1, <3>1, <3>2
  <2>5. QED
    BY <1>3, <2>3, <2>4 DEF PrecheckPasses, TypeOK, worldVars
<1>4. CASE Lands(r)
  <2>1. pc' \in [Request -> PC] /\ pc'[r] = "running" /\ \A s \in Request : s # r => pc'[s] = pc[s]
    BY <1>4, WentTo DEF Lands
  <2>2. landed' \in [Request -> Nat] /\ \A s \in Request : pc'[s] = "running" => landed'[s] # 0
    BY <1>4, <2>1 DEF Lands, TypeOK
  <2>3. QED
    BY <1>4, <2>1, <2>2 DEF Lands, TypeOK, worldVars, proxyVars, historyVars
<1>5. CASE Answered(r)
  <2>1. /\ landed' \in [Request -> Nat] /\ refusals' \in [Request -> Nat]
        /\ \A s \in Request : s # r => landed'[s] = landed[s]
    BY <1>5, UnwatchedTypes DEF Answered
  <2>2. pc' \in [Request -> PC] /\ \A s \in Request : pc'[s] = "running" => landed'[s] # 0
    BY <1>5, <2>1, PlaceTypes DEF Answered
  <2>3. sent_to' \in [Request -> Nat]
    BY <1>5, ForgetsTypes DEF Answered
  <2>4. daemon = spawned /\ visited' \subseteq visited \cup {daemon}
    BY <1>5 DEF Answered, TypeOK
  <2>5. visited' \subseteq 1..spawned
    BY <2>4 DEF TypeOK
  <2>6. QED
    BY <1>5, <2>1, <2>2, <2>3, <2>5 DEF Answered, TypeOK, worldVars, proxyVars
<1>6. QED
  BY <1>1, <1>2, <1>3, <1>4, <1>5

LEMMA LoseTypes ==
    ASSUME TypeOK, NEW r \in Request,
           Raised(r) \/ Watch(r) \/ Vanished(r) \/ FailureIsLost(r) \/ FailureIsItsOwn(r) \/ Cleared(r)
    PROVE  TypeOK'
<1> USE PlacesArePlaces DEF Forwarded, Respawning, Outcomes
<1>1. CASE Raised(r)
  <2>1. /\ landed' \in [Request -> Nat] /\ refusals' \in [Request -> Nat]
        /\ \A s \in Request : s # r => landed'[s] = landed[s]
    BY <1>1, UnwatchedTypes DEF Raised
  <2>2. pc' \in [Request -> PC] /\ \A s \in Request : pc'[s] = "running" => landed'[s] # 0
    BY <1>1, <2>1, PlaceTypes DEF Raised
  <2>3. QED
    BY <1>1, <2>1, <2>2 DEF Raised, TypeOK, worldVars, proxyVars, historyVars
<1>2. CASE Watch(r)
  <2>1. PICK verdict \in VerdictsFor(r) :
          LET n == IF verdict = "gone" THEN refusals[r] + 1 ELSE 0
          IN  /\ Check(verdict)
              /\ \/ Goto(r, "abandoning") /\ Unwatched(r)
                 \/ refusals' = [refusals EXCEPT ![r] = n] /\ UNCHANGED <<pc, landed>>
    BY <1>2 DEF Watch, Finds
  <2>2. bound' \in 0..spawned /\ notice' \in BOOLEAN /\ hinted' \in BOOLEAN
    BY <2>1, VerdictsAre, Checked
  <2>3. /\ pc' \in [Request -> PC] /\ \A s \in Request : pc'[s] = "running" => landed'[s] # 0
        /\ landed' \in [Request -> Nat] /\ refusals' \in [Request -> Nat]
    <3>1. CASE Goto(r, "abandoning") /\ Unwatched(r)
      BY <3>1, UnwatchedTypes, PlaceTypes
    <3>2. CASE UNCHANGED <<pc, landed>> /\ \E n \in Nat : refusals' = [refusals EXCEPT ![r] = n]
      BY <3>2 DEF TypeOK
    <3>3. refusals[r] + 1 \in Nat
      BY DEF TypeOK
    <3>4. QED
      BY <2>1, <3>1, <3>2, <3>3
  <2>4. QED
    BY <1>2, <2>2, <2>3 DEF Watch, TypeOK, worldVars, historyVars
<1>3. ASSUME NEW moved \in BOOLEAN, ReplacedOrRecover(r, moved), bound' \in 0..spawned, notice' \in BOOLEAN, hinted' \in BOOLEAN,
             alarmed' \subseteq Request
      PROVE  TypeOK'
  <2>1. /\ Goto(r, IF moved THEN "clearing" ELSE "locking") /\ UNCHANGED <<landed, refusals>>
        /\ UNCHANGED <<worldVars, recent, repairs, visited, reported, knew>>
    BY <1>3 DEF ReplacedOrRecover
  <2>2. pc' \in [Request -> PC] /\ \A s \in Request : pc'[s] = "running" => landed'[s] # 0
    <3>1. CASE moved
      BY <2>1, <3>1, PlaceTypes
    <3>2. CASE ~moved
      BY <2>1, <3>2, PlaceTypes
    <3>3. QED
      BY <3>1, <3>2
  <2>3. sent_to' \in [Request -> Nat]
    BY <1>3, ForgetsTypes DEF ReplacedOrRecover
  <2>4. covers' \in [Request -> Int]
    <3>1. bound' \in Nat
      BY <1>3 DEF TypeOK
    <3>2. covers' = covers \/ Covers(r, bound')
      BY <1>3 DEF ReplacedOrRecover
    <3>3. QED
      BY <3>1, <3>2, CoversOne DEF TypeOK
  <2>5. QED
    BY <1>3, <2>1, <2>2, <2>3, <2>4 DEF TypeOK, worldVars
<1>4. CASE Vanished(r)
  <2>1. /\ bound' \in 0..spawned /\ notice' \in BOOLEAN /\ hinted' \in BOOLEAN /\ Moved(r) \in BOOLEAN
        /\ alarmed' \subseteq Request
    BY <1>4 DEF Vanished, TypeOK, Moved
  <2>2. QED
    BY <1>3, <1>4, <2>1 DEF Vanished
<1>5. CASE FailureIsLost(r)
  <2>1. PICK verdict \in VerdictsFor(r) :
          LET moved == verdict # "gone" /\ sent_to[r] # 0 /\ Observed(verdict) \notin {0, sent_to[r]}
          IN  /\ bound' = Observed(verdict)
              /\ notice' = ((notice \/ Raises(verdict)) /\ ~(moved /\ Reports(r)))
              /\ hinted' = (hinted /\ notice' /\ ~Raises(verdict))
              /\ IF moved THEN UNCHANGED alarmed ELSE Alarms(r)
              /\ ReplacedOrRecover(r, moved)
    BY <1>5 DEF FailureIsLost
  <2> DEFINE moved == verdict # "gone" /\ sent_to[r] # 0 /\ Observed(verdict) \notin {0, sent_to[r]}
  <2>2. bound' \in 0..spawned
    BY <2>1, VerdictsAre, ObservedOne
  <2>3. notice' \in BOOLEAN /\ hinted' \in BOOLEAN /\ moved \in BOOLEAN /\ ReplacedOrRecover(r, moved)
    BY <2>1
  <2>5. alarmed' \subseteq Request
    BY <2>1 DEF Alarms, TypeOK
  <2> HIDE DEF moved
  <2>4. QED
    BY <1>3, <2>2, <2>3, <2>5
<1>6. CASE FailureIsItsOwn(r)
  <2>1. PICK verdict \in VerdictsFor(r) : Check(verdict)
    BY <1>6 DEF FailureIsItsOwn
  <2>2. bound' \in 0..spawned /\ notice' \in BOOLEAN /\ hinted' \in BOOLEAN
    BY <2>1, VerdictsAre, Checked
  <2>3. pc' \in [Request -> PC] /\ \A s \in Request : pc'[s] = "running" => landed'[s] # 0
    BY <1>6, PlaceTypes DEF FailureIsItsOwn
  <2>4. sent_to' \in [Request -> Nat]
    BY <1>6, ForgetsTypes DEF FailureIsItsOwn
  <2>5. QED
    BY <1>6, <2>2, <2>3, <2>4 DEF FailureIsItsOwn, TypeOK, worldVars, historyVars
<1>7. CASE Cleared(r)
  <2>1. /\ Goto(r, "restarted") /\ Report(r) /\ covers' = covers /\ landed' = landed
        /\ UNCHANGED <<worldVars, proxyVars, sent_to, refusals, repairs>>
    BY <1>7 DEF Cleared, Report
  <2>2. pc' \in [Request -> PC] /\ \A s \in Request : pc'[s] = "running" => landed'[s] # 0
    BY <2>1, PlaceTypes
  <2>3. reported' \in Nat /\ visited' \subseteq visited /\ UNCHANGED <<knew, alarmed>>
    BY <2>1, Reported DEF TypeOK
  <2>4. QED
    BY <2>1, <2>2, <2>3 DEF TypeOK, worldVars, proxyVars
<1>8. QED
  BY <1>1, <1>2, <1>4, <1>5, <1>6, <1>7

LEMMA RespawnTypes ==
    ASSUME TypeOK, NEW r \in Request,
           \/ TakeLock(r) \/ Rechecked(r) \/ Ensured(r) \/ Adopted(r) \/ Recovered(r)
           \/ Repaired(r) \/ Cancel(r)
    PROVE  TypeOK'
<1> USE PlacesArePlaces DEF Forwarded, Respawning, Outcomes
<1>1. CASE TakeLock(r)
  <2>1. \E where \in {"rechecking", "ensuring"} : Goto(r, where)
    BY <1>1 DEF TakeLock
  <2>2. pc' \in [Request -> PC] /\ \A s \in Request : pc'[s] = "running" => landed'[s] # 0
    BY <1>1, <2>1, PlaceTypes DEF TakeLock
  <2>3. QED
    BY <1>1, <2>2 DEF TakeLock, TypeOK, worldVars, historyVars
<1>2. CASE Rechecked(r)
  <2>1. PICK verdict \in VerdictsFor(r) :
          /\ Check(verdict)
          /\ IF verdict = "alive"
             THEN Goto(r, "adopting") /\ Covers(r, daemon)
             ELSE Goto(r, "unrecovered") /\ UNCHANGED covers
    BY <1>2 DEF Rechecked
  <2>2. bound' \in 0..spawned /\ notice' \in BOOLEAN /\ hinted' \in BOOLEAN
    BY <2>1, VerdictsAre, Checked
  <2>3. \E where \in {"adopting", "unrecovered"} : Goto(r, where)
    BY <2>1
  <2>4. pc' \in [Request -> PC] /\ \A s \in Request : pc'[s] = "running" => landed'[s] # 0
    BY <1>2, <2>3, PlaceTypes DEF Rechecked
  <2>5. covers' \in [Request -> Int]
    BY <2>1, CoversOne DEF TypeOK
  <2>6. QED
    BY <1>2, <2>2, <2>4, <2>5 DEF Rechecked, TypeOK, worldVars
<1>3. CASE Ensured(r)
  <2>1. \E where \in {"adopting", "unrecovered"} : Goto(r, where)
    BY <1>3 DEF Ensured
  <2>2. pc' \in [Request -> PC] /\ \A s \in Request : pc'[s] = "running" => landed'[s] # 0
    BY <1>3, <2>1, PlaceTypes DEF Ensured
  <2>3. /\ spawned' \in Nat \ {0} /\ daemon' \in {0, spawned'} /\ closing' = closing
        /\ spawned <= spawned' /\ (daemon' = 0 => daemon = 0)
    BY <1>3 DEF Ensured, Spawn, worldVars, TypeOK
  <2>4. covers' \in [Request -> Int]
    BY <1>3, <2>3, CoversOne DEF Ensured, TypeOK
  <2>5. bound' \in 0..spawned' /\ visited' \subseteq 1..spawned'
    BY <1>3, <2>3 DEF Ensured, TypeOK, proxyVars
  <2>6. QED
    BY <1>3, <2>2, <2>3, <2>4, <2>5 DEF Ensured, TypeOK, proxyVars
<1>4. CASE Adopted(r)
  <2>1. PICK verdict \in VerdictsFor(r) : bound' = IF verdict = "alive" THEN daemon ELSE 0
    BY <1>4 DEF Adopted
  <2>2. bound' \in 0..spawned /\ bound' \in Nat
    BY <2>1 DEF TypeOK
  <2>3. pc' \in [Request -> PC] /\ \A s \in Request : pc'[s] = "running" => landed'[s] # 0
    BY <1>4, PlaceTypes DEF Adopted
  <2>4. covers' \in [Request -> Int]
    BY <1>4, <2>2, CoversOne DEF Adopted, TypeOK
  <2>5. visited' \subseteq 1..spawned /\ notice' = FALSE /\ hinted' = FALSE
    BY <1>4 DEF Adopted, TypeOK
  <2>6. QED
    BY <1>4, <2>2, <2>3, <2>4, <2>5 DEF Adopted, TypeOK, worldVars
<1>5. CASE Recovered(r)
  <2>1. /\ Goto(r, "restarted") /\ Report(r) /\ covers' = covers /\ landed' = landed
        /\ UNCHANGED <<worldVars, bound, recent, sent_to, refusals, repairs>>
        /\ notice' \in BOOLEAN /\ hinted' \in BOOLEAN
    BY <1>5 DEF Recovered, Report, Hints, TypeOK
  <2>2. pc' \in [Request -> PC] /\ \A s \in Request : pc'[s] = "running" => landed'[s] # 0
    BY <2>1, PlaceTypes
  <2>3. reported' \in Nat /\ visited' \subseteq visited /\ UNCHANGED <<knew, alarmed>>
    BY <2>1, Reported DEF TypeOK
  <2>4. QED
    BY <2>1, <2>2, <2>3 DEF TypeOK, worldVars
<1>6. CASE Repaired(r)
  <2>1. pc' \in [Request -> PC] /\ \A s \in Request : pc'[s] = "running" => landed'[s] # 0
    BY <1>6, PlaceTypes DEF Repaired
  <2>2. sent_to' \in [Request -> Nat] /\ repairs' \subseteq repairs
    BY <1>6 DEF Repaired, TypeOK
  <2>3. UNCHANGED <<notice, hinted>> \/ Hints
    BY <1>6 DEF Repaired
  <2>4. notice' \in BOOLEAN /\ hinted' \in BOOLEAN
    BY <2>3 DEF Hints, TypeOK
  <2>5. QED
    BY <1>6, <2>1, <2>2, <2>4 DEF Repaired, TypeOK, worldVars, historyVars
<1>7. CASE Cancel(r)
  <2>1. /\ landed' \in [Request -> Nat] /\ refusals' \in [Request -> Nat]
        /\ \A s \in Request : s # r => landed'[s] = landed[s]
    BY <1>7, UnwatchedTypes DEF Cancel
  <2>2. pc' \in [Request -> PC] /\ \A s \in Request : pc'[s] = "running" => landed'[s] # 0
    BY <1>7, <2>1, PlaceTypes DEF Cancel
  <2>3. sent_to' \in [Request -> Nat] /\ repairs' \subseteq repairs /\ visited' \subseteq visited
    BY <1>7, ForgetsTypes DEF Cancel
  <2>4. QED
    BY <1>7, <2>1, <2>2, <2>3 DEF Cancel, TypeOK, worldVars, proxyVars
<1>8. QED
  BY <1>1, <1>2, <1>3, <1>4, <1>5, <1>6, <1>7

LEMMA TypesKept ==
    ASSUME TypeOK, [Next]_vars
    PROVE  TypeOK'
<1>1. CASE UNCHANGED vars
  BY <1>1 DEF vars, worldVars, proxyVars, requestVars, historyVars, TypeOK
<1>2. CASE Next
  BY <1>2, WorldTypes, SendTypes, LoseTypes, RespawnTypes DEF Next, Serve, Settle
<1>3. QED
  BY <1>1, <1>2

\* Of every reachable state: the types.
THEOREM TypeCorrect == Spec => []TypeOK
<1>1. Init => TypeOK
  <2> SUFFICES ASSUME Init PROVE TypeOK
    OBVIOUS
  <2>1. pc \in [Request -> PC] /\ \A r \in Request : pc[r] # "running"
    BY DEF Init, PC
  <2>2. bound \in 0..1 /\ spawned = 1 /\ daemon \in {0, 1}
    BY DEF Init
  <2>3. /\ sent_to \in [Request -> Nat] /\ landed \in [Request -> Nat] /\ refusals \in [Request -> Nat]
        /\ knew \in [Request -> Nat]
    BY DEF Init
  <2>4. covers \in [Request -> Int]
    BY DEF Init
  <2>5. repairs \subseteq {r \in Request : ~Reports(r)} /\ visited \subseteq 1..spawned /\ reported \in Nat
    BY DEF Init
  <2>6. closing = FALSE /\ notice = FALSE /\ hinted = FALSE /\ recent = FALSE /\ alarmed = {}
    BY DEF Init
  <2>7. spawned \in Nat \ {0} /\ daemon \in {0, spawned} /\ bound \in 0..spawned
    BY <2>2
  <2>8. /\ closing \in BOOLEAN /\ (closing => daemon # 0) /\ notice \in BOOLEAN /\ hinted \in BOOLEAN
        /\ recent \in BOOLEAN /\ alarmed \subseteq Request
        /\ \A r \in Request : pc[r] = "running" => landed[r] # 0
    BY <2>1, <2>6
  <2>9. QED
    BY <2>1, <2>3, <2>4, <2>5, <2>7, <2>8 DEF TypeOK
<1>2. TypeOK /\ [Next]_vars => TypeOK'
  BY TypesKept
<1>3. QED
  BY <1>1, <1>2, PTL DEF Spec

-----------------------------------------------------------------------------
(* The handshake. *)

Step(r) == Begin(r) \/ Serve(r) \/ Watch(r) \/ Settle(r) \/ Raised(r) \/ Cancel(r)

LEMMA NextIs ==
    ASSUME [Next]_vars
    PROVE  \/ UNCHANGED vars
           \/ Die \/ BeginClosing \/ OtherProxySpawns \/ Heartbeat \/ CooldownEnds
           \/ \E r \in Request : Step(r)
BY DEF Next, Step

LEMMA StepTypes ==
    ASSUME TypeOK, NEW r \in Request, Step(r)
    PROVE  TypeOK'
<1>1. Next
  BY DEF Step, Next
<1>2. QED
  BY <1>1, TypesKept

\* A step of a request moves no other, and none that has ended.
LEMMA OneMoves ==
    ASSUME TypeOK, NEW r \in Request, Step(r)
    PROVE  /\ \A s \in Request : s # r => pc'[s] = pc[s]
           /\ pc[r] \notin Outcomes
           /\ pc[r] = "new" => Begin(r)
<1> USE DEF Outcomes
<1>1. pc[r] \notin Outcomes /\ (pc[r] = "new" => Begin(r))
  BY RecoveryConstants
     DEF Step, Serve, Settle, Begin, PrecheckFindsNone, PrecheckPasses, Lands, Answered, Raised, Watch, Vanished,
         FailureIsLost, FailureIsItsOwn, Cleared, TakeLock, Rechecked, Ensured, Adopted, Recovered, Repaired,
         Cancel, RecoveryConstants, Awaiting, Forwarded, Respawning
<1>2. pc' = pc \/ \E where \in PC : Goto(r, where)
  <2> USE PlacesArePlaces DEF Forwarded, Respawning
  <2>1. CASE Begin(r) \/ PrecheckFindsNone(r) \/ Lands(r) \/ Answered(r) \/ Raised(r) \/ Cancel(r)
    BY <2>1 DEF Begin, PrecheckFindsNone, Lands, Answered, Raised, Cancel
  <2>2. CASE PrecheckPasses(r)
    BY <2>2 DEF PrecheckPasses, Report
  <2>3. CASE Watch(r)
    BY <2>3 DEF Watch, Finds
  <2>4. CASE Vanished(r) \/ FailureIsLost(r)
    BY <2>4 DEF Vanished, FailureIsLost, ReplacedOrRecover
  <2>5. CASE FailureIsItsOwn(r) \/ Cleared(r) \/ TakeLock(r) \/ Adopted(r) \/ Recovered(r) \/ Repaired(r)
    BY <2>5 DEF FailureIsItsOwn, Cleared, TakeLock, Adopted, Recovered, Repaired, Report
  <2>6. CASE Rechecked(r) \/ Ensured(r)
    BY <2>6 DEF Rechecked, Ensured
  <2>7. QED
    BY <2>1, <2>2, <2>3, <2>4, <2>5, <2>6 DEF Step, Serve, Settle
<1>3. \A s \in Request : s # r => pc'[s] = pc[s]
  BY <1>2, WentTo
<1>4. QED
  BY <1>1, <1>3

\* What a step of a request leaves of the others.
LEMMA Others ==
    ASSUME TypeOK, NEW r \in Request, Step(r)
    PROVE  \A s \in Request : s # r =>
              pc'[s] = pc[s] /\ sent_to'[s] = sent_to[s] /\ covers'[s] = covers[s] /\ knew'[s] = knew[s]
<1> SUFFICES ASSUME NEW s \in Request, s # r
             PROVE  sent_to'[s] = sent_to[s] /\ covers'[s] = covers[s] /\ knew'[s] = knew[s]
  BY OneMoves
<1> USE DEF TypeOK, Goto, Covers, Forgets, Report
<1>1. CASE Begin(r) \/ PrecheckFindsNone(r) \/ Lands(r) \/ Answered(r) \/ Raised(r) \/ Cancel(r)
  BY <1>1 DEF Begin, PrecheckFindsNone, Lands, Answered, Raised, Cancel, historyVars
<1>2. CASE PrecheckPasses(r)
  BY <1>2 DEF PrecheckPasses, historyVars
<1>3. CASE Watch(r) \/ FailureIsItsOwn(r)
  BY <1>3 DEF Watch, FailureIsItsOwn, historyVars
<1>4. CASE Vanished(r) \/ FailureIsLost(r)
  BY <1>4 DEF Vanished, FailureIsLost, ReplacedOrRecover
<1>5. CASE Cleared(r) \/ TakeLock(r) \/ Recovered(r) \/ Repaired(r)
  BY <1>5 DEF Cleared, TakeLock, Recovered, Repaired, historyVars
<1>6. CASE Rechecked(r) \/ Ensured(r) \/ Adopted(r)
  BY <1>6 DEF Rechecked, Ensured, Adopted
<1>7. QED
  BY <1>1, <1>2, <1>3, <1>4, <1>5, <1>6 DEF Step, Serve, Settle

\* Of a request that is no call no losses are reported, and no answer is remembered.
LEMMA OnlyCallsReport ==
    ASSUME NEW r \in Request, Step(r), ~Reports(r)
    PROVE  UNCHANGED reported /\ visited' \subseteq visited
<1>1. CASE Begin(r) \/ Serve(r) \/ Watch(r) \/ Raised(r) \/ Cancel(r)
  BY <1>1 DEF Begin, Serve, Lands, Answered, Watch, Raised, Cancel, historyVars
<1>2. CASE PrecheckFindsNone(r) \/ PrecheckPasses(r)
  BY <1>2 DEF PrecheckFindsNone, PrecheckPasses, historyVars
<1>3. CASE Vanished(r) \/ FailureIsLost(r) \/ FailureIsItsOwn(r) \/ Cleared(r)
  BY <1>3 DEF Vanished, FailureIsLost, ReplacedOrRecover, FailureIsItsOwn, Cleared, Report, historyVars
<1>4. CASE TakeLock(r) \/ Rechecked(r) \/ Ensured(r) \/ Adopted(r) \/ Recovered(r) \/ Repaired(r)
  BY <1>4 DEF TakeLock, Rechecked, Ensured, Adopted, Recovered, Repaired, Report, historyVars
<1>5. QED
  BY <1>1, <1>2, <1>3, <1>4 DEF Step, Settle

LEMMA HandshakeKept ==
    ASSUME TypeOK, HandshakeOK, [Next]_vars
    PROVE  HandshakeOK'
<1>1. CASE UNCHANGED <<pc, visited, reported>>
  BY <1>1 DEF HandshakeOK
<1>2. ASSUME NEW r \in Request, Step(r)
      PROVE  HandshakeOK'
  <2> SUFFICES ASSUME NEW o \in Request, Kind[o] = "opening", pc'[o] # "answered"
               PROVE  /\ \A s \in Request : Kind[s] # "opening" => pc'[s] = "new"
                      /\ visited' = {} /\ reported' = 0
    BY DEF HandshakeOK
  <2>1. /\ \A s \in Request : s # r => pc'[s] = pc[s]
        /\ pc[r] # "answered"
        /\ pc[r] = "new" => Begin(r)
    BY <1>2, OneMoves DEF Outcomes
  <2>2. pc[o] # "answered"
    BY <2>1
  <2>3. (\A s \in Request : Kind[s] # "opening" => pc[s] = "new") /\ visited = {} /\ reported = 0
    BY <2>2 DEF HandshakeOK
  <2>4. Kind[r] = "opening"
    BY <2>1, <2>2, <2>3 DEF Begin
  <2>5. UNCHANGED reported /\ visited' \subseteq visited
    BY <1>2, <2>4, OnlyCallsReport DEF Reports
  <2>6. QED
    BY <2>1, <2>3, <2>4, <2>5
<1>3. QED
  BY <1>1, <1>2, NextIs DEF vars, requestVars, historyVars, Die, BeginClosing, OtherProxySpawns, Heartbeat, CooldownEnds

\* Of every reachable state: nothing but initialize is under way before that is
\* answered.
THEOREM HandshakeCorrect == Spec => []HandshakeOK
<1>1. Init => HandshakeOK
  BY DEF Init, HandshakeOK
<1>2. TypeOK /\ HandshakeOK /\ [Next]_vars => HandshakeOK'
  BY HandshakeKept
<1>3. QED
  BY <1>1, <1>2, TypeCorrect, PTL DEF Spec

-----------------------------------------------------------------------------
(* How the daemon the lease knows is replaced, and when a notice is of that. *)

Moves ==
    /\ spawned <= spawned'
    /\ bound' \notin {0, bound} => bound < bound' /\ bound' = spawned
    /\ Signal' => (bound # 0 /\ bound < bound') \/ (Signal /\ bound' = bound)

LEMMA WorldMoves ==
    ASSUME NEW r \in Request, Step(r)
    PROVE  UNCHANGED worldVars \/ (Ensured(r) /\ Spawn)
<1>1. CASE Begin(r) \/ Serve(r) \/ Watch(r) \/ Raised(r) \/ Cancel(r)
  BY <1>1 DEF Begin, Serve, Lands, Answered, Watch, Raised, Cancel
<1>2. CASE PrecheckFindsNone(r) \/ PrecheckPasses(r)
  BY <1>2 DEF PrecheckFindsNone, PrecheckPasses
<1>3. CASE Vanished(r) \/ FailureIsLost(r) \/ FailureIsItsOwn(r) \/ Cleared(r)
  BY <1>3 DEF Vanished, FailureIsLost, ReplacedOrRecover, FailureIsItsOwn, Cleared
<1>4. CASE TakeLock(r) \/ Rechecked(r) \/ Ensured(r) \/ Adopted(r) \/ Recovered(r) \/ Repaired(r)
  BY <1>4 DEF TakeLock, Rechecked, Ensured, Adopted, Recovered, Repaired
<1>5. QED
  BY <1>1, <1>2, <1>3, <1>4 DEF Step, Settle

\* A step that asks the daemon.
LEMMA AskedMoves ==
    ASSUME TypeOK, Signal => bound # 0, NEW verdict, verdict = "alive" => ~NoneLives,
           bound' = Observed(verdict), UNCHANGED spawned,
           Signal' => Signal \/ Raises(verdict)
    PROVE  Moves
<1>1. spawned \in Nat /\ bound \in Nat
  BY DEF TypeOK
<1>2. CASE verdict = "alive"
  <2>1. bound' = daemon /\ daemon = spawned /\ bound <= bound'
    BY <1>2, ObservedOne
  <2>2. Raises(verdict) => bound # 0 /\ bound < bound'
    BY ObservedOne
  <2>3. ~Raises(verdict) => bound' = bound \/ bound = 0
    BY ObservedOne
  <2>4. QED
    BY <1>1, <2>1, <2>2, <2>3 DEF Moves
<1>3. CASE verdict # "alive"
  BY <1>1, <1>3 DEF Moves, Observed, Raises
<1>4. QED
  BY <1>2, <1>3

LEMMA CheckMoves ==
    ASSUME TypeOK, Signal => bound # 0, NEW verdict, verdict = "alive" => ~NoneLives, Check(verdict), UNCHANGED spawned
    PROVE  Moves
<1>1. bound' = Observed(verdict) /\ (Signal' => Signal \/ Raises(verdict))
  BY DEF Check, Signal
<1>2. QED
  BY <1>1, AskedMoves

LEMMA StillMoves ==
    ASSUME TypeOK, bound' = bound, spawned <= spawned', Signal' => Signal
    PROVE  Moves
BY DEF Moves

LEMMA HintsMoves ==
    ASSUME Hints
    PROVE  Signal' => Signal
BY DEF Hints, Signal

LEMMA StepMoves ==
    ASSUME TypeOK, Signal => bound # 0, NEW r \in Request, Step(r)
    PROVE  Moves
<1>1. spawned \in Nat /\ spawned <= spawned' /\ (UNCHANGED worldVars \/ Ensured(r))
  BY WorldMoves DEF Spawn, worldVars, TypeOK
<1>2. CASE UNCHANGED <<bound, notice, hinted>>
  BY <1>1, <1>2, StillMoves DEF Signal
<1>3. CASE Watch(r) \/ FailureIsItsOwn(r) \/ Rechecked(r)
  <2>1. (\E verdict \in VerdictsFor(r) : Check(verdict)) /\ UNCHANGED spawned
    BY <1>3 DEF Watch, Finds, FailureIsItsOwn, Rechecked, worldVars
  <2>2. QED
    BY <2>1, VerdictsAre, CheckMoves
<1>4. CASE PrecheckPasses(r)
  <2>1. PICK verdict \in VerdictsFor(r) :
          /\ bound' = Observed(verdict)
          /\ notice' => notice \/ Raises(verdict)
          /\ hinted' = (hinted /\ notice' /\ ~Raises(verdict))
    BY <1>4 DEF PrecheckPasses
  <2>2. (Signal' => Signal \/ Raises(verdict)) /\ UNCHANGED spawned
    BY <1>4, <2>1 DEF Signal, PrecheckPasses, worldVars
  <2>3. QED
    BY <2>1, <2>2, VerdictsAre, AskedMoves
<1>5. CASE FailureIsLost(r)
  <2>1. PICK verdict \in VerdictsFor(r) :
          /\ bound' = Observed(verdict)
          /\ notice' => notice \/ Raises(verdict)
          /\ hinted' = (hinted /\ notice' /\ ~Raises(verdict))
    BY <1>5 DEF FailureIsLost
  <2>2. (Signal' => Signal \/ Raises(verdict)) /\ UNCHANGED spawned
    BY <1>5, <2>1 DEF Signal, FailureIsLost, ReplacedOrRecover, worldVars
  <2>3. QED
    BY <2>1, <2>2, VerdictsAre, AskedMoves
<1>6. CASE Adopted(r)
  <2>1. bound' \in {0, daemon} /\ ~Signal' /\ UNCHANGED spawned
    BY <1>6 DEF Adopted, Signal, worldVars
  <2>2. QED
    BY <1>1, <2>1 DEF Moves, TypeOK
<1>7. CASE Vanished(r)
  <2>1. bound' = bound /\ (Signal' => Signal)
    BY <1>7 DEF Vanished, Signal
  <2>2. QED
    BY <1>1, <2>1, StillMoves
<1>8. CASE Recovered(r) \/ Repaired(r)
  <2>1. bound' = bound /\ (UNCHANGED <<notice, hinted>> \/ Hints)
    BY <1>8 DEF Recovered, Repaired
  <2>2. QED
    BY <1>1, <2>1, HintsMoves, StillMoves DEF Signal
<1>9. CASE \/ Begin(r) \/ PrecheckFindsNone(r) \/ Lands(r) \/ Answered(r) \/ Raised(r) \/ Cancel(r)
           \/ Cleared(r) \/ TakeLock(r) \/ Ensured(r)
  BY <1>2, <1>9
     DEF Begin, PrecheckFindsNone, Lands, Answered, Raised, Cancel, Cleared, TakeLock, Ensured, proxyVars
<1>10. QED
  BY <1>3, <1>4, <1>5, <1>6, <1>7, <1>8, <1>9 DEF Step, Serve, Settle

LEMMA WorldMovesToo ==
    ASSUME TypeOK, Signal => bound # 0,
           UNCHANGED vars \/ Die \/ BeginClosing \/ OtherProxySpawns \/ Heartbeat \/ CooldownEnds
    PROVE  Moves
<1>1. spawned \in Nat
  BY DEF TypeOK
<1>2. CASE UNCHANGED <<bound, notice, hinted>> /\ spawned' \in {spawned, spawned + 1}
  <2>1. spawned <= spawned'
    BY <1>1, <1>2
  <2>2. QED
    BY <1>2, <2>1, StillMoves DEF Signal
<1>3. CASE Heartbeat
  <2>1. (\E verdict \in Verdicts : Check(verdict)) /\ UNCHANGED spawned
    BY <1>3 DEF Heartbeat, worldVars
  <2>2. QED
    BY <2>1, CheckMoves DEF Verdicts
<1>4. QED
  BY <1>2, <1>3
     DEF vars, worldVars, proxyVars, Die, BeginClosing, OtherProxySpawns, Spawn, CooldownEnds

-----------------------------------------------------------------------------
(* No restart is missed. *)

\* A step that takes no notice, and after which the request still tells what
\* it would, if anything is to be told.
LEMMA LossesStay ==
    ASSUME TypeOK, LossesOK, NEW r \in Request, Step(r), bound' \in Nat, bound' = 0 => bound = 0,
           notice => notice',
           notice' \/ bound' = bound \/ bound = 0,
           \A d \in visited' : d \in visited \/ (bound' # 0 /\ bound' <= d),
           WillTell(r) => notice' \/ WillTell(r)' \/ \A d \in visited' : bound' <= d
    PROVE  LossesOK'
<1>1. bound' = 0 => visited' = {}
  BY DEF LossesOK
<1>2. ASSUME ~notice' PROVE (\A d \in visited' : bound' <= d) \/ \E s \in Request : WillTell(s)'
  <2>1. CASE bound = 0
    BY <2>1 DEF LossesOK
  <2>2. CASE bound' = bound /\ \A d \in visited : bound <= d
    BY <2>2
  <2>3. CASE bound' = bound /\ \E s \in Request : WillTell(s)
    <3>1. PICK s \in Request : WillTell(s)
      BY <2>3
    <3>2. CASE s = r
      BY <1>2, <3>1, <3>2
    <3>3. CASE s # r
      <4>1. pc'[s] = pc[s] /\ covers'[s] = covers[s]
        BY <3>3, Others
      <4>2. WillTell(s)'
        BY <2>3, <3>1, <4>1 DEF WillTell, Reports
      <4>3. QED
        BY <4>2
    <3>4. QED
      BY <3>2, <3>3
  <2>4. QED
    BY <1>2, <2>1, <2>2, <2>3 DEF LossesOK, LossesArePending
<1>3. QED
  BY <1>1, <1>2 DEF LossesOK, LossesArePending

LEMMA LossesKeptByWorld ==
    ASSUME TypeOK, LossesOK,
           UNCHANGED vars \/ Die \/ BeginClosing \/ OtherProxySpawns \/ Heartbeat \/ CooldownEnds
    PROVE  LossesOK'
<1>1. CASE UNCHANGED <<notice, bound, visited, pc, covers>>
  BY <1>1 DEF LossesOK, LossesArePending, WillTell
<1>2. CASE Heartbeat
  <2>1. PICK verdict \in Verdicts : Check(verdict)
    BY <1>2 DEF Heartbeat
  <2>2. (notice => notice') /\ (~notice' => bound' = bound \/ bound = 0) /\ bound <= bound'
    BY <2>1, Checked DEF Verdicts
  <2>3. bound' \in Nat /\ bound \in Nat
    BY <2>1, Checked DEF Verdicts, TypeOK
  <2>4. UNCHANGED <<visited, pc, covers>>
    BY <1>2 DEF Heartbeat, requestVars, historyVars
  <2>5. QED
    BY <2>2, <2>3, <2>4 DEF LossesOK, LossesArePending, WillTell
<1>3. QED
  BY <1>1, <1>2
     DEF vars, proxyVars, requestVars, historyVars, Die, BeginClosing, OtherProxySpawns, CooldownEnds

LEMMA CoversBut ==
    ASSUME NEW found \in Nat, NEW c, c = found - 1
    PROVE  /\ found <= c + 1 /\ c < found
           /\ \A d \in Nat : (c < d => found <= d) /\ (found <= d => c < d)
OBVIOUS

\* A notice is taken only by a call that reports it, an initialize, which nothing
\* came before, and a respawn that ends.
LEMMA LossesKeptByRequest ==
    ASSUME TypeOK, HandshakeOK, LossesOK, NEW r \in Request, Step(r)
    PROVE  LossesOK'
<1>1. bound \in Nat /\ bound' \in Nat /\ TypeOK'
  BY StepTypes DEF TypeOK
<1>2. ASSUME NEW verdict \in VerdictsFor(r), Check(verdict)
      PROVE  /\ notice => notice'
             /\ notice' \/ bound' = bound \/ bound = 0
             /\ bound' = 0 => bound = 0
  <2>1. /\ notice => notice'
        /\ notice' \/ bound' = bound \/ bound = 0
        /\ bound <= bound'
    BY <1>2, Checked, VerdictsAre
  <2>2. QED
    BY <1>1, <2>1
<1>3. CASE Begin(r) \/ PrecheckFindsNone(r) \/ Lands(r) \/ Raised(r) \/ TakeLock(r) \/ Ensured(r)
  <2>1. UNCHANGED <<bound, notice, visited>> /\ pc[r] \notin {"dropping", "clearing"}
    BY <1>3 DEF Begin, PrecheckFindsNone, Lands, Raised, TakeLock, Ensured, proxyVars, historyVars, Forwarded
  <2>2. QED
    BY <1>1, <2>1, LossesStay DEF WillTell
<1>4. CASE Answered(r)
  <2>1. /\ UNCHANGED <<bound, notice>> /\ pc[r] = "running"
        /\ visited' \subseteq visited \cup (IF bound # 0 THEN {daemon} ELSE {})
    BY <1>4 DEF Answered, proxyVars
  <2>2. bound' <= daemon
    BY <1>4, <2>1 DEF Answered, TypeOK
  <2>3. QED
    BY <1>1, <2>1, <2>2, LossesStay DEF WillTell
<1>5. CASE Watch(r) \/ FailureIsItsOwn(r) \/ Rechecked(r)
  <2>1. \E verdict \in VerdictsFor(r) : Check(verdict)
    BY <1>5 DEF Watch, Finds, FailureIsItsOwn, Rechecked
  <2>2. /\ notice => notice'
        /\ notice' \/ bound' = bound \/ bound = 0
        /\ bound' = 0 => bound = 0
    BY <1>2, <2>1
  <2>3. UNCHANGED visited /\ pc[r] \notin {"dropping", "clearing"}
    BY <1>5 DEF Watch, FailureIsItsOwn, Rechecked, historyVars, Forwarded
  <2>4. QED
    BY <1>1, <2>2, <2>3, LossesStay DEF WillTell
<1>6. CASE PrecheckPasses(r)
  <2>1. PICK verdict \in VerdictsFor(r) \ {"gone"} :
          LET pending == notice \/ Raises(verdict)
          IN  /\ bound' = Observed(verdict)
              /\ notice' = (pending /\ Kind[r] # "opening" /\ ~Reports(r))
              /\ IF pending /\ Reports(r)
                 THEN Covers(r, bound') /\ Report(r) /\ UNCHANGED sent_to
                 ELSE UNCHANGED historyVars
    BY <1>6 DEF PrecheckPasses
  <2>2. verdict = "alive" => ~NoneLives
    BY VerdictsAre
  <2>3. /\ ~Raises(verdict) => bound' = bound \/ bound = 0
        /\ bound <= bound'
    BY <2>1, <2>2, ObservedOne
  <2>4. pc[r] = "precheck" /\ (bound' = 0 => bound = 0 /\ visited = {})
    BY <1>1, <1>6, <2>3 DEF PrecheckPasses, LossesOK
  <2>5. CASE ~(notice \/ Raises(verdict))
    <3>1. UNCHANGED visited /\ ~notice
      BY <2>1, <2>5 DEF historyVars
    <3>2. QED
      BY <1>1, <2>3, <2>4, <2>5, <3>1, LossesStay DEF WillTell
  <2>6. CASE (notice \/ Raises(verdict)) /\ Kind[r] # "opening" /\ ~Reports(r)
    <3>1. notice' /\ UNCHANGED visited
      BY <2>1, <2>6 DEF Reports, historyVars
    <3>2. QED
      BY <2>4, <3>1 DEF LossesOK, LossesArePending
  <2>7. CASE (notice \/ Raises(verdict)) /\ Reports(r)
    <3>1. Covers(r, bound') /\ Report(r)
      BY <2>1, <2>7
    <3>2. covers'[r] = bound' - 1 /\ covers' \in [Request -> Int]
      BY <1>1, <3>1, CoversOne
    <3>3. (\A d \in visited' : covers'[r] < d) /\ visited' \subseteq visited
      BY <2>7, <3>1, <3>2, Reported
    <3>4. visited' \subseteq Nat
      BY <1>1 DEF TypeOK
    <3>5. \A d \in visited' : bound' <= d
      BY <1>1, <3>2, <3>3, <3>4, CoversBut
    <3>6. QED
      BY <2>4, <3>3, <3>5 DEF LossesOK, LossesArePending
  <2>8. CASE (notice \/ Raises(verdict)) /\ Kind[r] = "opening"
    <3>1. visited = {} /\ ~Reports(r)
      BY <2>4, <2>8 DEF HandshakeOK, Reports
    <3>2. visited' = {}
      BY <2>1, <3>1 DEF historyVars
    <3>3. QED
      BY <3>2 DEF LossesOK, LossesArePending
  <2>9. QED
    BY <2>5, <2>6, <2>7, <2>8
<1>7. ASSUME NEW moved \in BOOLEAN, ReplacedOrRecover(r, moved), pc[r] \in {"abandoning", "failing"},
             bound' = 0 => bound = 0,
             (moved /\ Reports(r)) \/ ((notice => notice') /\ (notice' \/ bound' = bound \/ bound = 0))
      PROVE  LossesOK'
  <2>1. UNCHANGED visited /\ ~WillTell(r)
    BY <1>7 DEF ReplacedOrRecover, WillTell
  <2>2. CASE moved /\ Reports(r)
    <3>1. Goto(r, "clearing") /\ Covers(r, bound')
      BY <1>7, <2>2 DEF ReplacedOrRecover
    <3>2. pc'[r] = "clearing" /\ covers'[r] = bound' - 1
      BY <1>1, <3>1, PlacesArePlaces, WentTo, CoversOne
    <3>3. bound' <= covers'[r] + 1
      BY <1>1, <3>2, CoversBut
    <3>4. WillTell(r)'
      BY <2>2, <3>2, <3>3 DEF WillTell, Reports
    <3>5. QED
      BY <1>7, <2>1, <3>4 DEF LossesOK, LossesArePending
  <2>3. CASE (notice => notice') /\ (notice' \/ bound' = bound \/ bound = 0)
    BY <1>1, <1>7, <2>1, <2>3, LossesStay
  <2>4. QED
    BY <1>7, <2>2, <2>3
<1>8. CASE Vanished(r)
  <2>1. ReplacedOrRecover(r, Moved(r)) /\ bound' = bound /\ Moved(r) \in BOOLEAN /\ pc[r] = "abandoning"
    BY <1>8 DEF Vanished, Moved
  <2>2. (Moved(r) /\ Reports(r)) \/ (notice => notice')
    BY <1>8 DEF Vanished
  <2>3. QED
    BY <1>7, <2>1, <2>2
<1>9. CASE FailureIsLost(r)
  <2>1. PICK verdict \in VerdictsFor(r) :
          LET moved == verdict # "gone" /\ sent_to[r] # 0 /\ Observed(verdict) \notin {0, sent_to[r]}
          IN  /\ bound' = Observed(verdict)
              /\ notice' = ((notice \/ Raises(verdict)) /\ ~(moved /\ Reports(r)))
              /\ ReplacedOrRecover(r, moved)
    BY <1>9 DEF FailureIsLost
  <2> DEFINE moved == verdict # "gone" /\ sent_to[r] # 0 /\ Observed(verdict) \notin {0, sent_to[r]}
  <2>2. verdict = "alive" => ~NoneLives
    BY VerdictsAre
  <2>3. /\ ~Raises(verdict) => bound' = bound \/ bound = 0
        /\ bound <= bound'
    BY <2>1, <2>2, ObservedOne
  <2>4. ReplacedOrRecover(r, moved) /\ moved \in BOOLEAN /\ notice' = ((notice \/ Raises(verdict)) /\ ~(moved /\ Reports(r)))
    BY <2>1
  <2>5. pc[r] = "failing" /\ (bound' = 0 => bound = 0)
    BY <1>1, <1>9, <2>3 DEF FailureIsLost
  <2> HIDE DEF moved
  <2>6. (moved /\ Reports(r)) \/ ((notice => notice') /\ (notice' \/ bound' = bound \/ bound = 0))
    BY <2>3, <2>4
  <2>7. QED
    BY <1>7, <2>4, <2>5, <2>6
<1>10. CASE Cleared(r) \/ Recovered(r)
  <2>1. Report(r) /\ covers' = covers /\ bound' = bound /\ (notice => notice')
    <3>1. CASE Cleared(r)
      BY <3>1 DEF Cleared, proxyVars
    <3>2. CASE Recovered(r)
      BY <3>2 DEF Recovered, Hints
    <3>3. QED
      BY <1>10, <3>1, <3>2
  <2>2. visited' \subseteq visited /\ (Reports(r) => \A d \in visited' : covers'[r] < d)
    BY <1>1, <2>1, Reported DEF TypeOK
  <2>3. ASSUME WillTell(r) PROVE notice' \/ \A d \in visited' : bound' <= d
    <3>1. CASE Reports(r)
      <4>1. bound <= covers[r] + 1
        BY <2>3, <3>1 DEF WillTell, Reports
      <4>2. \A d \in visited' : bound' <= d
        BY <1>1, <2>1, <2>2, <3>1, <4>1 DEF TypeOK
      <4>3. QED
        BY <4>2
    <3>2. CASE ~Reports(r)
      <4>1. pc[r] = "dropping"
        BY <2>3, <3>2 DEF WillTell
      <4>2. notice'
        BY <1>10, <3>2, <4>1 DEF Cleared, Recovered, Hints
      <4>3. QED
        BY <4>2
    <3>3. QED
      BY <3>1, <3>2
  <2>4. QED
    BY <1>1, <2>1, <2>2, <2>3, LossesStay
<1>11. CASE Adopted(r)
  <2>1. pc[r] = "adopting" /\ Goto(r, "dropping")
    BY <1>11 DEF Adopted
  <2>2. pc'[r] = "dropping"
    BY <2>1, PlacesArePlaces, WentTo DEF Respawning
  <2>3. CASE bound' = 0
    BY <1>11, <2>3 DEF Adopted, LossesOK, LossesArePending
  <2>4. CASE bound' # 0 /\ Kind[r] = "opening"
    <3>1. visited = {}
      BY <2>1, <2>4 DEF HandshakeOK
    <3>2. QED
      BY <1>11, <2>4, <3>1 DEF Adopted, LossesOK, LossesArePending
  <2>5. CASE bound' # 0 /\ Kind[r] # "opening"
    <3>1. covers'[r] = bound' - 1
      BY <1>1, <1>11, <2>5, CoversOne DEF Adopted
    <3>2. bound' <= covers'[r] + 1
      BY <1>1, <3>1, CoversBut
    <3>3. WillTell(r)'
      BY <2>2, <2>5, <3>2, RecoveryConstants DEF WillTell, Reports, RecoveryConstants
    <3>4. QED
      BY <2>5, <3>3 DEF LossesOK, LossesArePending
  <2>6. QED
    BY <2>3, <2>4, <2>5
<1>12. CASE Repaired(r)
  <2>1. /\ r \in repairs /\ (notice => notice') /\ (Kind[r] # "opening" => notice')
        /\ bound' = bound /\ UNCHANGED visited /\ ~Reports(r)
    BY <1>12 DEF Repaired, Hints, historyVars, TypeOK
  <2>2. WillTell(r) => notice'
    BY <2>1 DEF WillTell
  <2>3. QED
    BY <1>1, <2>1, <2>2, LossesStay
<1>13. CASE Cancel(r)
  <2>1. bound' = bound /\ notice' = notice /\ visited' \subseteq visited
    BY <1>13 DEF Cancel, proxyVars
  <2>2. CASE pc[r] \in {"dropping", "clearing"}
    <3>1. \A d \in visited' : bound' <= d
      BY <1>13, <2>1, <2>2 DEF Cancel
    <3>2. QED
      BY <2>1, <3>1 DEF LossesOK, LossesArePending
  <2>3. CASE pc[r] \notin {"dropping", "clearing"}
    BY <1>1, <2>1, <2>3, LossesStay DEF WillTell
  <2>4. QED
    BY <2>2, <2>3
<1>14. QED
  BY <1>3, <1>4, <1>5, <1>6, <1>8, <1>9, <1>10, <1>11, <1>12, <1>13 DEF Step, Serve, Settle

\* LossesArePending, of any number of requests of any kind and of daemons, and
\* whatever the renewals prove: a restart is never missed of a daemon the lease
\* knew, unless it was to be told by a request that is cancelled.
THEOREM LossesArePendingTheorem == Spec => []LossesArePending
<1>1. Init => LossesOK
  BY DEF Init, LossesOK, LossesArePending
<1>2. TypeOK /\ HandshakeOK /\ LossesOK /\ [Next]_vars => LossesOK'
  <2> SUFFICES ASSUME TypeOK, HandshakeOK, LossesOK, [Next]_vars PROVE LossesOK'
    OBVIOUS
  <2>1. CASE \E r \in Request : Step(r)
    BY <2>1, LossesKeptByRequest
  <2>2. CASE UNCHANGED vars \/ Die \/ BeginClosing \/ OtherProxySpawns \/ Heartbeat \/ CooldownEnds
    BY <2>2, LossesKeptByWorld
  <2>3. QED
    BY <2>1, <2>2, NextIs
<1>3. LossesOK => LossesArePending
  BY DEF LossesOK
<1>4. QED
  BY <1>1, <1>2, <1>3, TypeCorrect, HandshakeCorrect, PTL DEF Spec

-----------------------------------------------------------------------------
(* None is reported twice. *)

LEMMA FreshIs ==
    ASSUME TypeOK
    PROVE  /\ Fresh \in Nat /\ spawned <= Fresh
           /\ NoneLives => Fresh = spawned + 1
           /\ ~NoneLives => Fresh = daemon /\ daemon = spawned
BY DEF TypeOK, Fresh, NoneLives

LEMMA FreshNext ==
    ASSUME TypeOK'
    PROVE  Fresh' \in Nat
<1>1. spawned' \in Nat /\ daemon' \in {0, spawned'}
  BY DEF TypeOK
<1>2. Fresh' = spawned' + 1 \/ Fresh' = daemon'
  BY DEF Fresh
<1>3. QED
  BY <1>1, <1>2

LEMMA FreshGrows ==
    ASSUME TypeOK, UNCHANGED worldVars \/ Die \/ BeginClosing \/ Spawn
    PROVE  Fresh <= Fresh'
<1>1. CASE UNCHANGED worldVars
  BY <1>1, FreshIs DEF worldVars, Fresh, NoneLives
<1>2. CASE Die \/ BeginClosing \/ Spawn
  BY <1>2 DEF TypeOK, Die, BeginClosing, Spawn, Fresh, NoneLives
<1>3. QED
  BY <1>1, <1>2

LEMMA PastStays ==
    ASSUME TypeOK, TypeOK', Moves, Signal => bound # 0, NEW losses \in Int, Past(losses)
    PROVE  (losses < spawned)' /\ (bound # 0 => losses < bound)' /\ (Signal => losses + 1 < bound)'
<1>1. /\ spawned \in Nat /\ spawned' \in Nat /\ bound \in Nat /\ bound' \in Nat /\ spawned <= spawned'
  BY DEF TypeOK, Moves
<1>2. losses < spawned /\ (bound # 0 => losses < bound) /\ (Signal => losses + 1 < bound)
  BY DEF Past
<1>3. losses < spawned'
  BY <1>1, <1>2
<1>4. bound' # 0 => losses < bound'
  BY <1>2 DEF Moves
<1>5. Signal' => losses + 1 < bound'
  <2>1. CASE bound # 0 /\ bound < bound'
    BY <1>1, <1>2, <2>1
  <2>2. CASE Signal /\ bound' = bound
    BY <1>2, <2>2
  <2>3. QED
    BY <2>1, <2>2 DEF Moves
<1>6. QED
  BY <1>3, <1>4, <1>5

\* What a step makes a request report, or have to report, is all in the past.
LEMMA ReportsStay ==
    ASSUME TypeOK, TypeOK', Moves, ReportsOK, NEW r \in Request, Step(r),
           reported' = reported \/ (reported' = covers'[r] /\ Past(covers[r])'),
           Reports(r) => /\ pc'[r] = "adopting" => covers'[r] < spawned'
                         /\ pc'[r] \in {"dropping", "clearing"} => Past(covers[r])'
    PROVE  ReportsOK'
<1>1. /\ reported \in Int /\ bound \in Nat /\ bound' \in Nat /\ spawned \in Nat /\ spawned' \in Nat
      /\ \A s \in Request : covers[s] \in Int
  BY DEF TypeOK
<1>2. Signal' => bound' # 0
  BY <1>1 DEF Moves, ReportsOK
<1>3. ASSUME NEW losses \in Int, Past(losses), NEW x, x = losses
      PROVE  x < spawned' /\ (bound' # 0 => x < bound') /\ (Signal' => x + 1 < bound')
  BY <1>3, PastStays DEF ReportsOK
<1>4. Past(reported)'
  <2>1. CASE reported' = reported
    BY <1>1, <1>3, <2>1 DEF Past, ReportsOK
  <2>2. CASE reported' = covers'[r] /\ Past(covers[r])'
    BY <2>2 DEF Past
  <2>3. QED
    BY <2>1, <2>2
<1>5. ASSUME NEW s \in Request, Reports(s)
      PROVE  /\ pc'[s] = "adopting" => covers'[s] < spawned'
             /\ pc'[s] \in {"dropping", "clearing"} => Past(covers[s])'
  <2>1. CASE s = r
    BY <1>5, <2>1 DEF Past
  <2>2. CASE s # r
    <3>1. pc'[s] = pc[s] /\ covers'[s] = covers[s]
      BY <2>2, Others
    <3>2. pc[s] = "adopting" => covers[s] < spawned'
      BY <1>1, <1>5 DEF ReportsOK, Moves
    <3>3. pc[s] \in {"dropping", "clearing"} => Past(covers[s])
      BY <1>5 DEF ReportsOK
    <3>4. QED
      BY <1>1, <1>3, <3>1, <3>2, <3>3 DEF Past
  <2>3. QED
    BY <2>1, <2>2
<1>6. QED
  BY <1>2, <1>4, <1>5 DEF ReportsOK, Reports

\* What is known of a request that stays where it is.
LEMMA KnowsStays ==
    ASSUME TypeOK, TypeOK', Moves, NEW s \in Request, Knows(s), Fresh <= Fresh', reported <= reported',
           pc'[s] = pc[s], sent_to'[s] = sent_to[s], covers'[s] = covers[s], knew'[s] = knew[s]
    PROVE  Knows(s)'
<1>1. /\ knew[s] \in Nat /\ sent_to[s] \in Nat /\ reported \in Nat /\ reported' \in Nat
      /\ bound \in Nat /\ bound' \in Nat /\ spawned \in Nat /\ spawned' \in Nat /\ spawned <= spawned'
  BY DEF TypeOK, Moves
<1>2. sent_to[s] # 0 => sent_to[s] <= spawned' /\ (bound' # 0 => sent_to[s] <= bound')
  BY <1>1 DEF Knows, Moves
<1> DEFINE f == Fresh
<1>3. f \in Nat /\ f' \in Nat /\ f <= f'
  BY FreshIs, FreshNext
<1>4. (knew[s] + 1 < Fresh) => (knew[s] + 1 < Fresh)'
  <2> HIDE DEF f
  <2>1. knew[s] + 1 < f => knew[s] + 1 < f'
    BY <1>1, <1>3
  <2>2. QED
    BY <2>1 DEF f
<1>5. QED
  BY <1>1, <1>2, <1>4 DEF Knows

LEMMA KnewStays ==
    ASSUME TypeOK, TypeOK', Moves, KnewOK, NEW r \in Request, Step(r), reported <= reported',
           alarmed \subseteq alarmed',
           Reports(r) => (pc'[r] = "new" => sent_to'[r] = 0) /\ (r \notin alarmed' => Knows(r)')
    PROVE  KnewOK'
<1>1. Fresh <= Fresh'
  BY WorldMoves, FreshGrows
<1>2. ASSUME NEW s \in Request, Reports(s), s # r
      PROVE  (pc'[s] = "new" => sent_to'[s] = 0) /\ (s \notin alarmed' => Knows(s)')
  <2>1. pc'[s] = pc[s] /\ sent_to'[s] = sent_to[s] /\ covers'[s] = covers[s] /\ knew'[s] = knew[s]
    BY <1>2, Others
  <2>2. (pc[s] = "new" => sent_to[s] = 0) /\ (s \notin alarmed => Knows(s))
    BY <1>2 DEF KnewOK
  <2>3. QED
    BY <1>1, <2>1, <2>2, KnowsStays
<1>3. QED
  BY <1>2 DEF KnewOK, Reports

\* ReportedOnce, of one step.
TellsMore(r) ==
    Reports(r) /\ pc'[r] = "restarted" =>
        \/ covers'[r] > knew[r]
        \/ pc[r] = "precheck" /\ hinted
        \/ r \in alarmed

\* Where a request is sent, it is to the daemon it was sent to or the lease knows.
LEMMA SentStays ==
    ASSUME TypeOK, TypeOK', Moves, NEW r \in Request,
           sent_to[r] # 0 => /\ knew[r] < sent_to[r] /\ sent_to[r] <= spawned
                             /\ bound # 0 => sent_to[r] <= bound,
           \/ sent_to'[r] = 0
           \/ sent_to'[r] = sent_to[r] /\ knew'[r] = knew[r]
           \/ sent_to'[r] = bound' /\ (bound' # 0 => knew'[r] < bound')
    PROVE  sent_to'[r] # 0 => /\ knew'[r] < sent_to'[r] /\ sent_to'[r] <= spawned'
                              /\ bound' # 0 => sent_to'[r] <= bound'
<1>1. /\ sent_to[r] \in Nat /\ sent_to'[r] \in Nat /\ bound \in Nat /\ bound' \in Nat /\ bound' <= spawned'
      /\ spawned \in Nat /\ spawned' \in Nat /\ spawned <= spawned'
  BY DEF TypeOK, Moves
<1>2. CASE sent_to'[r] = sent_to[r] /\ knew'[r] = knew[r]
  BY <1>1, <1>2 DEF Moves
<1>3. CASE sent_to'[r] = bound' /\ (bound' # 0 => knew'[r] < bound')
  BY <1>1, <1>3
<1>4. QED
  BY <1>2, <1>3

\* A request that goes on, or ends, with nothing to report.
LEMMA GoesOn ==
    ASSUME TypeOK, TypeOK', Moves, ReportsOK, KnewOK, NEW r \in Request, Step(r),
           UNCHANGED reported, alarmed \subseteq alarmed',
           pc'[r] \notin {"new", "adopting", "dropping", "clearing", "restarted"},
           Reports(r) /\ r \notin alarmed' =>
              /\ knew'[r] <= reported
              /\ \/ sent_to'[r] = 0
                 \/ sent_to'[r] = sent_to[r] /\ knew'[r] = knew[r]
                 \/ sent_to'[r] = bound' /\ (bound' # 0 => knew'[r] < bound')
              /\ pc'[r] \in {"abandoning", "locking", "ensuring", "rechecking"} => knew'[r] + 1 < Fresh
    PROVE  ReportsOK' /\ KnewOK' /\ TellsMore(r)
<1>1. ReportsOK'
  BY ReportsStay
<1>2. ASSUME Reports(r), r \notin alarmed' PROVE Knows(r)'
  <2>1. Knows(r)
    BY <1>2 DEF KnewOK
  <2>2. sent_to'[r] # 0 => /\ knew'[r] < sent_to'[r] /\ sent_to'[r] <= spawned'
                           /\ bound' # 0 => sent_to'[r] <= bound'
    BY <1>2, <2>1, SentStays DEF Knows
  <2>3. ASSUME pc'[r] \in {"abandoning", "locking", "ensuring", "rechecking"}
        PROVE  (knew[r] + 1 < Fresh)'
    <3> DEFINE f == Fresh
    <3>1. f \in Nat /\ f' \in Nat /\ f <= f' /\ knew'[r] + 1 < f /\ knew'[r] \in Nat
      BY <1>2, <2>3, FreshIs, FreshNext, FreshGrows, WorldMoves DEF TypeOK
    <3> HIDE DEF f
    <3>2. knew'[r] + 1 < f'
      BY <3>1
    <3>3. QED
      BY <3>2 DEF f
  <2>4. QED
    BY <1>2, <2>2, <2>3 DEF Knows
<1>3. reported <= reported'
  BY DEF TypeOK
<1>4. KnewOK'
  BY <1>2, <1>3, KnewStays
<1>5. QED
  BY <1>1, <1>4 DEF TellsMore

\* A request that is to report.
LEMMA WillReport ==
    ASSUME TypeOK, TypeOK', Moves, ReportsOK, KnewOK, NEW r \in Request, Step(r),
           UNCHANGED <<reported, knew>>, alarmed \subseteq alarmed',
           pc'[r] \in {"adopting", "dropping", "clearing"}, pc[r] # "new",
           sent_to'[r] \in {0, sent_to[r]},
           Reports(r) /\ pc'[r] = "adopting" => covers'[r] < spawned',
           Reports(r) /\ pc'[r] # "adopting" => Past(covers[r])',
           Reports(r) /\ r \notin alarmed' => knew[r] < covers'[r]
    PROVE  ReportsOK' /\ KnewOK' /\ TellsMore(r)
<1>1. ReportsOK'
  BY ReportsStay
<1>2. ASSUME Reports(r), r \notin alarmed' PROVE Knows(r)'
  <2>1. Knows(r)
    BY <1>2 DEF KnewOK
  <2>2. sent_to'[r] # 0 => /\ knew'[r] < sent_to'[r] /\ sent_to'[r] <= spawned'
                           /\ bound' # 0 => sent_to'[r] <= bound'
    BY <2>1, SentStays DEF Knows
  <2>3. QED
    BY <1>2, <2>1, <2>2 DEF Knows
<1>3. reported <= reported'
  BY DEF TypeOK
<1>4. KnewOK'
  BY <1>2, <1>3, KnewStays
<1>5. QED
  BY <1>1, <1>4 DEF TellsMore

\* A request that reports, or is told the same and is not to report.
LEMMA DoesReport ==
    ASSUME TypeOK, TypeOK', Moves, ReportsOK, KnewOK, NEW r \in Request, Step(r),
           Report(r), pc[r] # "new", UNCHANGED sent_to, Reports(r) => Past(covers[r])', TellsMore(r)
    PROVE  ReportsOK' /\ KnewOK' /\ TellsMore(r)
<1>1. covers' \in [Request -> Int] /\ knew[r] \in Nat /\ reported \in Nat
  BY DEF TypeOK
<1>2. /\ pc'[r] = "restarted" /\ UNCHANGED <<knew, alarmed>> /\ reported' \in Nat /\ reported <= reported'
      /\ reported' \in {reported, covers'[r]} /\ (~Reports(r) => reported' = reported)
  BY <1>1, Reported
<1>3. ReportsOK'
  BY <1>2, ReportsStay
<1>4. ASSUME Reports(r), r \notin alarmed' PROVE Knows(r)'
  <2>1. Knows(r)
    BY <1>2, <1>4 DEF KnewOK
  <2>2. sent_to'[r] # 0 => /\ knew'[r] < sent_to'[r] /\ sent_to'[r] <= spawned'
                           /\ bound' # 0 => sent_to'[r] <= bound'
    BY <1>2, <2>1, SentStays DEF Knows
  <2>3. knew[r] <= reported'
    BY <1>1, <1>2, <2>1 DEF Knows
  <2>4. QED
    BY <1>2, <2>2, <2>3 DEF Knows
<1>5. KnewOK'
  BY <1>2, <1>4, KnewStays
<1>6. QED
  BY <1>3, <1>5

\* What a call that was not misled knows of, and how it is told.
LEMMA Knowing ==
    ASSUME TypeOK, ReportsOK, KnewOK, NEW r \in Request
    PROVE  /\ knew[r] \in Nat /\ sent_to[r] \in Nat /\ reported \in Nat /\ covers[r] \in Int
           /\ bound \in Nat /\ bound <= spawned /\ spawned \in Nat
           /\ Fresh \in Nat /\ spawned <= Fresh
           /\ reported < spawned /\ (bound # 0 => reported < bound) /\ (Signal => bound # 0 /\ reported + 1 < bound)
           /\ NoneLives => reported + 1 < Fresh
           /\ Reports(r) /\ r \notin alarmed => Knows(r)
<1>1. /\ knew[r] \in Nat /\ sent_to[r] \in Nat /\ reported \in Nat /\ covers[r] \in Int
      /\ bound \in Nat /\ bound <= spawned /\ spawned \in Nat
  BY DEF TypeOK
<1>2. Fresh \in Nat /\ spawned <= Fresh /\ (NoneLives => Fresh = spawned + 1)
  BY FreshIs
<1>3. reported < spawned /\ (bound # 0 => reported < bound) /\ (Signal => bound # 0 /\ reported + 1 < bound)
  BY DEF ReportsOK, Past
<1>4. NoneLives => reported + 1 < Fresh
  BY <1>1, <1>2, <1>3
<1>5. QED
  BY <1>1, <1>2, <1>3, <1>4 DEF KnewOK

\* Steps that ask no daemon, but that there is none.
LEMMA PlainSteps ==
    ASSUME TypeOK, ReportsOK, KnewOK, NEW r \in Request, Step(r),
           \/ Begin(r) \/ Lands(r) \/ Answered(r) \/ Raised(r) \/ Cancel(r) \/ TakeLock(r)
           \/ PrecheckFindsNone(r) \/ Repaired(r)
    PROVE  ReportsOK' /\ KnewOK' /\ TellsMore(r)
<1>1. TypeOK' /\ Moves
  BY StepTypes, StepMoves DEF ReportsOK
<1>2. /\ UNCHANGED reported /\ alarmed \subseteq alarmed'
      /\ pc'[r] \in {"precheck", "sent", "running", "answered", "failing", "cancelled", "rechecking",
                     "ensuring", "locking"}
  <2>1. CASE Begin(r) \/ Lands(r) \/ Answered(r) \/ Raised(r) \/ Cancel(r)
    BY <2>1 DEF Begin, Lands, Answered, Raised, Cancel, Goto, TypeOK, historyVars
  <2>2. CASE TakeLock(r) \/ PrecheckFindsNone(r) \/ Repaired(r)
    BY <2>2 DEF TakeLock, PrecheckFindsNone, Repaired, Alarms, Goto, TypeOK, historyVars
  <2>3. QED
    BY <2>1, <2>2
<1>3. ASSUME Reports(r), r \notin alarmed'
      PROVE  /\ knew'[r] <= reported
             /\ sent_to'[r] = 0 \/ (sent_to'[r] = sent_to[r] /\ knew'[r] = knew[r])
             /\ pc'[r] \in {"abandoning", "locking", "ensuring", "rechecking"} => knew'[r] + 1 < Fresh
  <2>1. CASE Begin(r)
    <3>1. knew'[r] = reported /\ sent_to'[r] = sent_to[r] /\ pc'[r] = "precheck" /\ pc[r] = "new"
      BY <1>3, <2>1 DEF Begin, Goto, TypeOK, Reports
    <3>2. sent_to[r] = 0
      BY <1>3, <3>1 DEF KnewOK
    <3>3. QED
      BY <3>1, <3>2, Knowing
  <2>2. CASE Lands(r) \/ Answered(r) \/ Raised(r) \/ Cancel(r)
    <3>1. UNCHANGED knew /\ sent_to'[r] \in {0, sent_to[r]} /\ pc[r] # "new"
      BY <2>2, RecoveryConstants
         DEF Lands, Answered, Raised, Cancel, Forgets, TypeOK, historyVars, RecoveryConstants, Awaiting,
             Forwarded, Respawning
    <3>2. pc'[r] \in {"running", "answered", "failing", "cancelled"}
      BY <2>2 DEF Lands, Answered, Raised, Cancel, Goto, TypeOK
    <3>3. QED
      BY <1>2, <1>3, <3>1, <3>2, Knowing DEF Knows
  <2>3. CASE TakeLock(r)
    <3>1. UNCHANGED <<knew, sent_to>> /\ pc[r] = "locking"
      BY <2>3 DEF TakeLock, historyVars
    <3>2. QED
      BY <1>2, <1>3, <3>1, Knowing DEF Knows
  <2>4. CASE PrecheckFindsNone(r)
    <3>1. UNCHANGED <<knew, sent_to>> /\ pc[r] = "precheck" /\ NoneLives
      BY <1>3, <2>4 DEF PrecheckFindsNone, Alarms
    <3>2. knew[r] <= reported /\ reported + 1 < Fresh
      BY <1>2, <1>3, <3>1, Knowing DEF Knows
    <3>3. knew[r] + 1 < Fresh
      BY <3>2, Knowing
    <3>4. QED
      BY <3>1, <3>2, <3>3
  <2>5. CASE Repaired(r)
    BY <1>3, <2>5 DEF Repaired, TypeOK
  <2>6. QED
    BY <2>1, <2>2, <2>3, <2>4, <2>5
<1>4. QED
  BY <1>1, <1>2, <1>3, GoesOn

LEMMA PrecheckSteps ==
    ASSUME TypeOK, ReportsOK, KnewOK, NEW r \in Request, Step(r), PrecheckPasses(r)
    PROVE  ReportsOK' /\ KnewOK' /\ TellsMore(r)
<1>1. TypeOK' /\ Moves
  BY StepTypes, StepMoves DEF ReportsOK
<1>2. PICK verdict \in VerdictsFor(r) \ {"gone"} :
        LET pending == notice \/ Raises(verdict)
        IN  /\ bound' = Observed(verdict)
            /\ notice' = (pending /\ Kind[r] # "opening" /\ ~Reports(r))
            /\ IF pending /\ Reports(r)
               THEN Covers(r, bound') /\ Report(r) /\ UNCHANGED sent_to
               ELSE /\ Goto(r, "sent")
                    /\ sent_to' = [sent_to EXCEPT ![r] = Observed(verdict)]
                    /\ UNCHANGED historyVars
  BY DEF PrecheckPasses
<1>3. pc[r] = "precheck" /\ bound' \in Nat /\ bound <= bound' /\ (Raises(verdict) => bound # 0 /\ bound < bound')
  BY <1>1, <1>2, VerdictsAre, ObservedOne DEF PrecheckPasses, TypeOK
<1>4. bound' # 0 => reported < bound'
  BY <1>1, <1>3, Knowing, PastStays DEF ReportsOK
<1>5. CASE (notice \/ Raises(verdict)) /\ Reports(r)
  <2>1. Covers(r, bound') /\ Report(r) /\ UNCHANGED sent_to /\ ~notice'
    BY <1>2, <1>5
  <2>2. covers'[r] = bound' - 1
    BY <1>3, <2>1, CoversOne
  <2>3. Past(covers[r])'
    <3>1. bound' <= spawned' /\ spawned' \in Nat
      BY <1>1 DEF TypeOK
    <3>2. covers'[r] < spawned' /\ (bound' # 0 => covers'[r] < bound')
      BY <1>3, <2>2, <3>1, CoversBut
    <3>3. QED
      BY <2>1, <3>2 DEF Past, Signal
  <2>4. TellsMore(r)
    <3>1. SUFFICES ASSUME ~hinted, r \notin alarmed PROVE covers'[r] > knew[r]
      BY <1>3 DEF TellsMore
    <3>2. knew[r] <= reported
      BY <1>3, <1>5, <3>1, Knowing DEF Knows
    <3>3. reported + 1 < bound'
      <4>1. CASE notice
        BY <1>3, <3>1, <4>1, Knowing DEF Signal
      <4>2. CASE Raises(verdict)
        BY <1>3, <4>2, Knowing
      <4>3. QED
        BY <1>5, <4>1, <4>2
    <3>4. QED
      BY <1>3, <2>2, <3>2, <3>3, Knowing
  <2>5. QED
    BY <1>1, <1>3, <2>1, <2>3, <2>4, DoesReport
<1>6. CASE ~((notice \/ Raises(verdict)) /\ Reports(r))
  <2>1. Goto(r, "sent") /\ sent_to' = [sent_to EXCEPT ![r] = bound'] /\ UNCHANGED historyVars
    BY <1>2, <1>6
  <2>2. pc'[r] = "sent" /\ sent_to'[r] = bound' /\ UNCHANGED <<reported, knew, alarmed>>
    BY <2>1 DEF Goto, TypeOK, historyVars
  <2>3. Reports(r) /\ r \notin alarmed' => knew'[r] <= reported /\ (bound' # 0 => knew'[r] < bound')
    BY <1>3, <1>4, <2>2, Knowing DEF Knows
  <2>4. QED
    BY <1>1, <2>2, <2>3, GoesOn
<1>7. QED
  BY <1>5, <1>6

LEMMA LostSteps ==
    ASSUME TypeOK, ReportsOK, KnewOK, NEW r \in Request, Step(r),
           Watch(r) \/ Vanished(r) \/ FailureIsLost(r) \/ FailureIsItsOwn(r)
    PROVE  ReportsOK' /\ KnewOK' /\ TellsMore(r)
<1>1. TypeOK' /\ Moves
  BY StepTypes, StepMoves DEF ReportsOK
<1>2. CASE Watch(r)
  <2>1. PICK verdict \in VerdictsFor(r) : Finds(r, verdict)
    BY <1>2 DEF Watch
  <2>2. UNCHANGED <<reported, knew, sent_to, alarmed>> /\ pc[r] \in Forwarded
    BY <1>2 DEF Watch, historyVars
  <2>3. pc'[r] \in Forwarded \cup {"abandoning"}
    BY <2>1, <2>2 DEF Finds, Goto, TypeOK
  <2>4. ASSUME Reports(r), r \notin alarmed', pc'[r] = "abandoning"
        PROVE  knew[r] + 1 < Fresh
    <3>1. Knows(r) /\ knew[r] <= reported
      BY <2>2, <2>4, Knowing DEF Knows, Forwarded
    <3>2. CASE NoneLives
      BY <3>1, <3>2, Knowing
    <3>3. CASE sent_to[r] # 0 /\ bound' \notin {0, sent_to[r]}
      <4>1. sent_to[r] <= bound' /\ bound' <= spawned' /\ spawned' = spawned /\ bound' \in Nat
        BY <1>1, <1>2, <3>1, <3>3, SentStays, <2>2 DEF Knows, TypeOK, Watch, worldVars
      <4>2. knew[r] < sent_to[r] /\ sent_to[r] < bound'
        BY <3>1, <3>3, <4>1, Knowing DEF Knows
      <4>3. QED
        BY <4>1, <4>2, Knowing
    <3>4. CASE UNCHANGED pc
      BY <2>2, <2>4, <3>4 DEF Forwarded
    <3>5. QED
      BY <2>1, <3>2, <3>3, <3>4 DEF Finds
  <2>5. Reports(r) /\ r \notin alarmed' => knew'[r] <= reported
    BY <2>2, Knowing DEF Knows, Forwarded
  <2>6. QED
    BY <1>1, <2>2, <2>3, <2>4, <2>5, GoesOn DEF Forwarded
<1>3. ASSUME NEW moved \in BOOLEAN, ReplacedOrRecover(r, moved), pc[r] \in {"abandoning", "failing"},
             moved => sent_to[r] # 0 /\ bound' \notin {0, sent_to[r]},
             moved /\ Reports(r) => ~notice',
             alarmed \subseteq alarmed',
             ~moved /\ Reports(r) /\ r \notin alarmed' => knew[r] + 1 < Fresh
      PROVE  ReportsOK' /\ KnewOK' /\ TellsMore(r)
  <2>1. UNCHANGED <<reported, knew>> /\ Forgets(r) /\ bound' \in Nat /\ bound' <= spawned'
    BY <1>1, <1>3 DEF ReplacedOrRecover, TypeOK
  <2>2. sent_to'[r] = 0 /\ pc[r] # "new"
    BY <1>3, <2>1, ForgetsTypes
  <2>3. CASE moved
    <3>1. Goto(r, "clearing") /\ Covers(r, bound')
      BY <1>3, <2>3 DEF ReplacedOrRecover
    <3>2. pc'[r] = "clearing" /\ covers'[r] = bound' - 1
      BY <2>1, <3>1, PlacesArePlaces, WentTo, CoversOne
    <3>3. Reports(r) => Past(covers[r])'
      <4>1. spawned' \in Nat
        BY <1>1 DEF TypeOK
      <4>2. covers'[r] < spawned' /\ covers'[r] < bound'
        BY <2>1, <3>2, <4>1, CoversBut
      <4>3. QED
        BY <1>3, <2>3, <4>2 DEF Past, Signal
    <3>4. ASSUME Reports(r), r \notin alarmed' PROVE knew[r] < covers'[r]
      <4>1. knew[r] < sent_to[r] /\ sent_to[r] <= spawned /\ (bound # 0 => sent_to[r] <= bound)
        BY <1>3, <2>3, <3>4, Knowing DEF Knows
      <4>2. sent_to[r] <= bound'
        BY <1>1, <1>3, <2>1, <2>3, <4>1, Knowing DEF Moves
      <4>3. sent_to[r] < bound'
        BY <1>3, <2>1, <2>3, <4>2, Knowing
      <4>4. QED
        BY <2>1, <3>2, <4>1, <4>3, Knowing
    <3>5. QED
      BY <1>1, <1>3, <2>1, <2>2, <3>2, <3>3, <3>4, WillReport
  <2>4. CASE ~moved
    <3>1. Goto(r, "locking")
      BY <1>3, <2>4 DEF ReplacedOrRecover
    <3>2. pc'[r] = "locking"
      BY <3>1, PlacesArePlaces, WentTo DEF Respawning
    <3>3. Reports(r) /\ r \notin alarmed' => knew'[r] <= reported
      BY <1>3, <2>1, <2>2, Knowing DEF Knows
    <3>4. QED
      BY <1>1, <1>3, <2>1, <2>2, <2>4, <3>2, <3>3, GoesOn
  <2>5. QED
    BY <2>3, <2>4
<1>4. CASE Vanished(r)
  <2>1. /\ ReplacedOrRecover(r, Moved(r)) /\ bound' = bound /\ Moved(r) \in BOOLEAN /\ pc[r] = "abandoning"
        /\ (Moved(r) /\ Reports(r) => ~notice') /\ alarmed' = alarmed
    BY <1>4 DEF Vanished, Moved
  <2>2. Moved(r) => sent_to[r] # 0 /\ bound' \notin {0, sent_to[r]}
    BY <2>1 DEF Moved
  <2>3. Reports(r) /\ r \notin alarmed' => knew[r] + 1 < Fresh
    BY <2>1, Knowing DEF Knows
  <2>4. QED
    BY <1>3, <2>1, <2>2, <2>3
<1>5. CASE FailureIsLost(r)
  <2>1. PICK verdict \in VerdictsFor(r) :
          LET moved == verdict # "gone" /\ sent_to[r] # 0 /\ Observed(verdict) \notin {0, sent_to[r]}
          IN  /\ verdict = "gone" \/ moved
              /\ bound' = Observed(verdict)
              /\ notice' = ((notice \/ Raises(verdict)) /\ ~(moved /\ Reports(r)))
              /\ IF moved THEN UNCHANGED alarmed ELSE Alarms(r)
              /\ ReplacedOrRecover(r, moved)
    BY <1>5 DEF FailureIsLost
  <2> DEFINE moved == verdict # "gone" /\ sent_to[r] # 0 /\ Observed(verdict) \notin {0, sent_to[r]}
  <2>2. /\ ReplacedOrRecover(r, moved) /\ moved \in BOOLEAN /\ bound' = Observed(verdict)
        /\ (moved /\ Reports(r) => ~notice') /\ (IF moved THEN UNCHANGED alarmed ELSE Alarms(r))
    BY <2>1
  <2>3. moved => sent_to[r] # 0 /\ bound' \notin {0, sent_to[r]}
    BY <2>2
  <2>4. pc[r] = "failing"
    BY <1>5 DEF FailureIsLost
  <2> HIDE DEF moved
  <2>5. alarmed \subseteq alarmed' /\ (~moved /\ r \notin alarmed' => NoneLives)
    BY <2>2 DEF Alarms
  <2>6. ~moved /\ Reports(r) /\ r \notin alarmed' => knew[r] + 1 < Fresh
    <3>1. Reports(r) /\ r \notin alarmed' => knew[r] <= reported
      BY <2>4, <2>5, Knowing DEF Knows
    <3>2. QED
      BY <2>5, <3>1, Knowing
  <2>7. QED
    BY <1>3, <2>2, <2>3, <2>4, <2>5, <2>6
<1>6. CASE FailureIsItsOwn(r)
  <2>1. UNCHANGED <<reported, knew, alarmed>> /\ pc'[r] = "failed" /\ sent_to'[r] = 0 /\ pc[r] = "failing"
    BY <1>6 DEF FailureIsItsOwn, historyVars, Forgets, Goto, TypeOK
  <2>2. Reports(r) /\ r \notin alarmed' => knew'[r] <= reported
    BY <2>1, Knowing DEF Knows
  <2>3. QED
    BY <1>1, <2>1, <2>2, GoesOn
<1>7. QED
  BY <1>2, <1>4, <1>5, <1>6

LEMMA RespawnSteps ==
    ASSUME TypeOK, ReportsOK, KnewOK, NEW r \in Request, Step(r),
           Rechecked(r) \/ Ensured(r) \/ Adopted(r) \/ Cleared(r) \/ Recovered(r)
    PROVE  ReportsOK' /\ KnewOK' /\ TellsMore(r)
<1>1. TypeOK' /\ Moves
  BY StepTypes, StepMoves DEF ReportsOK
<1>2. ASSUME UNCHANGED <<reported, knew, sent_to, alarmed>>, pc[r] \in {"rechecking", "ensuring"},
             \/ pc'[r] = "unrecovered"
             \/ pc'[r] = "adopting" /\ covers'[r] = Fresh - 1 /\ Fresh <= spawned'
      PROVE  ReportsOK' /\ KnewOK' /\ TellsMore(r)
  <2>1. Reports(r) /\ r \notin alarmed' => knew'[r] <= reported /\ knew[r] + 1 < Fresh
    BY <1>2, Knowing DEF Knows
  <2>2. CASE pc'[r] = "unrecovered"
    BY <1>1, <1>2, <2>1, <2>2, GoesOn
  <2>3. CASE pc'[r] = "adopting" /\ covers'[r] = Fresh - 1 /\ Fresh <= spawned'
    <3>1. spawned' \in Nat
      BY <1>1 DEF TypeOK
    <3>2. covers'[r] < spawned' /\ (Reports(r) /\ r \notin alarmed' => knew[r] < covers'[r])
      BY <2>1, <2>3, <3>1, Knowing
    <3>3. QED
      BY <1>1, <1>2, <2>3, <3>2, WillReport
  <2>4. QED
    BY <1>2, <2>2, <2>3
<1>3. CASE Rechecked(r)
  <2>1. PICK verdict \in VerdictsFor(r) :
          IF verdict = "alive"
          THEN Goto(r, "adopting") /\ Covers(r, daemon)
          ELSE Goto(r, "unrecovered")
    BY <1>3 DEF Rechecked
  <2>2. UNCHANGED <<reported, knew, sent_to, alarmed, spawned>> /\ pc[r] = "rechecking"
    BY <1>3 DEF Rechecked, worldVars
  <2>3. CASE verdict = "alive"
    <3>1. Fresh = daemon /\ daemon = spawned
      BY <2>3, VerdictsAre, FreshIs
    <3>2. pc'[r] = "adopting" /\ covers'[r] = daemon - 1
      BY <2>1, <2>3, <3>1, Knowing, CoversOne DEF Goto, TypeOK
    <3>3. QED
      BY <1>2, <2>2, <3>1, <3>2, Knowing
  <2>4. CASE verdict # "alive"
    <3>1. pc'[r] = "unrecovered"
      BY <2>1, <2>4 DEF Goto, TypeOK
    <3>2. QED
      BY <1>2, <2>2, <3>1
  <2>5. QED
    BY <2>3, <2>4
<1>4. CASE Ensured(r)
  <2>1. UNCHANGED <<reported, knew, sent_to, alarmed>> /\ pc[r] = "ensuring" /\ ~closing
    BY <1>4 DEF Ensured
  <2>2. CASE daemon # 0 /\ UNCHANGED worldVars /\ Goto(r, "adopting") /\ Covers(r, daemon)
    <3>1. Fresh = daemon /\ daemon = spawned /\ spawned' = spawned
      BY <2>1, <2>2, FreshIs DEF NoneLives, worldVars
    <3>2. pc'[r] = "adopting" /\ covers'[r] = daemon - 1
      BY <2>2, <3>1, Knowing, CoversOne DEF Goto, TypeOK
    <3>3. QED
      BY <1>2, <2>1, <3>1, <3>2, Knowing
  <2>3. CASE Spawn /\ Goto(r, "adopting") /\ Covers(r, daemon')
    <3>1. Fresh = spawned + 1 /\ daemon' = spawned + 1 /\ spawned' = spawned + 1
      BY <2>3, FreshIs DEF NoneLives, Spawn
    <3>2. pc'[r] = "adopting" /\ covers'[r] = daemon' - 1
      BY <2>3, <3>1, Knowing, CoversOne DEF Goto, TypeOK
    <3>3. QED
      BY <1>2, <2>1, <3>1, <3>2, Knowing
  <2>4. CASE Goto(r, "unrecovered")
    <3>1. pc'[r] = "unrecovered"
      BY <2>4 DEF Goto, TypeOK
    <3>2. QED
      BY <1>2, <2>1, <3>1
  <2>5. QED
    BY <1>4, <2>2, <2>3, <2>4 DEF Ensured
<1>5. CASE Adopted(r)
  <2>1. /\ pc[r] = "adopting" /\ Goto(r, "dropping") /\ ~notice' /\ bound' \in {0, daemon}
        /\ UNCHANGED <<reported, knew, sent_to, alarmed, spawned>>
        /\ IF bound' # 0 THEN Covers(r, bound') ELSE UNCHANGED covers
    BY <1>5 DEF Adopted, worldVars
  <2>2. pc'[r] = "dropping"
    BY <2>1, PlacesArePlaces, WentTo DEF Respawning
  <2>3. bound' # 0 => bound' = spawned /\ covers'[r] = spawned - 1
    <3>1. ASSUME bound' # 0 PROVE bound' = spawned /\ bound' \in Nat
      BY <2>1, <3>1 DEF TypeOK
    <3>2. QED
      BY <2>1, <3>1, CoversOne
  <2>4. ASSUME Reports(r)
        PROVE  /\ covers'[r] < spawned /\ covers[r] <= covers'[r] /\ (bound' # 0 => covers'[r] < bound')
               /\ covers'[r] \in Int
    <3>1. covers[r] < spawned
      BY <2>1, <2>4 DEF ReportsOK
    <3>2. QED
      BY <2>1, <2>3, <3>1, Knowing
  <2>5. Reports(r) => Past(covers[r])'
    BY <2>1, <2>4 DEF Past, Signal
  <2>6. Reports(r) /\ r \notin alarmed' => knew[r] < covers'[r]
    BY <2>1, <2>4, Knowing DEF Knows
  <2>7. QED
    BY <1>1, <2>1, <2>2, <2>5, <2>6, WillReport
<1>6. CASE Cleared(r) \/ Recovered(r)
  <2>1. /\ Report(r) /\ covers' = covers /\ UNCHANGED <<bound, spawned, sent_to>>
        /\ pc[r] \in {"dropping", "clearing"}
        /\ Reports(r) => UNCHANGED <<notice, hinted>>
    BY <1>6 DEF Cleared, Recovered, proxyVars, worldVars
  <2>2. ASSUME Reports(r) PROVE Past(covers[r])'
    <3>1. Past(covers[r])
      BY <2>1, <2>2 DEF ReportsOK
    <3>2. QED
      BY <2>1, <2>2, <3>1 DEF Past, Signal
  <2>3. TellsMore(r)
    BY <2>1, Knowing DEF TellsMore, Knows
  <2>4. QED
    BY <1>1, <2>1, <2>2, <2>3, DoesReport
<1>7. QED
  BY <1>3, <1>4, <1>5, <1>6

LEMMA ReportsKeptByRequest ==
    ASSUME TypeOK, ReportsOK, KnewOK, NEW r \in Request, Step(r)
    PROVE  ReportsOK' /\ KnewOK' /\ TellsMore(r)
BY PlainSteps, PrecheckSteps, LostSteps, RespawnSteps DEF Step, Serve, Settle

LEMMA ReportsKeptByWorld ==
    ASSUME TypeOK, ReportsOK, KnewOK, [Next]_vars,
           UNCHANGED vars \/ Die \/ BeginClosing \/ OtherProxySpawns \/ Heartbeat \/ CooldownEnds
    PROVE  ReportsOK' /\ KnewOK' /\ UNCHANGED pc
<1>1. UNCHANGED <<pc, sent_to, covers, reported, knew, alarmed>>
  BY DEF vars, requestVars, historyVars, Die, BeginClosing, OtherProxySpawns, Heartbeat, CooldownEnds
<1>2. TypeOK' /\ Moves
  BY TypesKept, WorldMovesToo DEF ReportsOK
<1>3. Fresh <= Fresh'
  BY FreshGrows DEF vars, OtherProxySpawns, Heartbeat, CooldownEnds
<1>4. /\ reported \in Int /\ bound \in Nat /\ bound' \in Nat /\ spawned \in Nat /\ spawned' \in Nat
      /\ \A s \in Request : covers[s] \in Int
  BY <1>2 DEF TypeOK
<1>5. ASSUME NEW losses \in Int, Past(losses), NEW x, x = losses
      PROVE  x < spawned' /\ (bound' # 0 => x < bound') /\ (Signal' => x + 1 < bound')
  BY <1>2, <1>5, PastStays DEF ReportsOK
<1>6. ReportsOK'
  <2>1. Signal' => bound' # 0
    BY <1>2, <1>4 DEF Moves, ReportsOK
  <2>2. Past(reported)'
    BY <1>1, <1>4, <1>5 DEF Past, ReportsOK
  <2>3. ASSUME NEW s \in Request, Reports(s)
        PROVE  /\ pc'[s] = "adopting" => covers'[s] < spawned'
               /\ pc'[s] \in {"dropping", "clearing"} => Past(covers[s])'
    <3>1. pc[s] = "adopting" => covers[s] < spawned'
      BY <1>2, <1>4, <2>3 DEF ReportsOK, Moves
    <3>2. pc[s] \in {"dropping", "clearing"} => Past(covers[s])
      BY <2>3 DEF ReportsOK
    <3>3. QED
      BY <1>1, <1>4, <1>5, <3>1, <3>2 DEF Past
  <2>4. QED
    BY <2>1, <2>2, <2>3 DEF ReportsOK, Reports
<1>7. KnewOK'
  <2>1. reported <= reported'
    BY <1>1, <1>4
  <2>2. ASSUME NEW s \in Request, Knows(s) PROVE Knows(s)'
    BY <1>1, <1>2, <1>3, <2>1, <2>2, KnowsStays
  <2>3. QED
    BY <1>1, <2>2 DEF KnewOK, Reports
<1>8. QED
  BY <1>1, <1>6, <1>7

\* ReportedOnce, of any number of requests of any kind and of daemons, and whatever
\* the renewals prove: but for the notice of a silent repair and for a refusal by a
\* living daemon, a call is failed for a loss that was not reported when it began.
THEOREM ReportedOnceTheorem == Spec => ReportedOnce
<1>1. Init => ReportsOK /\ KnewOK
  <2> SUFFICES ASSUME Init PROVE ReportsOK /\ KnewOK
    OBVIOUS
  <2>1. ReportsOK
    BY DEF Init, ReportsOK, Past, Signal
  <2>2. KnewOK
    BY DEF Init, KnewOK, Knows
  <2>3. QED
    BY <2>1, <2>2
<1>2. TypeOK /\ ReportsOK /\ KnewOK /\ [Next]_vars =>
        /\ ReportsOK' /\ KnewOK'
        /\ \A r \in Request :
              Reports(r) /\ pc[r] # "restarted" /\ pc'[r] = "restarted" =>
                  \/ covers'[r] > knew[r]
                  \/ pc[r] = "precheck" /\ hinted
                  \/ r \in alarmed
  <2> SUFFICES ASSUME TypeOK, ReportsOK, KnewOK, [Next]_vars
               PROVE  /\ ReportsOK' /\ KnewOK'
                      /\ \A r \in Request :
                            Reports(r) /\ pc[r] # "restarted" /\ pc'[r] = "restarted" =>
                                \/ covers'[r] > knew[r]
                                \/ pc[r] = "precheck" /\ hinted
                                \/ r \in alarmed
    OBVIOUS
  <2>1. ASSUME NEW r \in Request, Step(r)
        PROVE  /\ ReportsOK' /\ KnewOK'
               /\ \A s \in Request :
                     Reports(s) /\ pc[s] # "restarted" /\ pc'[s] = "restarted" =>
                         \/ covers'[s] > knew[s]
                         \/ pc[s] = "precheck" /\ hinted
                         \/ s \in alarmed
    BY <2>1, ReportsKeptByRequest, OneMoves DEF TellsMore
  <2>2. CASE UNCHANGED vars \/ Die \/ BeginClosing \/ OtherProxySpawns \/ Heartbeat \/ CooldownEnds
    BY <2>2, ReportsKeptByWorld
  <2>3. QED
    BY <2>1, <2>2, NextIs
<1>3. QED
  BY <1>1, <1>2, TypeCorrect, PTL DEF Spec, ReportedOnce

=============================================================================
