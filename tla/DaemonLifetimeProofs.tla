------------------------- MODULE DaemonLifetimeProofs -------------------------
(***************************************************************************)
(* The safety of DaemonLifetime for any proxies, bounds and TTLs.          *)
(*                                                                         *)
(* The watchdog never sees `promised` or `lastNeeded`: the proof ties them *)
(* to what it does see, the table and the activity stamp.                  *)
(***************************************************************************)
EXTENDS DaemonLifetime, LeaseTableRefinement, FiniteSetTheorems, TLAPS

\* What a proxy was told is what the table holds, as long as it matters.
PromisesKept ==
    /\ \A p \in held : promised[p] = expires_at[p]
    /\ \A p \in Proxy \ held : promised[p] <= now

\* The history variable runs up to now while the daemon is needed, and past
\* every lease that has lapsed.
NeedIsRecent ==
    /\ lastNeeded <= now
    /\ Needed => lastNeeded = now
    /\ \A p \in held : expires_at[p] <= now => expires_at[p] <= lastNeeded

\* The watchdog's quiet_since is never earlier than the last need ...
QuietNotTooEarly ==
    \/ Busy
    \/ lastNeeded <= last_activity
    \/ lastNeeded <= vacated_at
    \/ \E p \in held : lastNeeded <= expires_at[p]

\* ... nor later.
QuietNotTooLate ==
    /\ last_activity <= lastNeeded
    /\ vacated_at <= lastNeeded

Closing ==
    /\ closed <=> closed_by # "nobody"
    /\ closed_by \in {"watchdog", "shutdown"} => held = {}

CheckedInTime ==
    /\ last_mono <= now
    /\ ~closed => last_mono - lastNeeded <= Ttl

IInv ==
    /\ TypeOK
    /\ VacatedOnlyWhenEmpty
    /\ PromisesKept
    /\ NeedIsRecent
    /\ QuietNotTooEarly
    /\ QuietNotTooLate
    /\ Closing
    /\ CheckedInTime

\* The part of the invariant that speaks of the leases.
LeaseInv ==
    /\ TableTypeOK
    /\ VacatedOnlyWhenEmpty
    /\ PromisesKept
    /\ NeedIsRecent
    /\ QuietNotTooEarly
    /\ QuietNotTooLate

-----------------------------------------------------------------------------

LEMMA InitInvariant == Init => IInv
<1> SUFFICES ASSUME Init PROVE IInv
  OBVIOUS
<1> USE DEF Init, TableInit
<1>1. TypeOK
  <2>1. now \in Nat /\ held \subseteq Proxy /\ vacated_at \in Nat \cup {Never}
    OBVIOUS
  <2>2. expires_at \in [Proxy -> Nat] /\ ttl_s \in [Proxy -> Nat]
    OBVIOUS
  <2>3. closed \in BOOLEAN
    OBVIOUS
  <2>4. /\ last_activity \in Nat /\ inflight \in Nat /\ sessions \in Nat
        /\ last_mono \in Nat /\ wall_ahead \in Int /\ lastNeeded \in Nat
    OBVIOUS
  <2>5. asleep \in BOOLEAN /\ closed_by \in {"nobody", "watchdog", "shutdown", "force"}
    OBVIOUS
  <2>6. promised \in [Proxy -> Nat] /\ dozing \subseteq Proxy
    OBVIOUS
  <2>7. QED
    BY <2>1, <2>2, <2>3, <2>4, <2>5, <2>6 DEF TypeOK, TableTypeOK
<1>2. ~Busy /\ Promised = {}
  BY DEF Busy, Promised
<1>3. VacatedOnlyWhenEmpty /\ PromisesKept /\ Closing
  BY DEF VacatedOnlyWhenEmpty, PromisesKept, Closing
<1>4. NeedIsRecent /\ QuietNotTooEarly /\ QuietNotTooLate
  BY <1>2 DEF NeedIsRecent, QuietNotTooEarly, QuietNotTooLate, Needed, Never
<1>5. CheckedInTime
  BY LifetimeConstants DEF CheckedInTime
<1>6. QED
  BY <1>1, <1>3, <1>4, <1>5 DEF IInv

(* Dropping the lapsed leases, which every table operation does first, changes *)
(* nothing that the invariant sees; nor does forgetting a lapsed promise.      *)
LEMMA PruneKeepsLeaseInv ==
    ASSUME TypeOK, LeaseInv,
           Keep(Unexpired), PruneVacates,
           closed' \in BOOLEAN,
           UNCHANGED <<now, serverVars, lastNeeded>>,
           \A p \in Proxy : promised'[p] # promised[p] => promised[p] <= now /\ promised'[p] = 0
    PROVE  LeaseInv'
<1> USE DEF Expired, Unexpired, Keep, serverVars
<1>1. /\ held' = {p \in held : now < expires_at[p]}
      /\ \A p \in held' : expires_at'[p] = expires_at[p]
  BY DEF LeaseInv, TableTypeOK
<1>2. TableTypeOK' /\ VacatedOnlyWhenEmpty'
  <2>1. vacated_at' \in Nat \cup {Never}
    BY DEF PruneVacates, LeaseInv, TableTypeOK, Larger
  <2>2. vacated_at' # Never => held' = {}
    BY <1>1 DEF PruneVacates, LeaseInv, TableTypeOK, VacatedOnlyWhenEmpty, Never
  <2>3. QED
    BY <2>1, <2>2, <1>1 DEF LeaseInv, TableTypeOK, VacatedOnlyWhenEmpty
<1>3. PromisesKept'
  BY <1>1 DEF LeaseInv, TableTypeOK, PromisesKept, TypeOK
<1>4. Needed' = Needed
  <2>1. Promised' = Promised
    BY DEF Promised, LeaseInv, TableTypeOK, TypeOK
  <2>2. QED
    BY <2>1 DEF Needed, Busy
<1>5. NeedIsRecent'
  BY <1>1, <1>4 DEF LeaseInv, TableTypeOK, NeedIsRecent
<1>6. CASE Expired # {} /\ Unexpired = {}
  <2>1. PICK last \in Expired :
            /\ \A p \in Expired : expires_at[p] <= expires_at[last]
            /\ vacated_at' = Larger(vacated_at, expires_at[last])
    BY <1>6 DEF PruneVacates
  <2>2. /\ vacated_at' \in Int
        /\ vacated_at <= vacated_at'
        /\ \A p \in held : expires_at[p] <= vacated_at'
        /\ vacated_at' = vacated_at \/ vacated_at' = expires_at[last]
    BY <1>6, <2>1 DEF LeaseInv, TableTypeOK, Larger, Never
  <2>3. QuietNotTooEarly'
    BY <2>2 DEF LeaseInv, TableTypeOK, QuietNotTooEarly, Busy, TypeOK, Never
  <2>4. QuietNotTooLate'
    BY <2>1, <2>2 DEF LeaseInv, TableTypeOK, QuietNotTooLate, NeedIsRecent
  <2>5. QED
    BY <1>2, <1>3, <1>5, <2>3, <2>4 DEF LeaseInv
<1>7. CASE ~(Expired # {} /\ Unexpired = {})
  <2>1. vacated_at' = vacated_at
    BY <1>7 DEF PruneVacates
  <2>2. QuietNotTooEarly'
    <3>1. CASE Expired = {}
      BY <1>1, <2>1, <3>1 DEF LeaseInv, TableTypeOK, QuietNotTooEarly, Busy
    <3>2. CASE Unexpired # {}
      <4>1. PICK p \in held' : lastNeeded <= expires_at[p]
        BY <3>2, <1>1 DEF LeaseInv, TableTypeOK, NeedIsRecent, TypeOK
      <4>2. QED
        BY <4>1, <1>1 DEF QuietNotTooEarly
    <3>3. QED
      BY <1>7, <3>1, <3>2
  <2>3. QuietNotTooLate'
    BY <2>1 DEF LeaseInv, QuietNotTooLate
  <2>4. QED
    BY <1>2, <1>3, <1>5, <2>2, <2>3 DEF LeaseInv
<1>8. QED
  BY <1>6, <1>7

-----------------------------------------------------------------------------
(* Types. *)

LEMMA TypeStep == TypeOK /\ [Next]_vars => TypeOK'
<1> SUFFICES ASSUME TypeOK, [Next]_vars PROVE TypeOK'
  OBVIOUS
<1> USE LeaseConstants, LifetimeConstants
        DEF TypeOK, TableTypeOK, tableVars, serverVars, watchVars, historyVars
<1>a. ASSUME Keep(Unexpired), PruneVacates, now' = now
      PROVE  /\ held' \subseteq Proxy
             /\ expires_at' \in [Proxy -> Nat]
             /\ ttl_s' \in [Proxy -> Nat]
             /\ vacated_at' \in Nat \cup {Never}
  BY <1>a DEF Keep, PruneVacates, Unexpired, Expired, Larger
<1>1. CASE Tick
  <2>1. lastNeeded' \in Nat
    BY <1>1 DEF Tick, TableTick
  <2>2. dozing' \subseteq Proxy
    BY <1>1 DEF Tick, Promised
  <2>3. QED
    BY <1>1, <2>1, <2>2 DEF Tick, TableTick
<1>2. CASE Suspend
  BY <1>2 DEF Suspend
<1>3. CASE Wake
  BY <1>3 DEF Wake
<1>4. ASSUME NEW d \in WallSteps, WallStep(d) PROVE TypeOK'
  BY <1>4 DEF WallStep
<1>5. ASSUME NEW p \in Proxy, NEW asked \in AskedTtl, LeaseGranted(p, asked) PROVE TypeOK'
  <2>1. Clamp(asked) \in Nat
    BY DEF Clamp
  <2>2. /\ held' \subseteq Proxy
        /\ expires_at' \in [Proxy -> Nat]
        /\ ttl_s' \in [Proxy -> Nat]
        /\ vacated_at' = Never
        /\ UNCHANGED <<now, closed>>
    BY <1>5, <2>1 DEF LeaseGranted, Grant, Unexpired
  <2>3. promised' \in [Proxy -> Nat] /\ dozing' \subseteq Proxy /\ lastNeeded' \in Nat
    BY <1>5, <2>2 DEF LeaseGranted
  <2>4. QED
    BY <1>5, <2>2, <2>3 DEF LeaseGranted
<1>6. ASSUME NEW p \in Proxy, LeaseReleased(p) PROVE TypeOK'
  <2>1. /\ held' \subseteq Proxy
        /\ expires_at' \in [Proxy -> Nat]
        /\ ttl_s' \in [Proxy -> Nat]
    BY <1>6 DEF LeaseReleased, Release, Keep, Unexpired
  <2>2. vacated_at' \in Nat \cup {Never}
    BY <1>6 DEF LeaseReleased, Release, PruneVacates, Expired, Larger
  <2>3. QED
    BY <1>6, <2>1, <2>2 DEF LeaseReleased, Release
<1>7. CASE LeaseRefusedOrHealth
  BY <1>7, <1>a DEF LeaseRefusedOrHealth, GrantOverLimit, Prune
<1>8. ASSUME NEW force \in BOOLEAN, Shutdown(force) PROVE TypeOK'
  <2>1. closed' \in BOOLEAN
    BY <1>8 DEF Shutdown
  <2>2. closed_by' \in {"nobody", "watchdog", "shutdown", "force"}
    BY <1>8 DEF Shutdown
  <2>3. QED
    BY <1>8, <1>a, <2>1, <2>2 DEF Shutdown
<1>9. CASE RequestStart
  BY <1>9 DEF RequestStart
<1>10. CASE RequestEnd
  BY <1>10 DEF RequestEnd
<1>11. CASE SessionsChange
  BY <1>11 DEF SessionsChange
<1>12. CASE WatchdogResumes
  BY <1>12 DEF WatchdogResumes, RefreshAll, Ticked
<1>13. CASE WatchdogSeesNeed
  <2>1. CASE Busy
    BY <1>13, <2>1 DEF WatchdogSeesNeed, Ticked
  <2>2. CASE ~Busy
    BY <1>13, <2>2, <1>a DEF WatchdogSeesNeed, Ticked, Prune
  <2>3. QED
    BY <2>1, <2>2
<1>14. CASE WatchdogIdle
  <2>1. closed' \in BOOLEAN
    BY <1>14 DEF WatchdogIdle
  <2>2. closed_by' \in {"nobody", "watchdog", "shutdown", "force"}
    BY <1>14 DEF WatchdogIdle
  <2>3. QED
    BY <1>14, <1>a, <2>1, <2>2 DEF WatchdogIdle, Ticked
<1>15. CASE UNCHANGED vars
  BY <1>15 DEF vars
<1>16. QED
  BY <1>1, <1>2, <1>3, <1>4, <1>5, <1>6, <1>7, <1>8, <1>9, <1>10, <1>11, <1>12, <1>13,
     <1>14, <1>15 DEF Next, Handler

\* The type invariant holds of every daemon.
THEOREM TypeCorrect == Spec => []TypeOK
<1>1. Init => TypeOK
  BY InitInvariant DEF IInv
<1>2. QED
  BY <1>1, TypeStep, PTL DEF Spec

-----------------------------------------------------------------------------
(* The leases and the history, action by action. *)

LEMMA TickKeepsLeaseInv == TypeOK /\ LeaseInv /\ Tick => LeaseInv'
<1> SUFFICES ASSUME TypeOK, LeaseInv, Tick PROVE LeaseInv'
  OBVIOUS
<1> USE DEF LeaseInv, TypeOK, TableTypeOK, Tick, TableTick, tableVars, serverVars, historyVars
<1>1. TableTypeOK' /\ VacatedOnlyWhenEmpty' /\ PromisesKept'
  BY DEF VacatedOnlyWhenEmpty, PromisesKept
<1>2. Needed' => Needed
  BY DEF Needed, Busy, Promised
<1>3. lastNeeded' <= now' /\ (Needed' => lastNeeded' = now') /\ lastNeeded <= lastNeeded'
  BY <1>2 DEF NeedIsRecent
<1>4. ASSUME NEW p \in held', expires_at'[p] <= now'
      PROVE  expires_at'[p] <= lastNeeded'
  <2>1. CASE expires_at[p] <= now
    BY <1>3, <1>4, <2>1 DEF NeedIsRecent
  <2>2. CASE expires_at[p] > now
    <3>1. p \in Promised
      BY <1>4, <2>2 DEF Promised, PromisesKept
    <3>2. lastNeeded' = now'
      BY <3>1 DEF Needed
    <3>3. QED
      BY <1>4, <3>2
  <2>3. QED
    BY <2>1, <2>2
<1>5. NeedIsRecent'
  BY <1>3, <1>4 DEF NeedIsRecent
<1>6. QuietNotTooLate'
  BY <1>3 DEF QuietNotTooLate
<1>7. QuietNotTooEarly'
  <2>1. CASE Busy
    BY <2>1 DEF Busy, QuietNotTooEarly
  <2>2. CASE ~Busy /\ Promised # {}
    <3>1. PICK p \in Promised : TRUE
      BY <2>2
    <3>2. p \in held /\ expires_at[p] > now
      BY <3>1 DEF Promised, PromisesKept
    <3>3. lastNeeded' = now + 1
      BY <2>2 DEF Needed
    <3>4. QED
      BY <3>2, <3>3 DEF QuietNotTooEarly
  <2>3. CASE ~Needed
    BY <2>3 DEF QuietNotTooEarly, Needed, Busy
  <2>4. QED
    BY <2>1, <2>2, <2>3 DEF Needed
<1>8. QED
  BY <1>1, <1>5, <1>6, <1>7

LEMMA GrantKeepsLeaseInv ==
    ASSUME TypeOK, LeaseInv, NEW p \in Proxy, NEW asked \in AskedTtl, LeaseGranted(p, asked)
    PROVE  LeaseInv'
<1> USE DEF LeaseInv, TypeOK, TableTypeOK, Unexpired, Expired, serverVars
<1>1. Clamp(asked) \in Nat /\ Clamp(asked) > 0
  BY LeaseConstants DEF Clamp
<1>2. /\ held' = {q \in held : now < expires_at[q]} \cup {p}
      /\ expires_at'[p] = now + Clamp(asked)
      /\ \A q \in held' \ {p} : expires_at'[q] = expires_at[q] /\ now < expires_at[q]
      /\ promised' = [promised EXCEPT ![p] = now + Clamp(asked)]
      /\ vacated_at' = Never /\ now' = now /\ lastNeeded' = now /\ UNCHANGED <<inflight, sessions>>
  BY DEF LeaseGranted, Grant
<1>3. /\ held' \subseteq Proxy
      /\ expires_at' \in [Proxy -> Nat]
      /\ ttl_s' \in [Proxy -> Nat]
      /\ closed' = closed
  BY <1>1 DEF LeaseGranted, Grant
<1>4. PromisesKept'
  BY <1>1, <1>2 DEF PromisesKept
<1>5. NeedIsRecent'
  BY <1>1, <1>2 DEF NeedIsRecent
<1>6. QuietNotTooEarly'
  BY <1>1, <1>2 DEF QuietNotTooEarly
<1>7. QuietNotTooLate'
  BY <1>2 DEF QuietNotTooLate, NeedIsRecent, LeaseGranted, Never
<1>8. QED
  BY <1>2, <1>3, <1>4, <1>5, <1>6, <1>7 DEF VacatedOnlyWhenEmpty

LEMMA ReleaseKeepsLeaseInv ==
    ASSUME TypeOK, LeaseInv, NEW p \in Proxy, LeaseReleased(p)
    PROVE  LeaseInv'
<1> USE DEF LeaseInv, TypeOK, TableTypeOK, Unexpired, Expired, serverVars, LeaseReleased, Release
<1>1. CASE p \in Unexpired
  <2>1. /\ held' = {q \in held : now < expires_at[q]} \ {p}
        /\ \A q \in held' : expires_at'[q] = expires_at[q]
        /\ vacated_at' = IF held' = {} THEN now ELSE vacated_at
    BY <1>1 DEF Keep
  <2>2. /\ expires_at' \in [Proxy -> Nat]
        /\ ttl_s' \in [Proxy -> Nat]
    BY DEF Keep
  <2>3. lastNeeded = now
    BY <1>1 DEF NeedIsRecent, Needed, Promised, PromisesKept
  <2>4. PromisesKept'
    BY <2>1 DEF PromisesKept
  <2>5. NeedIsRecent'
    BY <2>1, <2>3 DEF NeedIsRecent
  <2>6. QuietNotTooEarly'
    <3>1. CASE held' = {}
      BY <2>1, <2>3, <3>1 DEF QuietNotTooEarly
    <3>2. CASE held' # {}
      <4>1. PICK q \in held' : TRUE
        BY <3>2
      <4>2. lastNeeded <= expires_at'[q]
        BY <2>1, <2>3, <4>1
      <4>3. QED
        BY <4>1, <4>2 DEF QuietNotTooEarly
    <3>3. QED
      BY <3>1, <3>2
  <2>7. QuietNotTooLate'
    BY <2>1, <2>3 DEF QuietNotTooLate
  <2>8. VacatedOnlyWhenEmpty'
    BY <1>1, <2>1 DEF VacatedOnlyWhenEmpty
  <2>9. QED
    BY <2>1, <2>2, <2>4, <2>5, <2>6, <2>7, <2>8
<1>2. CASE p \notin Unexpired
  <2>1. Keep(Unexpired) /\ PruneVacates
    <3>1. Unexpired \ {p} = Unexpired
      BY <1>2
    <3>2. Keep(Unexpired \ {p})
      OBVIOUS
    <3>3. QED
      BY <1>2, <3>1, <3>2
  <2>2. promised[p] <= now
    BY <1>2 DEF PromisesKept
  <2>3. \A q \in Proxy : promised'[q] # promised[q] => promised[q] <= now /\ promised'[q] = 0
    <3>1. promised \in [Proxy -> Nat] /\ promised' = [promised EXCEPT ![p] = 0]
      OBVIOUS
    <3>2. QED
      BY ONLY <2>2, <3>1
  <2>4. UNCHANGED <<now, serverVars, lastNeeded>> /\ closed' \in BOOLEAN
    OBVIOUS
  <2>5. QED
    BY <2>1, <2>3, <2>4, PruneKeepsLeaseInv
<1>3. QED
  BY <1>1, <1>2

LEMMA ResumeKeepsLeaseInv == TypeOK /\ LeaseInv /\ WatchdogResumes => LeaseInv'
<1> SUFFICES ASSUME TypeOK, LeaseInv, WatchdogResumes PROVE LeaseInv'
  OBVIOUS
<1> USE DEF LeaseInv, TypeOK, TableTypeOK, WatchdogResumes, RefreshAll
<1>1. TableTypeOK' /\ VacatedOnlyWhenEmpty'
  BY DEF VacatedOnlyWhenEmpty
<1>2. PromisesKept'
  BY DEF PromisesKept
<1>3. NeedIsRecent' /\ QuietNotTooEarly' /\ QuietNotTooLate'
  BY DEF NeedIsRecent, QuietNotTooEarly, QuietNotTooLate
<1>4. QED
  BY <1>1, <1>2, <1>3

\* A request starts or ends, or a session opens or closes inside one.
LEMMA ServingKeepsLeaseInv ==
    TypeOK /\ LeaseInv /\ (RequestStart \/ RequestEnd \/ SessionsChange) => LeaseInv'
<1> SUFFICES ASSUME TypeOK, LeaseInv, RequestStart \/ RequestEnd \/ SessionsChange PROVE LeaseInv'
  OBVIOUS
<1> USE DEF LeaseInv, TypeOK, TableTypeOK, tableVars
<1>1. UNCHANGED <<now, tableVars, promised>>
  BY DEF RequestStart, RequestEnd, SessionsChange, historyVars
<1>2. TableTypeOK' /\ VacatedOnlyWhenEmpty' /\ PromisesKept'
  BY <1>1 DEF VacatedOnlyWhenEmpty, PromisesKept
<1>3. CASE RequestStart \/ RequestEnd
  <2>1. last_activity' = now /\ lastNeeded' = now
    BY <1>3 DEF RequestStart, RequestEnd
  <2>2. NeedIsRecent' /\ QuietNotTooEarly' /\ QuietNotTooLate'
    BY <1>1, <2>1 DEF NeedIsRecent, QuietNotTooEarly, QuietNotTooLate
  <2>3. QED
    BY <1>2, <2>2
<1>4. CASE SessionsChange
  <2>1. Busy /\ Busy' /\ UNCHANGED <<last_activity, lastNeeded>>
    BY <1>4 DEF SessionsChange, Busy, historyVars
  <2>2. NeedIsRecent' /\ QuietNotTooEarly' /\ QuietNotTooLate'
    BY <1>1, <2>1 DEF NeedIsRecent, QuietNotTooEarly, QuietNotTooLate, Needed
  <2>3. QED
    BY <1>2, <2>2
<1>5. QED
  BY <1>3, <1>4

LEMMA LeaseInvStep == TypeOK /\ LeaseInv /\ [Next]_vars => LeaseInv'
<1> SUFFICES ASSUME TypeOK, LeaseInv, [Next]_vars PROVE LeaseInv'
  OBVIOUS
<1>u. ASSUME UNCHANGED <<now, tableVars, serverVars, promised, lastNeeded>> PROVE LeaseInv'
  BY <1>u DEF LeaseInv, TableTypeOK, VacatedOnlyWhenEmpty, PromisesKept, NeedIsRecent,
     QuietNotTooEarly, QuietNotTooLate, Needed, Busy, Promised, tableVars, serverVars
<1>p. ASSUME Keep(Unexpired), PruneVacates, closed' \in BOOLEAN,
             UNCHANGED <<now, serverVars, promised, lastNeeded>>
      PROVE  LeaseInv'
  <2>1. \A q \in Proxy : promised'[q] = promised[q]
    BY <1>p
  <2>2. QED
    BY <1>p, <2>1, PruneKeepsLeaseInv
<1>1. CASE Tick
  BY <1>1, TickKeepsLeaseInv
<1>2. CASE Suspend \/ Wake \/ \E d \in WallSteps : WallStep(d)
  BY <1>2, <1>u DEF Suspend, Wake, WallStep, historyVars
<1>3. ASSUME NEW p \in Proxy, NEW asked \in AskedTtl, LeaseGranted(p, asked) PROVE LeaseInv'
  BY <1>3, GrantKeepsLeaseInv
<1>4. ASSUME NEW p \in Proxy, LeaseReleased(p) PROVE LeaseInv'
  BY <1>4, ReleaseKeepsLeaseInv
<1>5. CASE LeaseRefusedOrHealth
  <2>1. Prune
    BY <1>5 DEF LeaseRefusedOrHealth, GrantOverLimit
  <2>2. QED
    BY <1>5, <2>1, <1>p DEF LeaseRefusedOrHealth, Prune, TypeOK, TableTypeOK, historyVars
<1>6. ASSUME NEW force \in BOOLEAN, Shutdown(force) PROVE LeaseInv'
  <2>1. closed' \in BOOLEAN
    BY <1>6 DEF Shutdown, TypeOK, TableTypeOK
  <2>2. QED
    BY <1>6, <2>1, <1>p DEF Shutdown, historyVars
<1>7. CASE RequestStart \/ RequestEnd \/ SessionsChange
  BY <1>7, ServingKeepsLeaseInv
<1>8. CASE WatchdogResumes
  BY <1>8, ResumeKeepsLeaseInv
<1>9. CASE WatchdogSeesNeed
  <2>1. CASE Busy
    BY <1>9, <2>1, <1>u DEF WatchdogSeesNeed, historyVars
  <2>2. CASE ~Busy
    BY <1>9, <2>2, <1>p DEF WatchdogSeesNeed, Prune, TypeOK, TableTypeOK, historyVars
  <2>3. QED
    BY <2>1, <2>2
<1>10. CASE WatchdogIdle
  <2>1. closed' \in BOOLEAN
    BY <1>10 DEF WatchdogIdle, TypeOK, TableTypeOK
  <2>2. QED
    BY <1>10, <2>1, <1>p DEF WatchdogIdle, historyVars
<1>11. CASE UNCHANGED vars
  BY <1>11, <1>u DEF vars, historyVars
<1>12. QED
  BY <1>1, <1>2, <1>3, <1>4, <1>5, <1>6, <1>7, <1>8, <1>9, <1>10, <1>11 DEF Next, Handler

-----------------------------------------------------------------------------
(* The decision to close. *)

\* When the watchdog finds nobody, quiet_since is exactly the last need.
LEMMA QuietSinceIsLastNeed ==
    ASSUME TypeOK, TypeOK', LeaseInv', ~Busy', held' = {}, UNCHANGED lastNeeded
    PROVE  Larger(last_activity', vacated_at') = lastNeeded
BY DEF LeaseInv, TypeOK, TableTypeOK, QuietNotTooEarly, QuietNotTooLate, Larger

LEMMA IdleClosesInTime ==
    ASSUME IInv, IInv => TypeOK' /\ LeaseInv', WatchdogIdle
    PROVE  /\ held' = {}
           /\ IF now - lastNeeded > Ttl
              THEN closed' /\ closed_by' = IF closed_by = "nobody" THEN "watchdog" ELSE closed_by
              ELSE UNCHANGED <<closed, closed_by>>
<1>1. held' = {}
  BY DEF WatchdogIdle, Keep
<1>2. ~Busy' /\ UNCHANGED <<last_activity, lastNeeded>>
  BY DEF WatchdogIdle, Busy, serverVars
<1>3. Larger(last_activity, vacated_at') = lastNeeded
  BY <1>1, <1>2, QuietSinceIsLastNeed DEF IInv
<1>4. QED
  BY <1>1, <1>3 DEF WatchdogIdle

LEMMA ClosingStep == IInv /\ [Next]_vars => Closing'
<1> SUFFICES ASSUME IInv, [Next]_vars PROVE Closing'
  OBVIOUS
<1> USE DEF Closing, IInv, Unexpired, Expired
<1>1. ASSUME NEW p \in Proxy, NEW asked \in AskedTtl, LeaseGranted(p, asked) PROVE Closing'
  BY <1>1 DEF LeaseGranted, Grant
<1>2. ASSUME NEW force \in BOOLEAN, Shutdown(force) PROVE Closing'
  <2>1. held' = Unexpired
    BY <1>2 DEF Shutdown, Keep
  <2>2. CASE (sessions > 0 \/ Unexpired # {}) /\ ~force
    BY <1>2, <2>1, <2>2 DEF Shutdown
  <2>3. CASE ~((sessions > 0 \/ Unexpired # {}) /\ ~force)
    BY <1>2, <2>1, <2>3 DEF Shutdown
  <2>4. QED
    BY <2>2, <2>3
<1>3. CASE WatchdogIdle
  BY <1>3 DEF WatchdogIdle, Keep
<1>4. ASSUME UNCHANGED <<closed, closed_by>>, held' \subseteq held PROVE Closing'
  BY <1>4
<1>5. CASE Tick \/ Suspend \/ Wake \/ \E d \in WallSteps : WallStep(d)
  BY <1>4, <1>5 DEF Tick, TableTick, Suspend, Wake, WallStep, tableVars
<1>6. ASSUME NEW p \in Proxy, LeaseReleased(p) PROVE Closing'
  BY <1>4, <1>6 DEF LeaseReleased, Release, Keep
<1>7. CASE LeaseRefusedOrHealth
  BY <1>4, <1>7 DEF LeaseRefusedOrHealth, GrantOverLimit, Prune, Keep
<1>8. CASE RequestStart \/ RequestEnd \/ SessionsChange
  BY <1>4, <1>8 DEF RequestStart, RequestEnd, SessionsChange, tableVars
<1>9. CASE WatchdogResumes
  BY <1>4, <1>9 DEF WatchdogResumes, RefreshAll
<1>10. CASE WatchdogSeesNeed
  BY <1>4, <1>10 DEF WatchdogSeesNeed, Prune, Keep, tableVars
<1>11. CASE UNCHANGED vars
  BY <1>4, <1>11 DEF vars, tableVars
<1>12. QED
  BY <1>1, <1>2, <1>3, <1>5, <1>6, <1>7, <1>8, <1>9, <1>10, <1>11 DEF Next, Handler

\* A difference only shrinks when what is taken away grows.
LEMMA LaterNeed ==
    ASSUME NEW t \in Nat, NEW u \in Nat, NEW v \in Nat, NEW w \in Nat, t - u <= w, u <= v
    PROVE  t - v <= w
OBVIOUS

LEMMA CheckedStep == IInv /\ [Next]_vars => CheckedInTime'
<1> SUFFICES ASSUME IInv, [Next]_vars PROVE CheckedInTime'
  OBVIOUS
<1>t. TypeOK /\ TypeOK' /\ LeaseInv'
  BY TypeStep, LeaseInvStep DEF IInv, LeaseInv, TypeOK
<1>1. CASE WatchdogIdle
  <2>1. last_mono' = now /\ now' = now /\ lastNeeded' = lastNeeded
    BY <1>1 DEF WatchdogIdle, Ticked
  <2>2. now - lastNeeded > Ttl => closed'
    BY <1>1, <1>t, IdleClosesInTime
  <2>3. QED
    BY <1>t, <2>1, <2>2, LifetimeConstants DEF CheckedInTime, TypeOK, TableTypeOK
<1>2. CASE WatchdogSeesNeed
  <2>1. Needed
    BY <1>2 DEF WatchdogSeesNeed, Needed, Promised, IInv, PromisesKept, Unexpired, Expired,
       TypeOK, TableTypeOK
  <2>2. last_mono' = now /\ now' = now /\ lastNeeded' = now
    BY <1>2, <2>1 DEF WatchdogSeesNeed, Ticked, IInv, NeedIsRecent, Prune
  <2>3. QED
    BY <1>t, <2>2, LifetimeConstants DEF CheckedInTime, TypeOK, TableTypeOK
<1>3. CASE WatchdogResumes
  BY <1>t, <1>3, LifetimeConstants
     DEF WatchdogResumes, RefreshAll, Ticked, CheckedInTime, TypeOK, TableTypeOK
<1>4. ASSUME last_mono' = last_mono, now' >= now, lastNeeded' >= lastNeeded, closed => closed'
      PROVE  CheckedInTime'
  <2>1. /\ last_mono \in Nat /\ lastNeeded \in Nat /\ lastNeeded' \in Nat
        /\ now \in Nat /\ now' \in Nat /\ Ttl \in Nat
    BY <1>t, LifetimeConstants DEF TypeOK, TableTypeOK
  <2>2. last_mono <= now /\ (~closed => last_mono - lastNeeded <= Ttl)
    BY DEF IInv, CheckedInTime
  <2>3. last_mono' <= now'
    BY <1>4, <2>1, <2>2
  <2>4. ASSUME ~closed' PROVE last_mono' - lastNeeded' <= Ttl
    <3>1. last_mono - lastNeeded <= Ttl
      BY <1>4, <2>2, <2>4
    <3>2. last_mono' = last_mono /\ lastNeeded' >= lastNeeded
      BY <1>4
    <3>3. QED
      BY ONLY <2>1, <3>1, <3>2, LaterNeed
  <2>5. QED
    BY <2>3, <2>4 DEF CheckedInTime
<1> USE DEF IInv, NeedIsRecent, TypeOK, TableTypeOK, tableVars, watchVars, historyVars
<1>5. CASE Tick
  BY <1>4, <1>5, <1>t DEF Tick, TableTick
<1>6. CASE Suspend \/ Wake \/ \E d \in WallSteps : WallStep(d)
  BY <1>4, <1>6, <1>t DEF Suspend, Wake, WallStep
<1>7. ASSUME NEW p \in Proxy, NEW asked \in AskedTtl, LeaseGranted(p, asked)
      PROVE  CheckedInTime'
  BY <1>4, <1>7, <1>t DEF LeaseGranted, Grant
<1>8. ASSUME NEW p \in Proxy, LeaseReleased(p) PROVE CheckedInTime'
  BY <1>4, <1>8, <1>t DEF LeaseReleased, Release
<1>9. CASE LeaseRefusedOrHealth
  BY <1>4, <1>9, <1>t DEF LeaseRefusedOrHealth, GrantOverLimit, Prune
<1>10. ASSUME NEW force \in BOOLEAN, Shutdown(force) PROVE CheckedInTime'
  BY <1>4, <1>10, <1>t DEF Shutdown
<1>11. CASE RequestStart \/ RequestEnd \/ SessionsChange
  BY <1>4, <1>11, <1>t DEF RequestStart, RequestEnd, SessionsChange
<1>12. CASE UNCHANGED vars
  BY <1>4, <1>12, <1>t DEF vars
<1>13. QED
  BY <1>1, <1>2, <1>3, <1>5, <1>6, <1>7, <1>8, <1>9, <1>10, <1>11, <1>12 DEF Next, Handler

\* The invariant of the daemon's life, from which the theorems below follow.
THEOREM Invariance == Spec => []IInv
<1>1. IInv /\ [Next]_vars => IInv'
  BY TypeStep, LeaseInvStep, ClosingStep, CheckedStep DEF IInv, LeaseInv, TypeOK
<1>2. QED
  BY <1>1, InitInvariant, PTL DEF Spec

\* A daemon that closes unforced has told no proxy that a lease still holds,
\* neither before it decided nor after (leases.py close, lifecycle.py:169).
THEOREM NoProxyIsMisled == Spec => []NoProxyMisled
<1>1. IInv => NoProxyMisled
  BY DEF IInv, Closing, PromisesKept, NoProxyMisled, Promised, TypeOK, TableTypeOK
<1>2. QED
  BY <1>1, Invariance, PTL

\* An open daemon whose watchdog is on time was needed within its TTL and one
\* interval: it does not outstay its users (lifecycle.py idle_watchdog).
THEOREM NeverOverstaying == Spec => []NeverOverstays
<1>1. IInv => NeverOverstays
  BY LifetimeConstants DEF IInv, CheckedInTime, NeverOverstays, TypeOK, TableTypeOK
<1>2. QED
  BY <1>1, Invariance, PTL

\* The watchdog closes the daemon only after more than a whole TTL in which no
\* request, session or promised lease needed it (lifecycle.py idle_watchdog).
THEOREM ClosesOnlyUnneeded == Spec => ClosesOnlyWhenUnneeded
<1> DEFINE Decision == closed_by # "watchdog" /\ closed_by' = "watchdog" => now - lastNeeded > Ttl
<1>1. IInv /\ [Next]_vars => [Decision]_vars
  <2> SUFFICES ASSUME IInv, [Next]_vars, closed_by # "watchdog", closed_by' = "watchdog"
               PROVE  now - lastNeeded > Ttl
    OBVIOUS
  <2>1. WatchdogIdle
    BY DEF Next, Handler, vars, Tick, Suspend, Wake, WallStep, LeaseGranted, LeaseReleased,
       LeaseRefusedOrHealth, Shutdown, RequestStart, RequestEnd, SessionsChange,
       WatchdogResumes, WatchdogSeesNeed
  <2>2. TypeOK' /\ LeaseInv'
    BY TypeStep, LeaseInvStep DEF IInv, LeaseInv, TypeOK
  <2>3. QED
    BY <2>1, <2>2, IdleClosesInTime
<1>2. QED
  BY <1>1, Invariance, PTL DEF Spec, ClosesOnlyWhenUnneeded

-----------------------------------------------------------------------------
(* The table implements EagerLeases.                                           *)

\* What a table without its laziness would have to keep to as well.
WithinBounds ==
    /\ IsFiniteSet(held)
    /\ Cardinality(held) <= MaxLeases
    /\ \A p \in held : ttl_s[p] \in MinTtl..MaxTtl

LEMMA KeepWithinBounds ==
    ASSUME WithinBounds, TypeOK, NEW S \in SUBSET held, Keep(S)
    PROVE  WithinBounds'
<1>1. IsFiniteSet(S) /\ Cardinality(S) <= Cardinality(held) /\ Cardinality(S) \in Nat
      /\ Cardinality(held) \in Nat
  BY FS_Subset, FS_CardinalityType DEF WithinBounds
<1>2. \A p \in S : ttl_s'[p] = ttl_s[p]
  BY DEF Keep, TypeOK, TableTypeOK
<1>3. QED
  BY <1>1, <1>2, LeaseConstants DEF WithinBounds, Keep

LEMMA GrantWithinBounds ==
    ASSUME WithinBounds, TypeOK, NEW p \in Proxy, NEW asked \in AskedTtl, Grant(p, asked)
    PROVE  WithinBounds' /\ Clamp(asked) \in MinTtl..MaxTtl
<1>1. Clamp(asked) \in MinTtl..MaxTtl
  BY LeaseConstants DEF Clamp
<1>2. IsFiniteSet(Unexpired) /\ Cardinality(Unexpired) <= Cardinality(held)
      /\ Cardinality(Unexpired) \in Nat /\ Cardinality(held) \in Nat
  BY FS_Subset, FS_CardinalityType DEF WithinBounds, Unexpired
<1>3. IsFiniteSet(held') /\ Cardinality(held') <= MaxLeases
  <2>1. /\ IsFiniteSet(Unexpired \cup {p})
        /\ Cardinality(Unexpired \cup {p})
             = IF p \in Unexpired THEN Cardinality(Unexpired) ELSE Cardinality(Unexpired) + 1
    BY <1>2, FS_AddElement
  <2>2. held' = Unexpired \cup {p} /\ (p \notin Unexpired => ~(Cardinality(Unexpired) >= MaxLeases))
    BY DEF Grant, AtLimit
  <2>3. QED
    BY <1>2, <2>1, <2>2, LeaseConstants DEF WithinBounds
<1>4. \A q \in held' : ttl_s'[q] \in MinTtl..MaxTtl
  BY <1>1 DEF Grant, Unexpired, WithinBounds, TypeOK, TableTypeOK
<1>5. QED
  BY <1>1, <1>3, <1>4 DEF WithinBounds

LEMMA BoundsStep ==
    ASSUME WithinBounds, TypeOK, [Next]_vars
    PROVE  WithinBounds'
<1>1. ASSUME UNCHANGED <<held, ttl_s>> PROVE WithinBounds'
  BY <1>1 DEF WithinBounds
<1>2. Unexpired \in SUBSET held /\ \A p \in Proxy : Unexpired \ {p} \in SUBSET held
  BY DEF Unexpired
<1>3. ASSUME Prune PROVE WithinBounds'
  BY <1>2, <1>3, KeepWithinBounds DEF Prune
<1>4. ASSUME NEW p \in Proxy, NEW asked \in AskedTtl, LeaseGranted(p, asked) PROVE WithinBounds'
  BY <1>4, GrantWithinBounds DEF LeaseGranted
<1>5. ASSUME NEW p \in Proxy, LeaseReleased(p) PROVE WithinBounds'
  BY <1>2, <1>5, KeepWithinBounds DEF LeaseReleased, Release
<1>6. CASE LeaseRefusedOrHealth
  BY <1>3, <1>6 DEF LeaseRefusedOrHealth, GrantOverLimit
<1>7. ASSUME NEW force \in BOOLEAN, Shutdown(force) PROVE WithinBounds'
  BY <1>2, <1>7, KeepWithinBounds DEF Shutdown
<1>8. CASE WatchdogIdle
  BY <1>2, <1>8, KeepWithinBounds DEF WatchdogIdle
<1>9. CASE WatchdogSeesNeed
  BY <1>1, <1>3, <1>9 DEF WatchdogSeesNeed, tableVars
<1>10. CASE WatchdogResumes \/ Tick \/ Suspend \/ Wake \/ (\E d \in WallSteps : WallStep(d))
            \/ RequestStart \/ RequestEnd \/ SessionsChange \/ UNCHANGED vars
  BY <1>1, <1>10 DEF WatchdogResumes, RefreshAll, Tick, TableTick, Suspend, Wake, WallStep,
     RequestStart, RequestEnd, SessionsChange, vars, tableVars
<1>11. QED
  BY <1>4, <1>5, <1>6, <1>7, <1>8, <1>9, <1>10 DEF Next, Handler

LEMMA BoundsInvariant == Spec => []WithinBounds
<1>1. Init => WithinBounds
  BY FS_EmptySet, LeaseConstants DEF Init, TableInit, WithinBounds
<1>2. QED
  BY <1>1, BoundsStep, TypeCorrect, PTL DEF Spec

\* Max is a CHOOSE: it is whatever element is seen to be a largest one.
LEMMA MaxIs ==
    ASSUME NEW S \in SUBSET Int, NEW x \in S, \A y \in S : y <= x
    PROVE  Max(S) = x
<1>1. Max(S) \in S /\ \A y \in S : Max(S) >= y
  BY DEF Max
<1>2. PICK m \in S : m = Max(S)
  BY <1>1
<1>3. m >= x /\ x >= m
  BY <1>1, <1>2
<1>4. QED
  BY <1>2, <1>3

Until == [p \in Proxy |-> IF p \in Live THEN expires_at[p] ELSE Never]

LEMMA SameCardinality == \A S : Eager!Cardinality(S) = Cardinality(S)
BY DEF Eager!Cardinality, Cardinality

LEMMA PresentAreLive == TypeOK => Eager!Present = Live
BY DEF Eager!Present, TypeOK, TableTypeOK, Live, Never

LEMMA UnexpiredAreLive == TypeOK => Unexpired = Live
BY DEF Unexpired, Expired, Live, TypeOK, TableTypeOK

\* A reader of the table cannot tell whether it has been pruned.
LEMMA PruneUnseen ==
    ASSUME TypeOK, VacatedOnlyWhenEmpty, Keep(Unexpired), PruneVacates, now' = now
    PROVE  UNCHANGED Eager!vars
<1> USE DEF TypeOK, TableTypeOK
<1>1. held' = Live /\ \A p \in Live : expires_at'[p] = expires_at[p]
  BY UnexpiredAreLive DEF Keep, Live
<1>2. Live' = Live /\ Until' = Until
  BY <1>1 DEF Live, Until
<1>3. EmptiedAt' = EmptiedAt
  <2>1. CASE Live # {}
    BY <1>2, <2>1 DEF EmptiedAt
  <2>2. CASE Live = {} /\ held # {}
    <3>1. Expired = held /\ Unexpired = {}
      BY <2>2, UnexpiredAreLive DEF Unexpired, Expired
    <3>2. PICK last \in held : /\ \A p \in held : expires_at[p] <= expires_at[last]
                                /\ vacated_at' = Larger(vacated_at, expires_at[last])
      BY <2>2, <3>1 DEF PruneVacates
    <3>3. vacated_at' = expires_at[last]
      BY <2>2, <3>2 DEF VacatedOnlyWhenEmpty, Larger, Never
    <3>4. Max({expires_at[p] : p \in held}) = expires_at[last]
      <4> DEFINE ends == {expires_at[p] : p \in held}
      <4>1. ends \in SUBSET Int /\ expires_at[last] \in ends
            /\ \A y \in ends : y <= expires_at[last]
        BY <3>2
      <4>2. QED
        BY <4>1, MaxIs
    <3>5. QED
      BY <1>1, <1>2, <2>2, <3>3, <3>4 DEF EmptiedAt
  <2>3. CASE held = {}
    BY <1>1, <1>2, <2>3 DEF EmptiedAt, PruneVacates, Expired, Live
  <2>4. QED
    BY <2>1, <2>2, <2>3
<1>4. QED
  BY <1>2, <1>3 DEF Eager!vars, Until

LEMMA GrantIsArrival ==
    ASSUME TypeOK, WithinBounds, NEW p \in Proxy, NEW asked \in AskedTtl, Grant(p, asked)
    PROVE  Eager!Next
<1> USE DEF TypeOK, TableTypeOK
<1>1. Clamp(asked) \in MinTtl..MaxTtl /\ Cardinality(held') <= MaxLeases /\ Clamp(asked) > 0
  BY GrantWithinBounds, LeaseConstants DEF WithinBounds
<1>2. held' = Live \cup {p} /\ now' = now /\ vacated_at' = Never
  BY UnexpiredAreLive DEF Grant
<1>3. expires_at' = [q \in Proxy |-> IF q = p THEN now + Clamp(asked)
                                     ELSE IF q \in Live THEN expires_at[q] ELSE 0]
  BY UnexpiredAreLive DEF Grant
<1>4. Live' = Live \cup {p}
  BY <1>1, <1>2, <1>3, LeaseConstants DEF Live
<1>5. Until' = [Until EXCEPT ![p] = now + Clamp(asked)]
  BY <1>3, <1>4 DEF Until, Live
<1>6. EmptiedAt' = Never
  BY <1>4 DEF EmptiedAt
<1>7. Eager!Arrive(p, Clamp(asked))
  <2>1. Eager!Present \cup {p} = held'
    BY <1>2, PresentAreLive
  <2>2. Cardinality(Eager!Present \cup {p}) <= MaxLeases
    BY <1>1, <2>1
  <2>3. QED
    BY <1>2, <1>5, <1>6, <2>2, SameCardinality DEF Eager!Arrive, Until
<1>8. QED
  BY <1>1, <1>7 DEF Eager!Next

LEMMA ReleaseIsLeave ==
    ASSUME TypeOK, VacatedOnlyWhenEmpty, NEW p \in Proxy, Release(p)
    PROVE  [Eager!Next]_Eager!vars
<1> USE DEF TypeOK, TableTypeOK
<1>1. CASE p \notin Unexpired
  <2>1. Unexpired \ {p} = Unexpired
    BY <1>1
  <2>2. QED
    BY <1>1, <2>1, PruneUnseen DEF Release
<1>2. CASE p \in Unexpired
  <2>1. /\ held' = Live \ {p} /\ p \in Live /\ now' = now
        /\ \A q \in held' : expires_at'[q] = expires_at[q]
        /\ vacated_at' = IF Live \ {p} = {} THEN now ELSE vacated_at
    BY <1>2, UnexpiredAreLive DEF Release, Keep, Live
  <2>2. Live' = Live \ {p}
    BY <2>1 DEF Live
  <2>3. Until' = [Until EXCEPT ![p] = Never]
    BY <2>1, <2>2 DEF Until, Live
  <2>4. EmptiedAt' = IF Live = {p} THEN now ELSE EmptiedAt
    <3>1. CASE Live = {p}
      <4>1. Live \ {p} = {}
        BY <3>1
      <4>2. held' = {} /\ Live' = {}
        BY <2>1, <2>2, <4>1
      <4>3. vacated_at' = now
        BY <2>1, <4>1
      <4>4. QED
        BY <3>1, <4>2, <4>3 DEF EmptiedAt
    <3>2. CASE Live # {p}
      <4>1. Live \ {p} # {} /\ Live # {}
        BY <2>1, <3>2
      <4>2. QED
        BY <2>2, <3>2, <4>1 DEF EmptiedAt
    <3>3. QED
      BY <3>1, <3>2
  <2>5. Eager!Leave(p)
    BY <2>1, <2>3, <2>4, PresentAreLive DEF Eager!Leave, Until
  <2>6. QED
    BY <2>5 DEF Eager!Next
<1>3. QED
  BY <1>1, <1>2

LEMMA TickIsPass ==
    ASSUME TypeOK, TableTick
    PROVE  Eager!Next
<1> USE DEF TypeOK, TableTypeOK, TableTick, tableVars
<1>1. Live' = {p \in Live : expires_at[p] > now + 1} /\ Live \subseteq Proxy
  BY DEF Live
<1>2. {p \in Eager!Present : Until[p] > now + 1} = Live'
  BY <1>1, PresentAreLive DEF Until
<1>3. Until' = [p \in Proxy |-> IF p \in Live' THEN Until[p] ELSE Never]
  BY <1>1 DEF Until
<1>4. EmptiedAt' = IF Live # {} /\ Live' = {} THEN now + 1 ELSE EmptiedAt
  <2>1. CASE Live # {} /\ Live' = {}
    <3>1. PICK p \in Live : expires_at[p] = now + 1
      BY <1>1, <2>1 DEF Live
    <3>2. \A q \in held : expires_at[q] <= now + 1
      BY <2>1 DEF Live
    <3>3. Max({expires_at[q] : q \in held}) = now + 1
      <4> DEFINE ends == {expires_at[q] : q \in held}
      <4>1. ends \in SUBSET Int /\ now + 1 \in ends /\ \A y \in ends : y <= now + 1
        BY <3>1, <3>2 DEF Live
      <4>2. QED
        BY <4>1, MaxIs
    <3>4. QED
      BY <2>1, <3>1, <3>3 DEF EmptiedAt, Live
  <2>2. CASE Live = {}
    BY <1>1, <2>2 DEF EmptiedAt
  <2>3. CASE Live' # {}
    BY <1>1, <2>3 DEF EmptiedAt
  <2>4. QED
    BY <2>1, <2>2, <2>3
<1>5. Eager!Pass
  BY <1>2, <1>3, <1>4, PresentAreLive DEF Eager!Pass, Until
<1>6. QED
  BY <1>5 DEF Eager!Next

LEMMA RefreshIsResume ==
    ASSUME TypeOK, WithinBounds, RefreshAll
    PROVE  [Eager!Next]_Eager!vars
<1> USE DEF TypeOK, TableTypeOK
<1>1. Live' = held /\ held' = held /\ now' = now /\ Live \subseteq held
  BY LeaseConstants DEF RefreshAll, WithinBounds, Live
<1>2. Until' = [p \in Proxy |-> IF p \in held THEN now + ttl_s[p] ELSE Never]
  BY <1>1 DEF Until, RefreshAll
<1>3. CASE held # {}
  <2>1. PICK back \in SUBSET Proxy : back = held
    OBVIOUS
  <2>2. PICK ttl \in [back -> MinTtl..MaxTtl] : \A p \in back : ttl[p] = ttl_s[p]
    <3>1. [p \in back |-> ttl_s[p]] \in [back -> MinTtl..MaxTtl]
      BY <2>1 DEF WithinBounds
    <3>2. QED
      BY <3>1
  <2>3. Until' = [p \in Proxy |-> IF p \in back THEN now + ttl[p] ELSE Never]
    BY <1>2, <2>1, <2>2
  <2>4. EmptiedAt' = Never
    BY <1>1, <1>3 DEF EmptiedAt
  <2>5. Eager!Present \subseteq back /\ Cardinality(back) <= MaxLeases /\ back # {}
    BY <1>1, <1>3, <2>1, PresentAreLive DEF WithinBounds
  <2>6. Eager!Resume
    BY <1>1, <2>3, <2>4, <2>5, SameCardinality DEF Eager!Resume, Until
  <2>7. QED
    BY <2>6 DEF Eager!Next
<1>4. CASE held = {}
  BY <1>1, <1>2, <1>4 DEF Eager!vars, EmptiedAt, RefreshAll, Until
<1>5. QED
  BY <1>3, <1>4

LEMMA StepImplements ==
    ASSUME TypeOK, VacatedOnlyWhenEmpty, WithinBounds, [Next]_vars
    PROVE  [Eager!Next]_Eager!vars
<1>1. ASSUME UNCHANGED <<now, tableVars>> PROVE UNCHANGED Eager!vars
  BY <1>1 DEF tableVars, Eager!vars, Live, EmptiedAt
<1>2. ASSUME NEW p \in Proxy, NEW asked \in AskedTtl, LeaseGranted(p, asked)
      PROVE  [Eager!Next]_Eager!vars
  BY <1>2, GrantIsArrival DEF LeaseGranted
<1>3. ASSUME NEW p \in Proxy, LeaseReleased(p) PROVE [Eager!Next]_Eager!vars
  BY <1>3, ReleaseIsLeave DEF LeaseReleased
<1>4. CASE LeaseRefusedOrHealth
  BY <1>4, PruneUnseen DEF LeaseRefusedOrHealth, GrantOverLimit, Prune
<1>5. ASSUME NEW force \in BOOLEAN, Shutdown(force) PROVE [Eager!Next]_Eager!vars
  BY <1>5, PruneUnseen DEF Shutdown
<1>6. CASE WatchdogIdle
  BY <1>6, PruneUnseen DEF WatchdogIdle
<1>7. CASE WatchdogSeesNeed
  BY <1>1, <1>7, PruneUnseen DEF WatchdogSeesNeed, Prune
<1>8. CASE WatchdogResumes
  BY <1>8, RefreshIsResume DEF WatchdogResumes
<1>9. CASE Tick
  BY <1>9, TickIsPass DEF Tick
<1>10. CASE Suspend \/ Wake \/ (\E d \in WallSteps : WallStep(d))
            \/ RequestStart \/ RequestEnd \/ SessionsChange \/ UNCHANGED vars
  BY <1>1, <1>10 DEF Suspend, Wake, WallStep, RequestStart, RequestEnd, SessionsChange, vars
<1>11. QED
  BY <1>2, <1>3, <1>4, <1>5, <1>6, <1>7, <1>8, <1>9, <1>10 DEF Next, Handler

\* Nobody who asks the table can tell that a lapse is noticed late: it answers as if
\* each lease had been dropped the instant it lapsed, with the right vacating instant
\* (leases.py, class LeaseTable).
THEOREM ImplementsEager == Spec => ImplementsEagerLeases
<1>1. Init => Eager!Init
  BY DEF Init, TableInit, Eager!Init, Live, EmptiedAt, Never
<1>2. IInv /\ WithinBounds /\ [Next]_vars => [Eager!Next]_Eager!vars
  BY StepImplements DEF IInv
<1>3. QED
  BY <1>1, <1>2, Invariance, BoundsInvariant, PTL DEF Spec, ImplementsEagerLeases, Eager!Spec
=============================================================================
