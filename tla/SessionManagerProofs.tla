------------------------- MODULE SessionManagerProofs -------------------------
(***************************************************************************)
(* One browser per profile, but for those nobody will stop any more, for   *)
(* any number of processes, calls and profiles, whatever fails, is         *)
(* cancelled or dies.                                                      *)
(*                                                                         *)
(* The argument: whoever has a browser to stop holds the OS lock of its    *)
(* profile.  The creation locks are not needed for it.                     *)
(***************************************************************************)
EXTENDS SessionManager, TLAPS

\* From _acquire_lock to its end a launch holds the OS lock, and from the start
\* of the driver on it may have a browser.
LaunchHoldsLock ==
    \A t \in Task :
        pc[t] \in Launching =>
            fileLock[Target[t]] = t /\ (pc[t] # "preparing" => t \in live)

\* A stored session is a finished launch of this process, with browser and lock.
StoredSessions ==
    \A p \in Proc, f \in Profile : \A t \in Task :
        sessions[p][f] = t =>
            /\ Home[t] = p /\ Target[t] = f
            /\ pc[t] = "returned" /\ t \in live
            /\ fileLock[f] = t

\* So is a session that is being closed, and only one call closes it.
ClosingSessions ==
    /\ \A c \in Task : pc[c] = "closing" => popped[c] \in Task
    /\ \A c, t \in Task :
        popped[c] = t =>
            /\ Home[t] = Home[c] /\ Target[t] = Target[c]
            /\ pc[c] = "closing" /\ pc[t] = "returned" /\ t \in live
            /\ fileLock[Target[t]] = t
            /\ sessions[Home[t]][Target[t]] # t
            /\ \A d \in Task : popped[d] = t => d = c

\* A browser runs for a launch under way or for a session, under its OS lock.
BrowsersHoldLock ==
    \A t \in live :
        /\ pc[t] \in {"launching", "opening", "stopping", "returned"}
        /\ fileLock[Target[t]] = t

\* A browser is adrift only when the call that launched it is over.
AdriftAreLost == \A t \in adrift : pc[t] \in Ended /\ t \notin live

IInv ==
    /\ CallsTypeOK
    /\ LaunchHoldsLock
    /\ StoredSessions
    /\ ClosingSessions
    /\ BrowsersHoldLock
    /\ AdriftAreLost

-----------------------------------------------------------------------------

LEMMA InitInvariant == Init => IInv
<1> SUFFICES ASSUME Init PROVE IInv
  OBVIOUS
<1> USE ManagerConstants DEF Init
<1>1. CallsTypeOK
  BY DEF CallsTypeOK, PC
<1>2. LaunchHoldsLock /\ BrowsersHoldLock /\ AdriftAreLost
  BY DEF LaunchHoldsLock, BrowsersHoldLock, AdriftAreLost, Launching, Unbounded
<1>3. StoredSessions
  BY DEF StoredSessions
<1>4. ClosingSessions
  BY DEF ClosingSessions
<1>5. QED
  BY <1>1, <1>2, <1>3, <1>4 DEF IInv

\* Of the calls, a step of t may move only t itself, and a waiter it wakes.
Moves(t, end) ==
    /\ pc' \in [Task -> PC]
    /\ pc'[t] = end
    /\ \A u \in Task \ {t} : pc'[u] # pc[u] => pc[u] = "waiting" /\ pc'[u] = "woken"

LEMMA EndAndWakeMoves ==
    ASSUME CallsTypeOK, NEW t \in Task, NEW end \in PC, NEW q, pc' = EndAndWake(t, end, q)
    PROVE  Moves(t, end)
BY DEF CallsTypeOK, EndAndWake, Moves, PC, Waiting

LEMMA ExceptMoves ==
    ASSUME CallsTypeOK, NEW t \in Task, NEW end \in PC, pc' = [pc EXCEPT ![t] = end]
    PROVE  Moves(t, end)
BY DEF CallsTypeOK, Moves

LEMMA StoredSession ==
    ASSUME IInv, NEW p \in Proc, NEW f \in Profile, NEW t \in Task, sessions[p][f] = t
    PROVE  /\ Home[t] = p /\ Target[t] = f /\ pc[t] = "returned" /\ t \in live
           /\ fileLock[f] = t
BY DEF IInv, StoredSessions

\* Sessions stay what they are when no session loses its browser or its lock.
LEMMA SessionsUndisturbed ==
    ASSUME IInv, CallsTypeOK', UNCHANGED <<sessions, popped>>,
           \A u \in Task : pc[u] \in {"returned", "closing"} => pc'[u] = pc[u],
           \A u \in Task : pc[u] = "returned" =>
                /\ u \in live => u \in live'
                /\ fileLock[Target[u]] = u => fileLock'[Target[u]] = u,
           \A u \in Task : pc'[u] = "closing" => pc[u] = "closing"
    PROVE  StoredSessions' /\ ClosingSessions'
<1> USE ManagerConstants DEF IInv
<1>1. StoredSessions'
  <2> SUFFICES ASSUME NEW p \in Proc, NEW f \in Profile, NEW u \in Task, sessions'[p][f] = u
               PROVE  /\ Home[u] = p /\ Target[u] = f
                      /\ pc'[u] = "returned" /\ u \in live'
                      /\ fileLock'[f] = u
    BY DEF StoredSessions
  <2>1. sessions[p][f] = u
    OBVIOUS
  <2>2. /\ Home[u] = p /\ Target[u] = f /\ pc[u] = "returned" /\ u \in live
        /\ fileLock[f] = u
    BY <2>1 DEF StoredSessions
  <2>3. QED
    BY <2>2
<1>2. \A c \in Task : pc'[c] = "closing" => popped'[c] \in Task
  BY DEF ClosingSessions
<1>3. ASSUME NEW c \in Task, NEW u \in Task, popped'[c] = u
      PROVE  /\ Home[u] = Home[c] /\ Target[u] = Target[c]
             /\ pc'[c] = "closing" /\ pc'[u] = "returned" /\ u \in live'
             /\ fileLock'[Target[u]] = u
             /\ sessions'[Home[u]][Target[u]] # u
             /\ \A d \in Task : popped'[d] = u => d = c
  <2>1. popped[c] = u
    BY <1>3
  <2>2. /\ Home[u] = Home[c] /\ Target[u] = Target[c]
        /\ pc[c] = "closing" /\ pc[u] = "returned" /\ u \in live
        /\ fileLock[Target[u]] = u
        /\ sessions[Home[u]][Target[u]] # u
        /\ \A d \in Task : popped[d] = u => d = c
    BY <2>1 DEF ClosingSessions
  <2>3. QED
    BY <2>2
<1>4. QED
  BY <1>1, <1>2, <1>3 DEF ClosingSessions

\* A step that only moves a call which has neither lock nor session, and leaves
\* it without, changes nothing.
LEMMA BystanderKeepsInv ==
    ASSUME IInv, CallsTypeOK', NEW t \in Task, NEW end \in PC, Moves(t, end),
           pc[t] \in Waiting \cup {"new"},
           end \notin Launching \cup {"closing"},
           UNCHANGED <<sessions, fileLock, popped, live, adrift>>
    PROVE  IInv'
<1> USE DEF IInv, CallsTypeOK, Moves, Waiting
<1>1. LaunchHoldsLock'
  BY DEF LaunchHoldsLock, Launching, Unbounded
<1>2. StoredSessions' /\ ClosingSessions'
  BY SessionsUndisturbed
<1>3. BrowsersHoldLock'
  BY DEF BrowsersHoldLock, Launching, Unbounded
<1>4. AdriftAreLost'
  BY DEF AdriftAreLost, Ended
<1>5. QED
  BY <1>1, <1>2, <1>3, <1>4

\* Call t takes the OS lock of its profile, which was free.
LEMMA TakingKeepsInv ==
    ASSUME IInv, CallsTypeOK', NEW t \in Task, Moves(t, "preparing"),
           pc[t] \in {"new", "woken"}, fileLock[Target[t]] = None,
           fileLock' = [fileLock EXCEPT ![Target[t]] = t],
           UNCHANGED <<sessions, popped, live, adrift>>
    PROVE  IInv'
<1> USE ManagerConstants DEF IInv, CallsTypeOK, Moves
<1>1. \A u \in Task : fileLock[Target[u]] = u => fileLock'[Target[u]] = u
  OBVIOUS
<1>2. LaunchHoldsLock'
  BY <1>1 DEF LaunchHoldsLock, Launching, Unbounded
<1>3. StoredSessions' /\ ClosingSessions'
  BY <1>1, SessionsUndisturbed
<1>4. BrowsersHoldLock' /\ AdriftAreLost'
  BY <1>1 DEF BrowsersHoldLock, AdriftAreLost, Ended
<1>5. QED
  BY <1>2, <1>3, <1>4

\* A launch that holds the OS lock goes from one of its stages to another, and
\* has a browser in all but the first.
LEMMA LaunchingKeepsInv ==
    ASSUME IInv, CallsTypeOK', NEW t \in Task,
           NEW end \in {"launching", "opening", "stopping"}, Moves(t, end),
           pc[t] \in Launching,
           live' = live \cup {t},
           UNCHANGED <<sessions, fileLock, popped, adrift>>
    PROVE  IInv'
<1> USE ManagerConstants DEF IInv, CallsTypeOK, Moves, Launching, Unbounded
<1>1. LaunchHoldsLock'
  BY DEF LaunchHoldsLock
<1>2. StoredSessions' /\ ClosingSessions'
  BY SessionsUndisturbed
<1>3. BrowsersHoldLock'
  <2> SUFFICES ASSUME NEW u \in live'
               PROVE  /\ pc'[u] \in {"launching", "opening", "stopping", "returned"}
                      /\ fileLock'[Target[u]] = u
    BY DEF BrowsersHoldLock
  <2>1. CASE u = t
    BY <2>1 DEF LaunchHoldsLock
  <2>2. CASE u # t
    <3>1. u \in live
      BY <2>2
    <3>2. QED
      BY <2>2, <3>1 DEF BrowsersHoldLock
  <2>3. QED
    BY <2>1, <2>2
<1>4. AdriftAreLost'
  BY DEF AdriftAreLost, Ended
<1>5. QED
  BY <1>1, <1>2, <1>3, <1>4

\* A call that holds the OS lock but has no session, and whose browser is gone or
\* lost, gives the lock up, or keeps it for the collector.
LEMMA LeavingKeepsInv ==
    ASSUME IInv, CallsTypeOK', NEW t \in Task, NEW end \in {"failed", "cancelled"},
           Moves(t, end),
           pc[t] \in {"preparing", "opening", "stopping"},
           fileLock' = [fileLock EXCEPT ![Target[t]] = None] \/ fileLock' = fileLock,
           live' = live \ {t}, adrift' \subseteq adrift \cup {t},
           UNCHANGED <<sessions, popped>>
    PROVE  IInv'
<1> USE ManagerConstants DEF IInv, CallsTypeOK, Moves
<1>1. fileLock[Target[t]] = t
  BY DEF LaunchHoldsLock, Launching, Unbounded
<1>2. \A u \in Task \ {t} : fileLock[Target[u]] = u => fileLock'[Target[u]] = u
  BY <1>1
<1>3. LaunchHoldsLock'
  BY <1>2 DEF LaunchHoldsLock, Launching, Unbounded
<1>4. StoredSessions' /\ ClosingSessions'
  BY <1>2, SessionsUndisturbed
<1>5. BrowsersHoldLock' /\ AdriftAreLost'
  BY <1>2 DEF BrowsersHoldLock, AdriftAreLost, Ended
<1>6. QED
  BY <1>3, <1>4, <1>5

\* A FileLock that a call has left behind holds no session's profile.
LEMMA CollectKeepsInv ==
    ASSUME IInv, CallsTypeOK', NEW t \in Task, Collect(t)
    PROVE  IInv'
<1> USE ManagerConstants DEF IInv, CallsTypeOK, Collect
<1>1. \A u \in Task : pc[u] # "cancelled" /\ fileLock[Target[u]] = u => fileLock'[Target[u]] = u
  OBVIOUS
<1>2. LaunchHoldsLock'
  BY <1>1 DEF LaunchHoldsLock, Launching, Unbounded
<1>3. StoredSessions' /\ ClosingSessions'
  BY <1>1, SessionsUndisturbed
<1>4. BrowsersHoldLock' /\ AdriftAreLost'
  BY <1>1 DEF BrowsersHoldLock, AdriftAreLost
<1>5. QED
  BY <1>2, <1>3, <1>4

\* A browser left behind goes.
LEMMA SinksKeepsInv ==
    ASSUME IInv, CallsTypeOK', NEW t \in Task, Sinks(t)
    PROVE  IInv'
<1> USE DEF IInv, CallsTypeOK, Sinks
<1>1. LaunchHoldsLock' /\ BrowsersHoldLock' /\ AdriftAreLost'
  BY DEF LaunchHoldsLock, BrowsersHoldLock, AdriftAreLost
<1>2. StoredSessions' /\ ClosingSessions'
  BY DEF StoredSessions, ClosingSessions
<1>3. QED
  BY <1>1, <1>2

-----------------------------------------------------------------------------
(* The three steps that change a session. *)

\* OpenEnds, the first disjunct: the launch becomes a session.
LEMMA StoringKeepsInv ==
    ASSUME IInv, CallsTypeOK', NEW t \in Task, Moves(t, "returned"), pc[t] = "opening",
           t \in live,
           sessions' = [sessions EXCEPT ![Home[t]][Target[t]] = t],
           UNCHANGED <<fileLock, popped, live, adrift>>
    PROVE  IInv'
<1> USE ManagerConstants DEF IInv, CallsTypeOK, Moves
<1>1. fileLock[Target[t]] = t
  BY DEF LaunchHoldsLock, Launching, Unbounded
<1>2. \A p \in Proc, f \in Profile : sessions'[p][f] =
          IF p = Home[t] /\ f = Target[t] THEN t ELSE sessions[p][f]
  OBVIOUS
<1>3. LaunchHoldsLock'
  BY DEF LaunchHoldsLock, Launching, Unbounded
<1>4. StoredSessions'
  <2> SUFFICES ASSUME NEW p \in Proc, NEW f \in Profile, NEW u \in Task, sessions'[p][f] = u
               PROVE  /\ Home[u] = p /\ Target[u] = f
                      /\ pc'[u] = "returned" /\ u \in live'
                      /\ fileLock'[f] = u
    BY DEF StoredSessions
  <2>1. CASE p = Home[t] /\ f = Target[t]
    <3>1. u = t
      BY <1>2, <2>1
    <3>2. QED
      BY <1>1, <2>1, <3>1
  <2>2. CASE ~(p = Home[t] /\ f = Target[t])
    <3>1. sessions[p][f] = u
      BY <1>2, <2>2
    <3>2. /\ Home[u] = p /\ Target[u] = f /\ pc[u] = "returned" /\ u \in live
          /\ fileLock[f] = u
      BY ONLY IInv, <3>1, StoredSession
    <3>3. QED
      BY <3>2
  <2>3. QED
    BY <2>1, <2>2
<1>5. ClosingSessions'
  <2>1. \A c \in Task : pc'[c] = "closing" => popped'[c] \in Task
    BY DEF ClosingSessions
  <2>2. ASSUME NEW c \in Task, NEW u \in Task, popped'[c] = u
        PROVE  /\ Home[u] = Home[c] /\ Target[u] = Target[c]
               /\ pc'[c] = "closing" /\ pc'[u] = "returned" /\ u \in live'
               /\ fileLock'[Target[u]] = u
               /\ sessions'[Home[u]][Target[u]] # u
               /\ \A d \in Task : popped'[d] = u => d = c
    <3>1. popped[c] = u
      BY <2>2
    <3>2. /\ Home[u] = Home[c] /\ Target[u] = Target[c]
          /\ pc[c] = "closing" /\ pc[u] = "returned" /\ u \in live
          /\ fileLock[Target[u]] = u
          /\ sessions[Home[u]][Target[u]] # u
          /\ \A d \in Task : popped[d] = u => d = c
      BY <3>1 DEF ClosingSessions
    <3>3. u # t
      BY <3>2
    <3>4. sessions'[Home[u]][Target[u]] # u
      BY <1>2, <3>2, <3>3
    <3>5. QED
      BY <3>2, <3>4
  <2>3. QED
    BY <2>1, <2>2 DEF ClosingSessions
<1>6. BrowsersHoldLock' /\ AdriftAreLost'
  BY DEF BrowsersHoldLock, AdriftAreLost, Ended
<1>7. QED
  BY <1>3, <1>4, <1>5, <1>6

LEMMA CloseStartsKeepsInv ==
    ASSUME IInv, CallsTypeOK', NEW t \in Task, CloseStarts(t)
    PROVE  IInv'
<1> USE ManagerConstants DEF IInv, CallsTypeOK, CloseStarts, SessionOf
<1> DEFINE s == sessions[Home[t]][Target[t]]
<1>1. s \in Task /\ Home[s] = Home[t] /\ Target[s] = Target[t]
      /\ pc[s] = "returned" /\ s \in live /\ fileLock[Target[t]] = s
  <2>1. s \in Task /\ Home[t] \in Proc /\ Target[t] \in Profile
    OBVIOUS
  <2>2. \A p \in Proc, f \in Profile, u \in Task : sessions[p][f] = u =>
            /\ Home[u] = p /\ Target[u] = f /\ pc[u] = "returned" /\ u \in live
            /\ fileLock[f] = u
    BY ONLY IInv DEF IInv, StoredSessions
  <2>3. QED
    BY ONLY <2>1, <2>2
<1>2. \A p \in Proc, f \in Profile : sessions'[p][f] =
          IF p = Home[t] /\ f = Target[t] THEN None ELSE sessions[p][f]
  OBVIOUS
<1>3. \A c \in Task : popped'[c] = IF c = t THEN s ELSE popped[c]
  OBVIOUS
<1>4. LaunchHoldsLock'
  BY DEF LaunchHoldsLock, Launching, Unbounded
<1>5. StoredSessions'
  <2> SUFFICES ASSUME NEW p \in Proc, NEW f \in Profile, NEW u \in Task, sessions'[p][f] = u
               PROVE  /\ Home[u] = p /\ Target[u] = f
                      /\ pc'[u] = "returned" /\ u \in live'
                      /\ fileLock'[f] = u
    BY DEF StoredSessions
  <2>1. sessions[p][f] = u
    BY <1>2
  <2>2. /\ Home[u] = p /\ Target[u] = f /\ pc[u] = "returned" /\ u \in live
        /\ fileLock[f] = u
    BY ONLY IInv, <2>1, StoredSession
  <2>3. QED
    BY <2>2
<1>6. ClosingSessions'
  <2>1. \A c \in Task : pc'[c] = "closing" => popped'[c] \in Task
    BY <1>1, <1>3 DEF ClosingSessions
  <2>2. ASSUME NEW c \in Task, NEW u \in Task, popped'[c] = u
        PROVE  /\ Home[u] = Home[c] /\ Target[u] = Target[c]
               /\ pc'[c] = "closing" /\ pc'[u] = "returned" /\ u \in live'
               /\ fileLock'[Target[u]] = u
               /\ sessions'[Home[u]][Target[u]] # u
               /\ \A d \in Task : popped'[d] = u => d = c
    <3>1. \A d \in Task : popped[d] # s
      BY <1>1 DEF ClosingSessions
    <3>2. CASE c = t
      <4>1. u = s
        BY <1>3, <2>2, <3>2
      <4>2. sessions'[Home[u]][Target[u]] # u
        BY <1>1, <1>2, <4>1
      <4>3. QED
        BY <1>1, <1>3, <3>1, <3>2, <4>1, <4>2
    <3>3. CASE c # t
      <4>1. popped[c] = u
        BY <1>3, <2>2, <3>3
      <4>2. /\ Home[u] = Home[c] /\ Target[u] = Target[c]
            /\ pc[c] = "closing" /\ pc[u] = "returned" /\ u \in live
            /\ fileLock[Target[u]] = u
            /\ sessions[Home[u]][Target[u]] # u
            /\ \A d \in Task : popped[d] = u => d = c
        BY <4>1 DEF ClosingSessions
      <4>3. sessions'[Home[u]][Target[u]] # u
        BY <1>2, <4>2
      <4>4. \A d \in Task : popped'[d] = u => d = c
        BY <1>3, <3>1, <4>1, <4>2
      <4>5. QED
        BY <4>2, <4>3, <4>4
    <3>4. QED
      BY <3>2, <3>3
  <2>3. QED
    BY <2>1, <2>2 DEF ClosingSessions
<1>7. BrowsersHoldLock' /\ AdriftAreLost'
  BY DEF BrowsersHoldLock, AdriftAreLost, Ended
<1>8. QED
  BY <1>4, <1>5, <1>6, <1>7

LEMMA CloseEndsKeepsInv ==
    ASSUME IInv, CallsTypeOK', NEW t \in Task, CloseEnds(t)
    PROVE  IInv'
<1> USE ManagerConstants DEF IInv, CallsTypeOK, CloseEnds, StopsDriver
<1> DEFINE s == popped[t]
<1>1. /\ s \in Task /\ Home[s] = Home[t] /\ Target[s] = Target[t]
      /\ pc[s] = "returned" /\ fileLock[Target[t]] = s
      /\ sessions[Home[s]][Target[s]] # s
      /\ \A d \in Task : popped[d] = s => d = t
  BY DEF ClosingSessions
<1>2. \A u \in Task \ {s} : fileLock[Target[u]] = u => fileLock'[Target[u]] = u
  BY <1>1
<1>3. \A c \in Task : popped'[c] = IF c = t THEN None ELSE popped[c]
  OBVIOUS
<1>4. LaunchHoldsLock'
  BY <1>1, <1>2 DEF LaunchHoldsLock, Launching, Unbounded
<1>5. StoredSessions'
  <2> SUFFICES ASSUME NEW p \in Proc, NEW f \in Profile, NEW u \in Task, sessions'[p][f] = u
               PROVE  /\ Home[u] = p /\ Target[u] = f
                      /\ pc'[u] = "returned" /\ u \in live'
                      /\ fileLock'[f] = u
    BY DEF StoredSessions
  <2>1. sessions[p][f] = u
    OBVIOUS
  <2>2. /\ Home[u] = p /\ Target[u] = f /\ pc[u] = "returned" /\ u \in live
        /\ fileLock[f] = u
    BY ONLY IInv, <2>1, StoredSession
  <2>3. u # s
    BY <1>1, <2>1, <2>2
  <2>4. QED
    BY <1>2, <2>2, <2>3
<1>6. ClosingSessions'
  <2>1. \A c \in Task : pc'[c] = "closing" => popped'[c] \in Task
    BY <1>3 DEF ClosingSessions
  <2>2. ASSUME NEW c \in Task, NEW u \in Task, popped'[c] = u
        PROVE  /\ Home[u] = Home[c] /\ Target[u] = Target[c]
               /\ pc'[c] = "closing" /\ pc'[u] = "returned" /\ u \in live'
               /\ fileLock'[Target[u]] = u
               /\ sessions'[Home[u]][Target[u]] # u
               /\ \A d \in Task : popped'[d] = u => d = c
    <3>1. c # t /\ popped[c] = u
      BY <1>3, <2>2
    <3>2. /\ Home[u] = Home[c] /\ Target[u] = Target[c]
          /\ pc[c] = "closing" /\ pc[u] = "returned" /\ u \in live
          /\ fileLock[Target[u]] = u
          /\ sessions[Home[u]][Target[u]] # u
          /\ \A d \in Task : popped[d] = u => d = c
      BY <3>1 DEF ClosingSessions
    <3>3. u # s
      BY <1>1, <3>1
    <3>4. \A d \in Task : popped'[d] = u => d = c
      BY <1>3, <3>2
    <3>5. QED
      BY <1>2, <3>1, <3>2, <3>3, <3>4
  <2>3. QED
    BY <2>1, <2>2 DEF ClosingSessions
<1>7. BrowsersHoldLock' /\ AdriftAreLost'
  BY <1>1, <1>2 DEF BrowsersHoldLock, AdriftAreLost, Ended
<1>8. QED
  BY <1>4, <1>5, <1>6, <1>7

LEMMA CrashKeepsInv ==
    ASSUME IInv, CallsTypeOK', NEW p \in Proc, Crash(p)
    PROVE  IInv'
<1> USE ManagerConstants DEF IInv, CallsTypeOK, Crash
<1>1. \A u \in Task : Home[u] # p =>
        /\ pc'[u] = pc[u]
        /\ popped'[u] = popped[u]
        /\ (u \in live' <=> u \in live)
        /\ (fileLock[Target[u]] = u => fileLock'[Target[u]] = u)
  OBVIOUS
<1>2. \A u \in Task : Home[u] = p => pc'[u] = "killed" /\ popped'[u] = None /\ u \notin live'
  OBVIOUS
<1>3. LaunchHoldsLock'
  BY <1>1, <1>2 DEF LaunchHoldsLock, Launching, Unbounded
<1>4. \A q \in Proc, f \in Profile :
        sessions'[q][f] = IF q = p THEN None ELSE sessions[q][f]
  OBVIOUS
<1>5. StoredSessions'
  <2> SUFFICES ASSUME NEW q \in Proc, NEW f \in Profile, NEW u \in Task, sessions'[q][f] = u
               PROVE  /\ Home[u] = q /\ Target[u] = f
                      /\ pc'[u] = "returned" /\ u \in live'
                      /\ fileLock'[f] = u
    BY DEF StoredSessions
  <2>1. q # p /\ sessions[q][f] = u
    BY <1>4
  <2>2. /\ Home[u] = q /\ Target[u] = f /\ pc[u] = "returned" /\ u \in live
        /\ fileLock[f] = u
    BY ONLY IInv, <2>1, StoredSession
  <2>3. QED
    BY <1>1, <2>1, <2>2
<1>6. ClosingSessions'
  <2>1. \A c \in Task : pc'[c] = "closing" => popped'[c] \in Task
    BY <1>1, <1>2 DEF ClosingSessions
  <2>2. ASSUME NEW c \in Task, NEW u \in Task, popped'[c] = u
        PROVE  /\ Home[u] = Home[c] /\ Target[u] = Target[c]
               /\ pc'[c] = "closing" /\ pc'[u] = "returned" /\ u \in live'
               /\ fileLock'[Target[u]] = u
               /\ sessions'[Home[u]][Target[u]] # u
               /\ \A d \in Task : popped'[d] = u => d = c
    <3>1. Home[c] # p /\ popped[c] = u
      BY <1>1, <1>2, <2>2
    <3>2. /\ Home[u] = Home[c] /\ Target[u] = Target[c]
          /\ pc[c] = "closing" /\ pc[u] = "returned" /\ u \in live
          /\ fileLock[Target[u]] = u
          /\ sessions[Home[u]][Target[u]] # u
          /\ \A d \in Task : popped[d] = u => d = c
      BY <3>1 DEF ClosingSessions
    <3>3. \A d \in Task : popped'[d] = u => d = c
      BY <1>1, <1>2, <3>2
    <3>4. sessions'[Home[u]][Target[u]] # u
      BY <1>4, <3>1, <3>2
    <3>5. QED
      BY <1>1, <3>1, <3>2, <3>3, <3>4
  <2>3. QED
    BY <2>1, <2>2 DEF ClosingSessions
<1>7. BrowsersHoldLock' /\ AdriftAreLost'
  BY <1>1, <1>2 DEF BrowsersHoldLock, AdriftAreLost, Ended
<1>8. QED
  BY <1>3, <1>5, <1>6, <1>7

-----------------------------------------------------------------------------

LEMMA CallsTypeStep ==
    ASSUME CallsTypeOK, ClosingSessions, [Next]_vars
    PROVE  CallsTypeOK'
<1> USE ManagerConstants DEF CallsTypeOK
<1>1. ASSUME NEW t \in Task, ReturnExisting(t) PROVE CallsTypeOK'
  BY <1>1 DEF ReturnExisting, PC, Ended
<1>2. ASSUME NEW t \in Task, NEW end \in PC, NEW q, pc' = EndAndWake(t, end, q)
      PROVE  pc' \in [Task -> PC]
  BY <1>2 DEF EndAndWake, PC, Waiting
<1>3. ASSUME NEW t \in Task, NEW l \in Task \cup {None}, NEW q, Enter(t, l, q)
      PROVE  /\ pc' \in [Task -> PC]
             /\ lockOf' \in [Task -> Task \cup {None}]
             /\ fileLock' \in [Profile -> Task \cup {None}]
  <2>1. "returned" \in PC /\ "failed" \in PC /\ "preparing" \in PC
    BY DEF PC, Ended, Launching, Unbounded
  <2>2. CASE SessionOf(t) = None /\ fileLock[Target[t]] = None
    <3>1. /\ pc' = [pc EXCEPT ![t] = "preparing"]
          /\ lockOf' = [lockOf EXCEPT ![t] = l]
          /\ fileLock' = [fileLock EXCEPT ![Target[t]] = t]
      BY <1>3, <2>2 DEF Enter
    <3>2. QED
      BY <2>1, <3>1
  <2>3. CASE ~(SessionOf(t) = None /\ fileLock[Target[t]] = None)
    BY <1>2, <1>3, <2>1, <2>3 DEF Enter
  <2>4. QED
    BY <2>2, <2>3
<1>4. ASSUME NEW t \in Task, AskForLock(t) PROVE CallsTypeOK'
  <2> DEFINE known == createLocks[Home[t]][Target[t]]
             l == IF known = None THEN t ELSE known
  <2>1. l \in Task
    OBVIOUS
  <2>2. createLocks' \in [Proc -> [Profile -> Task \cup {None}]]
    BY <1>4, <2>1 DEF AskForLock
  <2>3. UNCHANGED <<cancelled, sessions, popped, live, adrift>>
    BY <1>4 DEF AskForLock
  <2>4. CASE Enter(t, l, <<>>)
    BY <1>3, <2>1, <2>2, <2>3, <2>4
  <2>5. CASE /\ pc' = [pc EXCEPT ![t] = "waiting"]
             /\ lockOf' = [lockOf EXCEPT ![t] = l]
             /\ UNCHANGED fileLock
    BY <2>1, <2>2, <2>3, <2>5 DEF PC, Waiting
  <2>6. QED
    BY <1>4, <2>4, <2>5 DEF AskForLock
<1>5. ASSUME NEW t \in Task, Resume(t) PROVE CallsTypeOK'
  BY <1>3, <1>5 DEF Resume
<1>6. ASSUME NEW t \in Task, NEW end \in PC, Leave(t, end)
      PROVE  pc' \in [Task -> PC] /\ lockOf' \in [Task -> Task \cup {None}]
  BY <1>2, <1>6 DEF Leave
<1>7. /\ "failed" \in PC /\ "returned" \in PC /\ "cancelled" \in PC
      /\ "launching" \in PC /\ "opening" \in PC /\ "stopping" \in PC
      /\ "closing" \in PC /\ "killed" \in PC
  BY DEF PC, Ended, Launching, Unbounded
<1>8. ASSUME NEW t \in Task, PrepareEnds(t) PROVE CallsTypeOK'
  <2>1. pc' \in [Task -> PC] /\ lockOf' \in [Task -> Task \cup {None}]
    <3>1. CASE pc' = [pc EXCEPT ![t] = "launching"] /\ UNCHANGED lockOf
      BY <1>7, <3>1
    <3>2. CASE Leave(t, "failed")
      BY <1>6, <1>7, <3>2
    <3>3. QED
      BY <1>8, <3>1, <3>2 DEF PrepareEnds
  <2>2. fileLock' \in [Profile -> Task \cup {None}] /\ live' \subseteq Task
    BY <1>8 DEF PrepareEnds
  <2>3. QED
    BY <1>8, <2>1, <2>2 DEF PrepareEnds
<1>9. ASSUME NEW t \in Task, LaunchEnds(t) PROVE CallsTypeOK'
  BY <1>7, <1>9 DEF LaunchEnds
<1>10. ASSUME NEW t \in Task, OpenEnds(t) PROVE CallsTypeOK'
  <2>1. pc' \in [Task -> PC] /\ lockOf' \in [Task -> Task \cup {None}]
    BY <1>6, <1>7, <1>10 DEF OpenEnds
  <2>2. sessions' \in [Proc -> [Profile -> Task \cup {None}]]
    <3>1. CASE sessions' = [sessions EXCEPT ![Home[t]][Target[t]] = t]
      BY <3>1
    <3>2. CASE UNCHANGED sessions
      BY <3>2
    <3>3. QED
      BY <1>10, <3>1, <3>2 DEF OpenEnds
  <2>3. QED
    BY <1>10, <2>1, <2>2 DEF OpenEnds
<1>11. ASSUME NEW t \in Task, StopEnds(t) PROVE CallsTypeOK'
  BY <1>6, <1>7, <1>11 DEF StopEnds, StopsDriver
<1>12. ASSUME NEW t \in Task, CancelWaiting(t) PROVE CallsTypeOK'
  <2>1. PICK q : pc' = EndAndWake(t, "cancelled", q)
    BY <1>12 DEF CancelWaiting
  <2>2. QED
    BY <1>2, <1>7, <1>12, <2>1 DEF CancelWaiting
<1>13. ASSUME NEW t \in Task, CancelUncaught(t) PROVE CallsTypeOK'
  BY <1>6, <1>7, <1>13 DEF CancelUncaught
<1>14. ASSUME NEW t \in Task, CancelLaunch(t) PROVE CallsTypeOK'
  BY <1>7, <1>14 DEF CancelLaunch
<1>15. ASSUME NEW t \in Task, Collect(t) PROVE CallsTypeOK'
  BY <1>15 DEF Collect
<1>16. ASSUME NEW p \in Proc, NEW f \in Profile, Forget(p, f)
       PROVE  createLocks' \in [Proc -> [Profile -> Task \cup {None}]]
  BY <1>16 DEF Forget
<1>17. ASSUME NEW t \in Task, CloseNothing(t) PROVE CallsTypeOK'
  BY <1>7, <1>16, <1>17 DEF CloseNothing
<1>18. ASSUME NEW t \in Task, CloseStarts(t) PROVE CallsTypeOK'
  BY <1>7, <1>18 DEF CloseStarts, SessionOf
<1>19. ASSUME NEW t \in Task, CloseEnds(t) PROVE CallsTypeOK'
  <2>1. createLocks' \in [Proc -> [Profile -> Task \cup {None}]]
    BY <1>16, <1>19 DEF CloseEnds
  <2>2. /\ pc' \in [Task -> PC]
        /\ fileLock' \in [Profile -> Task \cup {None}]
        /\ popped' \in [Task -> Task \cup {None}]
    BY <1>7, <1>19 DEF CloseEnds
  <2>3. popped[t] \in Task
    BY <1>19 DEF CloseEnds, ClosingSessions
  <2>4. live' \subseteq Task /\ adrift' \subseteq Task
    BY <1>19, <2>3 DEF CloseEnds, StopsDriver
  <2>5. QED
    BY <1>19, <2>1, <2>2, <2>4 DEF CloseEnds
<1>20. ASSUME NEW p \in Proc, Crash(p) PROVE CallsTypeOK'
  BY <1>7, <1>20 DEF Crash
<1>21. ASSUME NEW t \in Task, Sinks(t) PROVE CallsTypeOK'
  BY <1>21 DEF Sinks
<1>22. ASSUME UNCHANGED vars PROVE CallsTypeOK'
  BY <1>22 DEF vars
<1>23. QED
  BY <1>1, <1>4, <1>5, <1>8, <1>9, <1>10, <1>11, <1>12, <1>13, <1>14, <1>15, <1>17, <1>18,
     <1>19, <1>20, <1>21, <1>22
     DEF Next, GetOrCreate, CloseSession, Proceed, Launch, Cancel

\* The step of the invariant, one action after the other.
LEMMA NextInvariant ==
    ASSUME IInv, [Next]_vars
    PROVE  IInv'
<1> USE ManagerConstants
<1>1. CallsTypeOK /\ CallsTypeOK'
  BY CallsTypeStep DEF IInv
<1>2. ASSUME NEW t \in Task, ReturnExisting(t) PROVE IInv'
  <2>1. Moves(t, "returned") /\ pc[t] = "new"
    BY <1>1, <1>2, ExceptMoves DEF ReturnExisting, PC, Ended
  <2>2. QED
    BY <1>1, <1>2, <2>1, BystanderKeepsInv DEF ReturnExisting, PC, Ended, Launching, Unbounded
<1>3. ASSUME NEW t \in Task, NEW l, NEW q, Enter(t, l, q), pc[t] \in {"new", "woken"},
             UNCHANGED <<sessions, popped, live, adrift>>
      PROVE  IInv'
  <2>1. CASE SessionOf(t) = None /\ fileLock[Target[t]] = None
    <3>1. Moves(t, "preparing") /\ fileLock' = [fileLock EXCEPT ![Target[t]] = t]
      BY <1>1, <1>3, <2>1, ExceptMoves DEF Enter, PC, Launching, Unbounded
    <3>2. QED
      BY <1>1, <1>3, <2>1, <3>1, TakingKeepsInv
  <2>2. CASE ~(SessionOf(t) = None /\ fileLock[Target[t]] = None)
    <3>1. PICK end \in {"returned", "failed"} : pc' = EndAndWake(t, end, q)
      BY <1>3, <2>2 DEF Enter
    <3>2. Moves(t, end) /\ end \in PC
      BY <1>1, <3>1, EndAndWakeMoves DEF PC, Ended
    <3>3. UNCHANGED fileLock
      BY <1>3, <2>2 DEF Enter
    <3>4. QED
      BY <1>1, <1>3, <3>2, <3>3, BystanderKeepsInv DEF Waiting, Launching, Unbounded
  <2>3. QED
    BY <2>1, <2>2
<1>4. ASSUME NEW t \in Task, AskForLock(t) PROVE IInv'
  <2> DEFINE known == createLocks[Home[t]][Target[t]]
             l == IF known = None THEN t ELSE known
  <2>1. pc[t] = "new" /\ UNCHANGED <<sessions, popped, live, adrift>>
    BY <1>4 DEF AskForLock
  <2>2. CASE Enter(t, l, <<>>)
    BY <1>3, <2>1, <2>2
  <2>3. CASE pc' = [pc EXCEPT ![t] = "waiting"] /\ UNCHANGED fileLock
    <3>1. Moves(t, "waiting") /\ "waiting" \in PC
      BY <1>1, <2>3, ExceptMoves DEF PC, Waiting
    <3>2. QED
      BY <1>1, <2>1, <2>3, <3>1, BystanderKeepsInv DEF Launching, Unbounded
  <2>4. QED
    BY <1>4, <2>2, <2>3 DEF AskForLock
<1>5. ASSUME NEW t \in Task, Resume(t) PROVE IInv'
  BY <1>3, <1>5 DEF Resume
<1>6. ASSUME NEW t \in Task, NEW end \in PC, Leave(t, end) PROVE Moves(t, end)
  BY <1>1, <1>6, EndAndWakeMoves DEF Leave
<1>7. /\ "failed" \in PC /\ "returned" \in PC /\ "cancelled" \in PC
      /\ "launching" \in PC /\ "opening" \in PC /\ "stopping" \in PC
  BY DEF PC, Ended, Launching, Unbounded
<1>8. ASSUME NEW t \in Task, PrepareEnds(t) PROVE IInv'
  <2>1. pc[t] = "preparing" /\ UNCHANGED <<sessions, popped, adrift>>
    BY <1>8 DEF PrepareEnds
  <2>2. CASE /\ pc' = [pc EXCEPT ![t] = "launching"]
             /\ live' = live \cup {t}
             /\ UNCHANGED fileLock
    <3>1. Moves(t, "launching")
      BY <1>1, <1>7, <2>2, ExceptMoves
    <3>2. QED
      BY <1>1, <2>1, <2>2, <3>1, LaunchingKeepsInv DEF Launching, Unbounded
  <2>3. CASE /\ Leave(t, "failed")
             /\ fileLock' = [fileLock EXCEPT ![Target[t]] = None]
             /\ UNCHANGED live
    <3>1. t \notin live
      BY <2>1 DEF IInv, BrowsersHoldLock
    <3>2. live' = live \ {t}
      BY <2>3, <3>1
    <3>3. Moves(t, "failed")
      BY <1>6, <1>7, <2>3
    <3>4. QED
      BY <1>1, <2>1, <2>3, <3>2, <3>3, LeavingKeepsInv
  <2>4. QED
    BY <1>8, <2>2, <2>3 DEF PrepareEnds
<1>9. ASSUME NEW t \in Task, LaunchEnds(t) PROVE IInv'
  <2>1. PICK next \in {"opening", "stopping"} : pc' = [pc EXCEPT ![t] = next]
    BY <1>9 DEF LaunchEnds
  <2>2. Moves(t, next)
    BY <1>1, <1>7, <2>1, ExceptMoves
  <2>3. QED
    <3>1. pc[t] = "launching" /\ UNCHANGED <<sessions, fileLock, popped, live, adrift>>
      BY <1>9 DEF LaunchEnds
    <3>2. live' = live \cup {t}
      BY <3>1 DEF IInv, LaunchHoldsLock, Launching, Unbounded
    <3>3. QED
      BY <1>1, <2>2, <3>1, <3>2, LaunchingKeepsInv DEF Launching, Unbounded
<1>10. ASSUME NEW t \in Task, OpenEnds(t) PROVE IInv'
  <2>1. pc[t] = "opening" /\ UNCHANGED <<fileLock, popped, live, adrift>>
    BY <1>10 DEF OpenEnds
  <2>2. t \in live
    BY <2>1 DEF IInv, LaunchHoldsLock, Launching, Unbounded
  <2>3. CASE sessions' = [sessions EXCEPT ![Home[t]][Target[t]] = t] /\ Leave(t, "returned")
    <3>1. Moves(t, "returned")
      BY <1>6, <1>7, <2>3
    <3>2. QED
      BY <1>1, <2>1, <2>2, <2>3, <3>1, StoringKeepsInv
  <2>4. CASE pc' = [pc EXCEPT ![t] = "stopping"] /\ UNCHANGED sessions
    <3>1. Moves(t, "stopping")
      BY <1>1, <1>7, <2>4, ExceptMoves
    <3>2. live' = live \cup {t}
      BY <2>1, <2>2
    <3>3. QED
      BY <1>1, <2>1, <2>4, <3>1, <3>2, LaunchingKeepsInv DEF Launching, Unbounded
  <2>5. QED
    BY <1>10, <2>3, <2>4 DEF OpenEnds
<1>11. ASSUME NEW t \in Task, StopEnds(t) PROVE IInv'
  <2>1. /\ pc[t] = "stopping"
        /\ live' = live \ {t} /\ adrift' \subseteq adrift \cup {t}
        /\ UNCHANGED <<sessions, popped>>
    BY <1>11 DEF StopEnds, StopsDriver
  <2>2. PICK end \in {"failed", "cancelled"} :
            /\ Leave(t, end)
            /\ fileLock' = [fileLock EXCEPT ![Target[t]] = None] \/ fileLock' = fileLock
    BY <1>11 DEF StopEnds
  <2>3. Moves(t, end)
    BY <1>6, <1>7, <2>2
  <2>4. QED
    BY <1>1, <2>1, <2>2, <2>3, LeavingKeepsInv
<1>12. ASSUME NEW t \in Task, CancelWaiting(t) PROVE IInv'
  <2>1. PICK q : pc' = EndAndWake(t, "cancelled", q)
    BY <1>12 DEF CancelWaiting
  <2>2. Moves(t, "cancelled")
    BY <1>1, <1>7, <2>1, EndAndWakeMoves
  <2>3. QED
    BY <1>1, <1>7, <1>12, <2>2, BystanderKeepsInv DEF CancelWaiting, Waiting, Launching, Unbounded
<1>13. ASSUME NEW t \in Task, CancelUncaught(t) PROVE IInv'
  <2>1. /\ pc[t] \in {"preparing", "opening"}
        /\ live' = live \ {t} /\ adrift' \subseteq adrift \cup {t}
        /\ UNCHANGED <<sessions, popped, fileLock>>
    BY <1>13 DEF CancelUncaught
  <2>2. Moves(t, "cancelled")
    BY <1>6, <1>7, <1>13 DEF CancelUncaught
  <2>3. QED
    BY <1>1, <2>1, <2>2, LeavingKeepsInv
<1>14. ASSUME NEW t \in Task, CancelLaunch(t) PROVE IInv'
  <2>1. /\ pc[t] \in {"launching", "stopping"}
        /\ UNCHANGED <<sessions, popped, fileLock, live, adrift>>
    BY <1>14 DEF CancelLaunch
  <2>2. live' = live \cup {t}
    BY <2>1 DEF IInv, LaunchHoldsLock, Launching, Unbounded
  <2>3. Moves(t, "stopping")
    BY <1>1, <1>7, <1>14, ExceptMoves DEF CancelLaunch
  <2>4. QED
    BY <1>1, <2>1, <2>2, <2>3, LaunchingKeepsInv DEF Launching, Unbounded
<1>15. ASSUME NEW t \in Task, Collect(t) PROVE IInv'
  BY <1>1, <1>15, CollectKeepsInv
<1>16. ASSUME NEW t \in Task, CloseNothing(t) PROVE IInv'
  <2>1. Moves(t, "returned")
    BY <1>1, <1>7, <1>16, ExceptMoves DEF CloseNothing
  <2>2. QED
    BY <1>1, <1>7, <1>16, <2>1, BystanderKeepsInv DEF CloseNothing, Launching, Unbounded
<1>17. ASSUME NEW t \in Task, CloseStarts(t) PROVE IInv'
  BY <1>1, <1>17, CloseStartsKeepsInv
<1>18. ASSUME NEW t \in Task, CloseEnds(t) PROVE IInv'
  BY <1>1, <1>18, CloseEndsKeepsInv
<1>19. ASSUME NEW p \in Proc, Crash(p) PROVE IInv'
  BY <1>1, <1>19, CrashKeepsInv
<1>20. ASSUME NEW t \in Task, Sinks(t) PROVE IInv'
  BY <1>1, <1>20, SinksKeepsInv
<1>21. CASE UNCHANGED vars
  BY <1>21 DEF vars, IInv, CallsTypeOK, LaunchHoldsLock, StoredSessions, ClosingSessions,
               BrowsersHoldLock, AdriftAreLost
<1>22. QED
  BY <1>2, <1>4, <1>5, <1>8, <1>9, <1>10, <1>11, <1>12, <1>13, <1>14, <1>15, <1>16, <1>17,
     <1>18, <1>19, <1>20, <1>21 DEF Next, GetOrCreate, CloseSession, Proceed, Launch, Cancel

-----------------------------------------------------------------------------

\* Whatever calls, failures, cancellations and deaths come together, whoever has a
\* browser to stop has its profile's OS lock (manager.py:64-82).
THEOREM Invariance == Spec => []IInv
<1>1. IInv /\ [Next]_vars => IInv'
  BY NextInvariant
<1>2. QED
  BY <1>1, InitInvariant, PTL DEF Spec

\* A profile never has two browsers that anybody will still stop: they would hold
\* the same OS lock.  A second one is there only when the first was left behind by
\* a driver stop that failed in silence, by a call cancelled in _open_initial_page
\* or by a process that died (teardown.py:33-36, session.py:88-94, manager.py:66).
THEOREM OneBrowser == Spec => []OneBrowserPerProfile
<1>1. IInv => OneBrowserPerProfile
  BY ManagerConstants DEF IInv, CallsTypeOK, BrowsersHoldLock, OneBrowserPerProfile
<1>2. QED
  BY <1>1, Invariance, PTL

\* A session that get_or_create returns has its browser and its OS lock, whatever
\* other calls, failures and crashes happen around it (manager.py:58-60, 82).
THEOREM LiveSessions == Spec => []SessionsAreAlive
<1>1. IInv => SessionsAreAlive
  <2> SUFFICES ASSUME IInv, NEW p \in Proc, NEW f \in Profile, sessions[p][f] # None
               PROVE  sessions[p][f] \in live /\ fileLock[f] = sessions[p][f]
    BY DEF SessionsAreAlive
  <2>1. sessions[p][f] \in Task
    BY DEF IInv, CallsTypeOK
  <2>2. QED
    BY ONLY IInv, <2>1, StoredSession
<1>2. QED
  BY <1>1, Invariance, PTL

-----------------------------------------------------------------------------
(* SessionManager implements ExclusiveProfiles: the OS lock is the holder, and *)
(* the browsers that run, stoppable or adrift, are up.                         *)

LEMMA InitImplements == Init => Exclusive!Init
BY DEF Init, Exclusive!Init

LEMMA TakeImplements ==
    ASSUME NEW t \in Task, fileLock[Target[t]] = None,
           fileLock' = [fileLock EXCEPT ![Target[t]] = t], UNCHANGED <<live, adrift>>
    PROVE  Exclusive!Next
<1>1. Target[t] \in Profile
  BY ManagerConstants
<1>2. Exclusive!Take(Target[t], t)
  BY <1>1 DEF Exclusive!Take
<1>3. QED
  BY <1>1, <1>2 DEF Exclusive!Next

\* What a call does with its lock when its browser is gone or lost, or it had none.
LEMMA GiveUpImplements ==
    ASSUME IInv, NEW f \in Profile, fileLock[f] # None,
           fileLock' = [fileLock EXCEPT ![f] = None], live' = live \ {fileLock[f]},
           \/ adrift' = adrift
           \/ fileLock[f] \in live /\ adrift' = adrift \cup {fileLock[f]}
    PROVE  Exclusive!Next
<1> DEFINE up == live \cup adrift
           t == fileLock[f]
<1>1. live \cap adrift = {}
  BY DEF IInv, AdriftAreLost
<1>2. CASE t \notin adrift /\ adrift' = adrift
  <2>1. up' = up \ {t}
    BY <1>2
  <2>2. Exclusive!GiveUp(f)
    BY <1>2, <2>1 DEF Exclusive!GiveUp
  <2>3. QED
    BY <2>2 DEF Exclusive!Next
<1>3. CASE t \in adrift /\ adrift' = adrift
  <2>1. up' = up /\ adrift' = adrift \cup (up \cap {t})
    BY <1>1, <1>3
  <2>2. Exclusive!GiveUp(f)
    BY <2>1 DEF Exclusive!GiveUp
  <2>3. QED
    BY <2>2 DEF Exclusive!Next
<1>4. CASE t \in live /\ adrift' = adrift \cup {t}
  <2>1. up' = up /\ adrift' = adrift \cup (up \cap {t})
    BY <1>4
  <2>2. Exclusive!GiveUp(f)
    BY <2>1 DEF Exclusive!GiveUp
  <2>3. QED
    BY <2>2 DEF Exclusive!Next
<1>5. QED
  BY <1>2, <1>3, <1>4

\* A browser goes, or goes adrift, and its call keeps the lock.
LEMMA LosingImplements ==
    ASSUME IInv, NEW t \in Task, t \in live, UNCHANGED fileLock, live' = live \ {t},
           adrift' \in {adrift, adrift \cup {t}}
    PROVE  Exclusive!Next
<1>1. t \notin adrift
  BY DEF IInv, AdriftAreLost
<1>2. CASE adrift' = adrift
  <2>1. (live \cup adrift)' = (live \cup adrift) \ {t} /\ adrift' = adrift \ {t}
    BY <1>1, <1>2
  <2>2. Exclusive!BrowserDown(t)
    BY <2>1 DEF Exclusive!BrowserDown
  <2>3. QED
    BY <2>2 DEF Exclusive!Next
<1>3. CASE adrift' = adrift \cup {t}
  <2>1. (live \cup adrift)' = live \cup adrift
    BY <1>3
  <2>2. Exclusive!Drift(t)
    BY <1>3, <2>1 DEF Exclusive!Drift
  <2>3. QED
    BY <2>2 DEF Exclusive!Next
<1>4. QED
  BY <1>2, <1>3

LEMMA StepImplements ==
    ASSUME IInv, [Next]_vars
    PROVE  [Exclusive!Next]_Exclusive!vars
<1> USE ManagerConstants
<1>1. ASSUME UNCHANGED <<fileLock, live, adrift>> PROVE UNCHANGED Exclusive!vars
  BY <1>1 DEF Exclusive!vars
<1>2. ASSUME NEW t \in Task, NEW l, NEW q, Enter(t, l, q), UNCHANGED <<live, adrift>>
      PROVE  [Exclusive!Next]_Exclusive!vars
  <2>1. CASE SessionOf(t) = None /\ fileLock[Target[t]] = None
    BY <1>2, <2>1, TakeImplements DEF Enter
  <2>2. CASE ~(SessionOf(t) = None /\ fileLock[Target[t]] = None)
    BY <1>1, <1>2, <2>2 DEF Enter
  <2>3. QED
    BY <2>1, <2>2
<1>3. ASSUME NEW t \in Task, GetOrCreate(t) PROVE [Exclusive!Next]_Exclusive!vars
  <2>1. CASE ReturnExisting(t)
    BY <1>1, <2>1 DEF ReturnExisting
  <2>2. CASE AskForLock(t)
    BY <1>1, <1>2, <2>2 DEF AskForLock
  <2>3. QED
    BY <1>3, <2>1, <2>2 DEF GetOrCreate
<1>4. ASSUME NEW t \in Task, pc[t] \in Launching
      PROVE  /\ fileLock[Target[t]] = t /\ t # None /\ Target[t] \in Profile
             /\ pc[t] # "preparing" => t \in live
  BY <1>4 DEF IInv, LaunchHoldsLock, CallsTypeOK
<1>5. ASSUME NEW t \in Task, PrepareEnds(t) PROVE [Exclusive!Next]_Exclusive!vars
  <2>1. /\ fileLock[Target[t]] = t /\ t # None /\ Target[t] \in Profile
        /\ t \notin live /\ t \notin adrift
    BY <1>4, <1>5 DEF PrepareEnds, IInv, BrowsersHoldLock, AdriftAreLost, Ended, Launching,
                      Unbounded
  <2>2. CASE live' = live \cup {t} /\ UNCHANGED <<fileLock, adrift>>
    <3>1. (live \cup adrift)' = (live \cup adrift) \cup {t}
      BY <2>2
    <3>2. Exclusive!BrowserUp(t)
      BY <2>1, <2>2, <3>1 DEF Exclusive!BrowserUp
    <3>3. QED
      BY <3>2 DEF Exclusive!Next
  <2>3. CASE fileLock' = [fileLock EXCEPT ![Target[t]] = None] /\ UNCHANGED <<live, adrift>>
    <3>1. live' = live \ {t}
      BY <2>1, <2>3
    <3>2. QED
      BY <2>1, <2>3, <3>1, GiveUpImplements
  <2>4. QED
    BY <1>5, <2>2, <2>3 DEF PrepareEnds
<1>6. ASSUME NEW t \in Task, StopEnds(t) PROVE [Exclusive!Next]_Exclusive!vars
  <2>1. /\ fileLock[Target[t]] = t /\ t # None /\ Target[t] \in Profile /\ t \in live
        /\ live' = live \ {t} /\ adrift' \in {adrift, adrift \cup {t}}
    BY <1>4, <1>6 DEF StopEnds, StopsDriver, Launching, Unbounded
  <2>2. CASE t \in cancelled
    BY <1>6, <2>1, <2>2, LosingImplements DEF StopEnds
  <2>3. CASE t \notin cancelled
    BY <1>6, <2>1, <2>3, GiveUpImplements DEF StopEnds
  <2>4. QED
    BY <2>2, <2>3
<1>7. ASSUME NEW t \in Task, CloseEnds(t) PROVE [Exclusive!Next]_Exclusive!vars
  <2>1. popped[t] \in Task /\ fileLock[Target[t]] = popped[t] /\ popped[t] \in live
    BY <1>7 DEF CloseEnds, IInv, ClosingSessions
  <2>2. /\ Target[t] \in Profile /\ popped[t] # None
        /\ fileLock' = [fileLock EXCEPT ![Target[t]] = None]
        /\ live' = live \ {popped[t]} /\ adrift' \in {adrift, adrift \cup {popped[t]}}
    BY <1>7, <2>1 DEF CloseEnds, StopsDriver
  <2>3. QED
    BY <2>1, <2>2, GiveUpImplements
<1>8. ASSUME NEW t \in Task, Proceed(t) \/ Launch(t) PROVE [Exclusive!Next]_Exclusive!vars
  <2>1. CASE Resume(t)
    BY <1>2, <2>1 DEF Resume
  <2>2. CASE LaunchEnds(t) \/ OpenEnds(t)
    BY <1>1, <2>2 DEF LaunchEnds, OpenEnds
  <2>3. QED
    BY <1>5, <1>6, <1>7, <1>8, <2>1, <2>2 DEF Proceed, Launch
<1>9. ASSUME NEW t \in Task, CloseSession(t) PROVE [Exclusive!Next]_Exclusive!vars
  BY <1>1, <1>9 DEF CloseSession, CloseNothing, CloseStarts
<1>10. ASSUME NEW t \in Task, Cancel(t) PROVE [Exclusive!Next]_Exclusive!vars
  <2>1. CASE CancelWaiting(t) \/ CancelLaunch(t)
    BY <1>1, <2>1 DEF CancelWaiting, CancelLaunch
  <2>2. CASE CancelUncaught(t)
    <3>1. UNCHANGED fileLock /\ live' = live \ {t} /\ adrift' = adrift \cup (live \cap {t})
      BY <2>2 DEF CancelUncaught
    <3>2. CASE t \in live
      BY <3>1, <3>2, LosingImplements
    <3>3. CASE t \notin live
      BY <1>1, <3>1, <3>3
    <3>4. QED
      BY <3>2, <3>3
  <2>3. QED
    BY <1>10, <2>1, <2>2 DEF Cancel
<1>11. ASSUME NEW t \in Task, Collect(t) PROVE [Exclusive!Next]_Exclusive!vars
  <2>1. /\ t \notin live /\ t # None /\ Target[t] \in Profile /\ fileLock[Target[t]] = t
        /\ fileLock' = [fileLock EXCEPT ![Target[t]] = None] /\ UNCHANGED <<live, adrift>>
    BY <1>11 DEF Collect, IInv, BrowsersHoldLock, CallsTypeOK
  <2>2. live' = live \ {t}
    BY <2>1
  <2>3. QED
    BY <2>1, <2>2, GiveUpImplements
<1>12. ASSUME NEW t \in Task, Sinks(t) PROVE [Exclusive!Next]_Exclusive!vars
  <2>1. t \in adrift /\ t \notin live /\ adrift' = adrift \ {t} /\ UNCHANGED <<fileLock, live>>
    BY <1>12 DEF Sinks, IInv, AdriftAreLost
  <2>2. (live \cup adrift)' = (live \cup adrift) \ {t}
    BY <2>1
  <2>3. Exclusive!BrowserDown(t)
    BY <2>1, <2>2 DEF Exclusive!BrowserDown
  <2>4. QED
    BY <2>3 DEF Exclusive!Next
<1>13. ASSUME NEW p \in Proc, Crash(p) PROVE [Exclusive!Next]_Exclusive!vars
  <2> DEFINE mine == {t \in Task : Home[t] = p}
             up == live \cup adrift
  <2>0. PICK F \in SUBSET Profile : F = {f \in Profile : fileLock[f] \in mine}
    OBVIOUS
  <2>1. fileLock' = [f \in Profile |-> IF f \in F THEN None ELSE fileLock[f]]
    BY <1>13, <2>0 DEF Crash
  <2>2. \A t \in live : t \in Task /\ Target[t] \in Profile /\ fileLock[Target[t]] = t
    BY DEF IInv, BrowsersHoldLock, CallsTypeOK
  <2>3. live' = live \ mine /\ adrift' = adrift \cup (live \cap mine)
    BY <1>13 DEF Crash
  <2>4. up' = up
    BY <2>3
  <2>5. adrift' = adrift \cup {t \in up : Target[t] \in F /\ fileLock[Target[t]] = t}
    BY <2>0, <2>2, <2>3
  <2>6. Exclusive!Die(F)
    BY <2>1, <2>4, <2>5 DEF Exclusive!Die
  <2>7. QED
    BY <2>6 DEF Exclusive!Next
<1>14. CASE UNCHANGED vars
  BY <1>1, <1>14 DEF vars
<1>15. QED
  BY <1>3, <1>8, <1>9, <1>10, <1>11, <1>12, <1>13, <1>14 DEF Next

\* Every use of a profile runs its course, whatever fails, is cancelled or crashes:
\* taken, its browser up, down or adrift, given up, and only then taken again
\* (manager.py:64-82, session.py:65-66, teardown.py:33-36).
THEOREM ImplementsExclusive == Spec => ImplementsExclusiveProfiles
<1>1. IInv /\ [Next]_vars => [Exclusive!Next]_Exclusive!vars
  BY StepImplements
<1>2. QED
  BY <1>1, InitImplements, Invariance, PTL DEF Spec, ImplementsExclusiveProfiles, Exclusive!Spec
=============================================================================
