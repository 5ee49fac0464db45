---------------------------- MODULE SessionManager ----------------------------
(***************************************************************************)
(* The sessions of a server process (sessions/manager.py) and how one      *)
(* comes up and goes down (sessions/session.py, sessions/teardown.py),     *)
(* for several processes that share one profiles directory.                *)
(*                                                                         *)
(* A task is one call of get_or_create or close_session, from its first    *)
(* step to its end; it runs alone between two awaits.  What a task makes   *)
(* is named by it: the FileLock object, the asyncio.Lock, the session and  *)
(* the browser that task t created are all called t.  _sessions and _locks *)
(* are written together at each place, so one function stands for both.    *)
(*                                                                         *)
(* Assumed of the outside: a driver that stops takes its browser with it;  *)
(* an OS lock dies with its holder; a FileLock object nobody refers to any *)
(* more is released when it is collected (FileLock.__del__), at a moment   *)
(* the code does not choose.  A driver whose stop fails or runs out of     *)
(* time is left behind with its browser, and so are those of a process     *)
(* that dies: they go when they go.  on_closed, which only records that a  *)
(* session was closed, is left out.                                        *)
(***************************************************************************)
EXTENDS SequencesExt

CONSTANTS
    Task,      \* calls
    Proc,      \* server processes
    Profile,   \* profile names
    Home,      \* Home[t] is the process of call t
    Target,    \* Target[t] is the profile it names
    None,
    CancelAt,  \* where a client may cancel a call
    Mortal     \* bound: the processes that may die, and whose lost browsers may go

Waiting == {"waiting", "woken"}
\* Awaits of Session.create that nothing bounds: prepare_addons, the start of the
\* driver, AsyncNewBrowser, new_page.
Unbounded == {"preparing", "launching", "opening"}
\* Inside `async with self._creation_lock(profile)`, past the OS lock.
Launching == Unbounded \cup {"stopping"}
\* A call that ends returns or raises ("failed", ProfileInUseError included).
Ended == {"returned", "failed", "cancelled", "killed"}
PC == {"new", "closing"} \cup Waiting \cup Launching \cup Ended

ASSUME ManagerConstants ==
    /\ Home \in [Task -> Proc]
    /\ Target \in [Task -> Profile]
    /\ None \notin Task
    /\ CancelAt \subseteq Waiting \cup Launching /\ Mortal \subseteq Proc

VARIABLES
    pc,          \* where each call is
    cancelled,   \* calls with a CancelledError on its way out
    sessions,    \* _sessions and _locks of each process
    createLocks, \* _create_locks of each process
    lockOf,      \* the creation lock a call holds or waits for
    waiters,     \* asyncio.Lock._waiters of each creation lock
    fileLock,    \* the FileLock object that holds a profile's OS lock
    popped,      \* the session a closing call took out of _sessions
    live,        \* the browsers that run and have a call or a session to stop them
    adrift       \* those that run although nobody will stop them any more

vars == <<pc, cancelled, sessions, createLocks, lockOf, waiters, fileLock, popped, live, adrift>>

CallsTypeOK ==
    /\ pc \in [Task -> PC]
    /\ cancelled \subseteq Task
    /\ sessions \in [Proc -> [Profile -> Task \cup {None}]]
    /\ createLocks \in [Proc -> [Profile -> Task \cup {None}]]
    /\ lockOf \in [Task -> Task \cup {None}]
    /\ fileLock \in [Profile -> Task \cup {None}]
    /\ popped \in [Task -> Task \cup {None}]
    /\ live \subseteq Task /\ adrift \subseteq Task

TypeOK == CallsTypeOK /\ waiters \in [Task -> Seq(Task)]

Init ==
    /\ pc = [t \in Task |-> "new"]
    /\ cancelled = {}
    /\ sessions = [p \in Proc |-> [f \in Profile |-> None]]
    /\ createLocks = [p \in Proc |-> [f \in Profile |-> None]]
    /\ lockOf = [t \in Task |-> None]
    /\ waiters = [t \in Task |-> <<>>]
    /\ fileLock = [f \in Profile |-> None]
    /\ popped = [t \in Task |-> None]
    /\ live = {} /\ adrift = {}

SessionOf(t) == sessions[Home[t]][Target[t]]

-----------------------------------------------------------------------------
(* The creation lock, an asyncio.Lock: first come, first served, and unlocked  *)
(* between a release and the moment the waiter it woke runs.                   *)

Locked(l) == \E t \in Task : lockOf[t] = l /\ pc[t] \in Launching

\* Call t ends as `end`, and the first of the queue q is woken, unless it has
\* been already.
EndAndWake(t, end, q) ==
    [u \in Task |-> IF u = t THEN end
                    ELSE IF q # <<>> /\ u = Head(q) /\ pc[u] = "waiting" THEN "woken"
                    ELSE pc[u]]

\* The call leaves `async with self._creation_lock(profile)` for good.
Leave(t, end) ==
    /\ pc' = EndAndWake(t, end, waiters[lockOf[t]])
    /\ lockOf' = [lockOf EXCEPT ![t] = None]
    /\ UNCHANGED waiters

\* Call t has lock l, behind it the queue q: it looks at _sessions again and
\* takes the OS lock, or leaves at once.
Enter(t, l, q) ==
    /\ waiters' = [waiters EXCEPT ![l] = q]
    /\ IF SessionOf(t) = None /\ fileLock[Target[t]] = None
       THEN /\ pc' = [pc EXCEPT ![t] = "preparing"]
            /\ lockOf' = [lockOf EXCEPT ![t] = l]
            /\ fileLock' = [fileLock EXCEPT ![Target[t]] = t]
       ELSE /\ pc' = EndAndWake(t, IF SessionOf(t) # None THEN "returned" ELSE "failed", q)
            /\ lockOf' = [lockOf EXCEPT ![t] = None]
            /\ UNCHANGED fileLock

-----------------------------------------------------------------------------
(* get_or_create *)

\* The fast path.
ReturnExisting(t) ==
    /\ pc[t] = "new"
    /\ SessionOf(t) # None
    /\ pc' = [pc EXCEPT ![t] = "returned"]
    /\ UNCHANGED <<cancelled, sessions, createLocks, lockOf, waiters, fileLock, popped, live, adrift>>

\* _creation_lock, and the first try at it: asyncio.Lock.acquire does not yield
\* when the lock is free and nobody waits.
AskForLock(t) ==
    LET known == createLocks[Home[t]][Target[t]]
        l == IF known = None THEN t ELSE known
    IN  /\ pc[t] = "new"
        /\ SessionOf(t) = None
        /\ createLocks' = [createLocks EXCEPT ![Home[t]][Target[t]] = l]
        /\ IF Locked(l) \/ waiters[l] # <<>>
           THEN /\ pc' = [pc EXCEPT ![t] = "waiting"]
                /\ lockOf' = [lockOf EXCEPT ![t] = l]
                /\ waiters' = [waiters EXCEPT ![l] = Append(@, t)]
                /\ UNCHANGED fileLock
           ELSE Enter(t, l, <<>>)
        /\ UNCHANGED <<cancelled, sessions, popped, live, adrift>>

\* The call that was woken is the first in the queue.
Resume(t) ==
    /\ pc[t] = "woken"
    /\ Enter(t, lockOf[t], Tail(waiters[lockOf[t]]))
    /\ UNCHANGED <<cancelled, sessions, createLocks, popped, live, adrift>>

\* Session.create up to the launch; a failure there has nothing to undo.
PrepareEnds(t) ==
    /\ pc[t] = "preparing"
    /\ \/ /\ pc' = [pc EXCEPT ![t] = "launching"]
          /\ live' = live \cup {t}
          /\ UNCHANGED <<lockOf, waiters, fileLock>>
       \/ /\ Leave(t, "failed")
          /\ fileLock' = [fileLock EXCEPT ![Target[t]] = None]
          /\ UNCHANGED live
    /\ UNCHANGED <<cancelled, sessions, createLocks, popped, adrift>>

\* The launch ends: the browser is up, or the driver has to be stopped.
LaunchEnds(t) ==
    /\ pc[t] = "launching"
    /\ \E next \in {"opening", "stopping"} : pc' = [pc EXCEPT ![t] = next]
    /\ UNCHANGED <<cancelled, sessions, createLocks, lockOf, waiters, fileLock, popped, live, adrift>>

\* Fault: the session is stored before its first page is open.
OpenEnds_StoresEarly(t) ==
    /\ pc[t] = "opening"
    /\ sessions' = [sessions EXCEPT ![Home[t]][Target[t]] = t]
    /\ \/ Leave(t, "returned")
       \/ pc' = [pc EXCEPT ![t] = "stopping"] /\ UNCHANGED <<lockOf, waiters>>
    /\ UNCHANGED <<cancelled, createLocks, fileLock, popped, live, adrift>>

\* _open_initial_page ends: the session is stored, or closed again.
OpenEnds(t) ==
    /\ pc[t] = "opening"
    /\ \/ /\ sessions' = [sessions EXCEPT ![Home[t]][Target[t]] = t]
          /\ Leave(t, "returned")
       \/ /\ pc' = [pc EXCEPT ![t] = "stopping"]
          /\ UNCHANGED <<sessions, lockOf, waiters>>
    /\ UNCHANGED <<cancelled, createLocks, fileLock, popped, live, adrift>>

\* quietly("Playwright stop", ...): the driver of browser t is stopped and its
\* browser gone, or the stop has failed or run out of time, which nobody is told.
StopsDriver(t) ==
    /\ live' = live \ {t}
    /\ adrift' \in {adrift, adrift \cup {t}}

\* Fault: a failed launch keeps its OS lock.
StopEnds_KeepsLock(t) ==
    /\ pc[t] = "stopping"
    /\ StopsDriver(t)
    /\ Leave(t, IF t \in cancelled THEN "cancelled" ELSE "failed")
    /\ cancelled' = cancelled \ {t}
    /\ UNCHANGED <<sessions, createLocks, fileLock, popped>>

\* Only `except Exception` releases the OS lock: a cancelled call leaves it to
\* the garbage collector.
StopEnds(t) ==
    /\ pc[t] = "stopping"
    /\ StopsDriver(t)
    /\ IF t \in cancelled
       THEN Leave(t, "cancelled") /\ UNCHANGED fileLock
       ELSE Leave(t, "failed") /\ fileLock' = [fileLock EXCEPT ![Target[t]] = None]
    /\ cancelled' = cancelled \ {t}
    /\ UNCHANGED <<sessions, createLocks, popped>>

-----------------------------------------------------------------------------
(* A client cancels the call.  (A cancelled close_session does as the others   *)
(* do: its finally blocks run, and the driver is stopped behind a shield.)     *)

\* Fault: a wake-up that cannot be used is lost.
CancelWaiting_LosesWakeUp(t) ==
    /\ pc[t] \in Waiting \cap CancelAt
    /\ pc' = [pc EXCEPT ![t] = "cancelled"]
    /\ \E i \in DOMAIN waiters[lockOf[t]] :
          /\ waiters[lockOf[t]][i] = t
          /\ waiters' = [waiters EXCEPT ![lockOf[t]] = RemoveAt(@, i)]
    /\ lockOf' = [lockOf EXCEPT ![t] = None]
    /\ UNCHANGED <<cancelled, sessions, createLocks, fileLock, popped, live, adrift>>

\* asyncio.Lock.acquire hands a wake-up it cannot use to the next in line.
CancelWaiting(t) ==
    /\ pc[t] \in Waiting \cap CancelAt
    /\ \E i \in DOMAIN waiters[lockOf[t]] :
          LET q == RemoveAt(waiters[lockOf[t]], i)
          IN  /\ waiters[lockOf[t]][i] = t
              /\ waiters' = [waiters EXCEPT ![lockOf[t]] = q]
              /\ pc' = EndAndWake(t, "cancelled", IF Locked(lockOf[t]) THEN <<>> ELSE q)
    /\ lockOf' = [lockOf EXCEPT ![t] = None]
    /\ UNCHANGED <<cancelled, sessions, createLocks, fileLock, popped, live, adrift>>

\* Before the launch and after it nothing catches a CancelledError: a browser
\* that is up then has nobody left to stop it.
CancelUncaught(t) ==
    /\ pc[t] \in {"preparing", "opening"} \cap CancelAt
    /\ Leave(t, "cancelled")
    /\ live' = live \ {t}
    /\ adrift' = adrift \cup (live \cap {t})
    /\ UNCHANGED <<cancelled, sessions, createLocks, fileLock, popped>>

\* Fault: the OS lock is released while the driver is still being stopped.
CancelLaunch_ReleasesFirst(t) ==
    /\ pc[t] \in {"launching", "stopping"} \cap CancelAt
    /\ pc' = [pc EXCEPT ![t] = "stopping"]
    /\ cancelled' = cancelled \cup {t}
    /\ fileLock' = [fileLock EXCEPT ![Target[t]] = None]
    /\ UNCHANGED <<sessions, createLocks, lockOf, waiters, popped, live, adrift>>

\* During the launch `except BaseException` stops the driver first.
CancelLaunch(t) ==
    /\ pc[t] \in {"launching", "stopping"} \cap CancelAt
    /\ pc' = [pc EXCEPT ![t] = "stopping"]
    /\ cancelled' = cancelled \cup {t}
    /\ UNCHANGED <<sessions, createLocks, lockOf, waiters, fileLock, popped, live, adrift>>

\* The FileLock of a cancelled call is collected.
Collect(t) ==
    /\ pc[t] = "cancelled"
    /\ fileLock[Target[t]] = t
    /\ fileLock' = [fileLock EXCEPT ![Target[t]] = None]
    /\ UNCHANGED <<pc, cancelled, sessions, createLocks, lockOf, waiters, popped, live, adrift>>

-----------------------------------------------------------------------------
(* close_session; shutdown() is one such call after another. *)

\* _forget_creation_lock
Forget(p, f) ==
    createLocks' = IF Locked(createLocks[p][f]) THEN createLocks
                   ELSE [createLocks EXCEPT ![p][f] = None]

CloseNothing(t) ==
    /\ pc[t] = "new"
    /\ SessionOf(t) = None
    /\ pc' = [pc EXCEPT ![t] = "returned"]
    /\ Forget(Home[t], Target[t])
    /\ UNCHANGED <<cancelled, sessions, lockOf, waiters, fileLock, popped, live, adrift>>

\* Fault: the OS lock is released before the browser is gone.
CloseStarts_ReleasesFirst(t) ==
    /\ pc[t] = "new"
    /\ SessionOf(t) # None
    /\ popped' = [popped EXCEPT ![t] = SessionOf(t)]
    /\ sessions' = [sessions EXCEPT ![Home[t]][Target[t]] = None]
    /\ fileLock' = [fileLock EXCEPT ![Target[t]] = None]
    /\ pc' = [pc EXCEPT ![t] = "closing"]
    /\ UNCHANGED <<cancelled, createLocks, lockOf, waiters, live, adrift>>

CloseStarts(t) ==
    /\ pc[t] = "new"
    /\ SessionOf(t) # None
    /\ popped' = [popped EXCEPT ![t] = SessionOf(t)]
    /\ sessions' = [sessions EXCEPT ![Home[t]][Target[t]] = None]
    /\ pc' = [pc EXCEPT ![t] = "closing"]
    /\ UNCHANGED <<cancelled, createLocks, lockOf, waiters, fileLock, live, adrift>>

CloseEnds(t) ==
    /\ pc[t] = "closing"
    /\ StopsDriver(popped[t])
    /\ fileLock' = [fileLock EXCEPT ![Target[t]] = None]
    /\ Forget(Home[t], Target[t])
    /\ popped' = [popped EXCEPT ![t] = None]
    /\ pc' = [pc EXCEPT ![t] = "returned"]
    /\ UNCHANGED <<cancelled, sessions, lockOf, waiters>>

-----------------------------------------------------------------------------
(* A server process dies without warning. *)

Crash(p) ==
    LET mine == {t \in Task : Home[t] = p}
    IN  /\ p \in Mortal /\ \E t \in mine : pc[t] # "killed"
        /\ pc' = [t \in Task |-> IF t \in mine THEN "killed" ELSE pc[t]]
        /\ cancelled' = cancelled \ mine
        /\ sessions' = [sessions EXCEPT ![p] = [f \in Profile |-> None]]
        /\ createLocks' = [createLocks EXCEPT ![p] = [f \in Profile |-> None]]
        /\ lockOf' = [t \in Task |-> IF t \in mine THEN None ELSE lockOf[t]]
        /\ waiters' = [t \in Task |-> IF t \in mine THEN <<>> ELSE waiters[t]]
        /\ fileLock' = [f \in Profile |-> IF fileLock[f] \in mine THEN None ELSE fileLock[f]]
        /\ popped' = [t \in Task |-> IF t \in mine THEN None ELSE popped[t]]
        /\ live' = live \ mine
        /\ adrift' = adrift \cup (live \cap mine)

\* A browser left behind goes after all.
Sinks(t) ==
    /\ t \in adrift /\ Home[t] \in Mortal
    /\ adrift' = adrift \ {t}
    /\ UNCHANGED <<pc, cancelled, sessions, createLocks, lockOf, waiters, fileLock, popped, live>>

-----------------------------------------------------------------------------

GetOrCreate(t) == ReturnExisting(t) \/ AskForLock(t)
CloseSession(t) == CloseNothing(t) \/ CloseStarts(t)
Cancel(t) == CancelWaiting(t) \/ CancelUncaught(t) \/ CancelLaunch(t)

\* What a call does by itself once it has begun: what is bound to happen, and
\* the awaits of a launch.
Proceed(t) == Resume(t) \/ StopEnds(t) \/ CloseEnds(t)
Launch(t) == PrepareEnds(t) \/ LaunchEnds(t) \/ OpenEnds(t)

Next ==
    \/ \E t \in Task :
          \/ GetOrCreate(t) \/ CloseSession(t) \/ Proceed(t) \/ Launch(t) \/ Cancel(t)
          \/ Collect(t) \/ Sinks(t)
    \/ \E p \in Proc : Crash(p)

Spec == Init /\ [][Next]_vars

\* The event loop runs, every step of a teardown is under a deadline, and the
\* collector gets to every dead object.  Nothing bounds a launch.
FairSpec == Spec /\ \A t \in Task : WF_vars(Proceed(t)) /\ WF_vars(Collect(t))

-----------------------------------------------------------------------------
(* What a user may rely on. *)

\* Of the browsers that run on a profile all but one are adrift: left behind by a
\* driver stop that failed in silence, by a call cancelled while its first page
\* opened, or by a process that died; over all processes, launches, failures and
\* closes (manager.py:66, docs/profiles.md:77).
OneBrowserPerProfile ==
    \A t, u \in live \cup adrift :
        Target[t] = Target[u] /\ t # u => t \in adrift \/ u \in adrift

\* A session a caller can be handed has its browser, and its profile's OS lock.
SessionsAreAlive ==
    \A p \in Proc, f \in Profile :
        LET s == sessions[p][f] IN s # None => s \in live /\ fileLock[f] = s

\* Every use of a profile runs its course: taken, a browser up, the browser down
\* or adrift, given up, and only then taken again (ExclusiveProfiles).
Exclusive == INSTANCE ExclusiveProfiles WITH
                holder <- fileLock,
                up <- live \cup adrift

ImplementsExclusiveProfiles == Exclusive!Spec

\* Every call ends, however its profile is launched, closed and cancelled around
\* it, unless a launch of that profile in its process never does: no waiter misses
\* its wake-up.
EveryCallEnds ==
    \A t \in Task : pc[t] # "new" ~>
        \/ pc[t] \in Ended
        \/ \E u \in Task : Home[u] = Home[t] /\ Target[u] = Target[t] /\ pc[u] \in Unbounded

\* An OS lock does not outlive its use: it comes to belong to an open session or
\* is released, unless the launch that took it hangs.
LocksComeFree ==
    \A t \in Task, f \in Profile :
        fileLock[f] = t ~>
            \/ fileLock[f] # t \/ pc[t] \in Unbounded
            \/ \E p \in Proc : sessions[p][f] = t
=============================================================================
