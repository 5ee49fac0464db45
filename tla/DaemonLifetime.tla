---------------------------- MODULE DaemonLifetime ----------------------------
(***************************************************************************)
(* When a daemon may exit: the idle watchdog (daemon/lifecycle.py), the    *)
(* suspend detector (daemon/suspend.py), the activity middleware, the      *)
(* /health and /shutdown routes (daemon/routes.py) and the lease routes,   *)
(* over the lease table.  All of it runs on one event loop, so a handler   *)
(* without an await is one step.                                           *)
(*                                                                         *)
(* The machine may sleep at any moment, for any time.  The monotonic clock *)
(* either counts the sleep (Windows, a stopped process: Suspend ... Wake)  *)
(* or does not (Linux, macOS: only the wall clock jumps, WallStep).        *)
(***************************************************************************)
EXTENDS LeaseTable

CONSTANTS
    Ttl,          \* config.daemon_ttl_seconds
    Interval,     \* the watchdog's check interval
    Slack,        \* DEFAULT_SLACK_S
    WallSteps,    \* by how much the wall clock may jump against the monotonic one
    MaxInflight,  \* bound: requests at once
    MaxSessions   \* bound: browser sessions at once

ASSUME LifetimeConstants ==
    /\ Ttl \in Nat \ {0}
    /\ Interval \in Nat \ {0}
    /\ Slack \in Nat
    /\ WallSteps \subseteq Int
    /\ MaxInflight \in Nat
    /\ MaxSessions \in Nat

VARIABLES
    last_activity,  \* ActivityState.last_activity
    inflight,       \* ActivityState.inflight
    sessions,       \* SessionManager.active_count()
    last_mono,      \* SuspendDetector._last_mono: when the watchdog last ran
    wall_ahead,     \* wall minus monotonic time passed since then
    asleep,         \* the machine is suspended (and its monotonic clock counts)
    closed_by,      \* who made the daemon close: nobody, watchdog, shutdown, force
    \* History, read by no action.
    promised,       \* until when each proxy was told its lease holds
    lastNeeded,     \* the last instant anything needed the daemon
    dozing          \* the proxies whose lease lapsed in a sleep since the watchdog ran

serverVars == <<last_activity, inflight, sessions>>
watchVars == <<last_mono, wall_ahead, asleep>>
historyVars == <<promised, lastNeeded, dozing>>
vars == <<now, tableVars, serverVars, watchVars, closed_by, historyVars>>

TypeOK ==
    /\ TableTypeOK
    /\ last_activity \in Nat
    /\ inflight \in Nat
    /\ sessions \in Nat
    /\ last_mono \in Nat
    /\ wall_ahead \in Int
    /\ asleep \in BOOLEAN
    /\ closed_by \in {"nobody", "watchdog", "shutdown", "force"}
    /\ promised \in [Proxy -> Nat]
    /\ lastNeeded \in Nat
    /\ dozing \subseteq Proxy

Init ==
    /\ TableInit
    /\ last_activity = 0
    /\ inflight = 0
    /\ sessions = 0
    /\ last_mono = 0
    /\ wall_ahead = 0
    /\ asleep = FALSE
    /\ closed_by = "nobody"
    /\ promised = [p \in Proxy |-> 0]
    /\ lastNeeded = 0
    /\ dozing = {}

-----------------------------------------------------------------------------
(* Time. *)

Promised == {p \in Proxy : promised[p] > now}
Busy == inflight > 0 \/ sessions > 0
Needed == Busy \/ Promised # {}

\* A second passes, awake or asleep.
Tick ==
    /\ TableTick
    /\ lastNeeded' = IF Needed THEN now + 1 ELSE lastNeeded
    /\ dozing' = IF asleep THEN dozing \cup {p \in Promised : promised[p] = now + 1} ELSE dozing
    /\ UNCHANGED <<serverVars, watchVars, closed_by, promised>>

Suspend ==
    /\ ~asleep
    /\ asleep' = TRUE
    /\ UNCHANGED <<now, tableVars, serverVars, last_mono, wall_ahead, closed_by, historyVars>>

Wake ==
    /\ asleep
    /\ asleep' = FALSE
    /\ UNCHANGED <<now, tableVars, serverVars, last_mono, wall_ahead, closed_by, historyVars>>

\* A sleep the monotonic clock does not count, or a clock stepped by NTP.
WallStep(d) ==
    /\ wall_ahead = 0
    /\ wall_ahead' = d
    /\ UNCHANGED <<now, tableVars, serverVars, last_mono, asleep, closed_by, historyVars>>

-----------------------------------------------------------------------------
(* The routes. *)

\* POST /lease; the answer tells the proxy its lease holds for the granted ttl.
LeaseGranted(p, asked) ==
    /\ Grant(p, asked)
    /\ promised' = [promised EXCEPT ![p] = expires_at'[p]]
    /\ lastNeeded' = now
    /\ dozing' = dozing \ {p}
    /\ UNCHANGED <<serverVars, watchVars, closed_by>>

\* POST /lease answered 429, or GET /health: both only prune.
LeaseRefusedOrHealth ==
    /\ Prune \/ \E p \in Proxy : GrantOverLimit(p)
    /\ UNCHANGED <<serverVars, watchVars, closed_by, historyVars>>

\* DELETE /lease/{id}: a proxy that goes, and needs the daemon no more.
LeaseReleased(p) ==
    /\ Release(p)
    /\ promised' = [promised EXCEPT ![p] = 0]
    /\ dozing' = dozing \ {p}
    /\ UNCHANGED <<serverVars, watchVars, closed_by, lastNeeded>>

\* POST /shutdown: refused while a session is open or a lease is live, unless
\* forced.  live_count() prunes either way.
Shutdown(force) ==
    /\ Keep(Unexpired)
    /\ PruneVacates
    /\ IF (sessions > 0 \/ Unexpired # {}) /\ ~force
       THEN UNCHANGED <<closed, closed_by>>
       ELSE /\ closed' = TRUE
            /\ closed_by' = IF closed_by # "nobody" THEN closed_by
                            ELSE IF force THEN "force" ELSE "shutdown"
    /\ UNCHANGED <<now, serverVars, watchVars, historyVars>>

\* ActivityTracker.on_message, on the way in and on the way out.
RequestStart ==
    /\ inflight < MaxInflight
    /\ inflight' = inflight + 1
    /\ last_activity' = now
    /\ lastNeeded' = now
    /\ UNCHANGED <<now, tableVars, sessions, watchVars, closed_by, promised, dozing>>

\* Fault: the counter is decremented twice.
RequestEnd_Twice ==
    /\ inflight > 0
    /\ inflight' = inflight - 2
    /\ last_activity' = now
    /\ lastNeeded' = now
    /\ UNCHANGED <<now, tableVars, sessions, watchVars, closed_by, promised, dozing>>

RequestEnd ==
    /\ inflight > 0
    /\ inflight' = inflight - 1
    /\ last_activity' = now
    /\ lastNeeded' = now
    /\ UNCHANGED <<now, tableVars, sessions, watchVars, closed_by, promised, dozing>>

\* Sessions open and close inside a request.
SessionsChange ==
    /\ inflight > 0
    /\ \/ sessions < MaxSessions /\ sessions' = sessions + 1
       \/ sessions > 0 /\ sessions' = sessions - 1
    /\ UNCHANGED <<now, tableVars, last_activity, inflight, watchVars, closed_by, historyVars>>

-----------------------------------------------------------------------------
(* The watchdog.  It sleeps Interval and then looks; the loop may be late. *)

Due == now >= last_mono + Interval /\ closed_by # "watchdog"

\* SuspendDetector.tick() is true.
SawSuspend == wall_ahead > Slack \/ now - last_mono > Interval + Slack

Ticked ==
    /\ last_mono' = now
    /\ wall_ahead' = 0
    /\ UNCHANGED asleep

WatchdogResumes ==
    /\ Due
    /\ SawSuspend
    /\ RefreshAll
    /\ last_activity' = now
    /\ promised' = [p \in Proxy |-> IF p \in held THEN expires_at'[p] ELSE promised[p]]
    /\ lastNeeded' = now
    /\ dozing' = {}
    /\ Ticked
    /\ UNCHANGED <<inflight, sessions, closed_by>>

\* Somebody needs the daemon: live_count() is reached, and prunes, only when
\* there is neither a session nor a request.
WatchdogSeesNeed ==
    /\ Due
    /\ ~SawSuspend
    /\ Busy \/ Unexpired # {}
    /\ IF Busy THEN UNCHANGED <<now, tableVars>> ELSE Prune
    /\ Ticked
    /\ dozing' = {}
    /\ UNCHANGED <<serverVars, closed_by, promised, lastNeeded>>

\* Fault: the TTL is counted from the last request, whoever was connected since.
WatchdogIdle_IgnoresVacated ==
    /\ Due
    /\ ~SawSuspend
    /\ ~Busy
    /\ Unexpired = {}
    /\ Keep(Unexpired)
    /\ PruneVacates
    /\ IF now - last_activity > Ttl
       THEN /\ closed' = TRUE
            /\ closed_by' = IF closed_by = "nobody" THEN "watchdog" ELSE closed_by
       ELSE UNCHANGED <<closed, closed_by>>
    /\ Ticked
    /\ dozing' = {}
    /\ UNCHANGED <<now, serverVars, promised, lastNeeded>>

\* Fault: quiet time starts over each time the watchdog looks.
WatchdogIdle_StartsOver ==
    /\ Due
    /\ ~SawSuspend
    /\ ~Busy
    /\ Unexpired = {}
    /\ Keep(Unexpired)
    /\ PruneVacates
    /\ IF now - last_mono > Ttl
       THEN /\ closed' = TRUE
            /\ closed_by' = IF closed_by = "nobody" THEN "watchdog" ELSE closed_by
       ELSE UNCHANGED <<closed, closed_by>>
    /\ Ticked
    /\ dozing' = {}
    /\ UNCHANGED <<now, serverVars, promised, lastNeeded>>

WatchdogIdle ==
    /\ Due
    /\ ~SawSuspend
    /\ ~Busy
    /\ Unexpired = {}
    /\ Keep(Unexpired)
    /\ PruneVacates
    /\ IF now - Larger(last_activity, vacated_at') > Ttl
       THEN /\ closed' = TRUE
            /\ closed_by' = IF closed_by = "nobody" THEN "watchdog" ELSE closed_by
       ELSE UNCHANGED <<closed, closed_by>>
    /\ Ticked
    /\ dozing' = {}
    /\ UNCHANGED <<now, serverVars, promised, lastNeeded>>

-----------------------------------------------------------------------------

Handler ==
    \/ \E p \in Proxy, asked \in AskedTtl : LeaseGranted(p, asked)
    \/ \E p \in Proxy : LeaseReleased(p)
    \/ LeaseRefusedOrHealth
    \/ \E force \in BOOLEAN : Shutdown(force)
    \/ RequestStart
    \/ RequestEnd
    \/ SessionsChange
    \/ WatchdogResumes
    \/ WatchdogSeesNeed
    \/ WatchdogIdle

Next ==
    \/ Tick
    \/ Suspend
    \/ Wake
    \/ \E d \in WallSteps : WallStep(d)
    \/ ~asleep /\ Handler

Spec == Init /\ [][Next]_vars

-----------------------------------------------------------------------------
(* What is promised to a proxy and to a user. *)

\* A daemon that closed of its own accord, or was asked to without force, has
\* told no proxy that a lease holds longer than now: not before the decision,
\* and not after it (leases.py close, routes.py /shutdown, lifecycle.py:169).
NoProxyMisled ==
    closed_by \in {"watchdog", "shutdown"} => Promised = {}

\* The watchdog closes the daemon only once nothing (no request, session or
\* lease a proxy was told it holds) has needed it for more than the whole TTL
\* (lifecycle.py idle_watchdog).
ClosesOnlyWhenUnneeded ==
    [][closed_by # "watchdog" /\ closed_by' = "watchdog" => now - lastNeeded > Ttl]_vars

\* And it does close: while the watchdog runs on time, an open daemon was
\* needed within the TTL and one (slack) interval (lifecycle.py idle_watchdog:
\* "a daemon nobody is connected to still goes").
NeverOverstays ==
    ~closed /\ now - last_mono <= Interval + Slack
        => now - lastNeeded <= Ttl + Interval + Slack
=============================================================================
