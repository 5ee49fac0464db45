------------------------------ MODULE DaemonSpawn ------------------------------
(***************************************************************************)
(* Proxies that make sure a daemon is there (daemon/spawn.py), and the     *)
(* daemons that publish, serve and withdraw the one address of a data dir  *)
(* (daemon/main.py, daemon/endpoint.py): on POSIX two files, the address   *)
(* pointer a daemon writes and the socket uvicorn creates                  *)
(* (endpoint_unix.py); on Windows one, a pointer to a port of the daemon's *)
(* own (endpoint_loopback.py).  Daemons are numbered as they are spawned;  *)
(* 0 is none.                                                              *)
(*                                                                         *)
(* What the machine may do is a parameter each: a daemon may be too busy   *)
(* to answer a probe in time, or too slow to come up or go before a        *)
(* deadline, a proxy may be killed, and a process may be paused between    *)
(* reading the advert and unlinking it.                                    *)
(***************************************************************************)
EXTENDS Integers, FiniteSets

CONSTANTS
    Proxy,
    NoOne,       \* no proxy
    Code,        \* Code[p]: the code and data dir p runs, its DaemonIdentity
    MaxDaemons,  \* bound: daemons ever spawned
    Stalls,      \* may a serving daemon leave a probe unanswered (_PROBE_TIMEOUT_S)?
    Slow,        \* may a daemon outlast _HEALTHY_DEADLINE_S or ADDRESS_REMOVAL_DEADLINE_S?
    KillAt,      \* where a proxy may be killed
    Pauses       \* may a daemon publish while a process is inside cleanup_if_owned?

\* select_endpoint
Platform == {"unix", "loopback"}

Daemon == 1..MaxDaemons
Phase == {"unborn", "booting", "bound", "serving", "closing", "exiting", "unlinking", "gone"}
\* ensure_daemon; spawn_locked up to _wait_healthy, under the lock.
Unlocked == {"looking", "shutting", "waiting", "locking"}
Locked == {"rechecking", "inspecting", "probing", "reclaiming", "unlinking", "popping", "polling"}

ASSUME SpawnConstants ==
    /\ NoOne \notin Proxy
    /\ MaxDaemons \in Nat
    /\ {Stalls, Slow, Pauses} \subseteq BOOLEAN
    /\ KillAt \subseteq Unlocked \cup Locked
    /\ DOMAIN Code = Proxy

VARIABLES
    platform,  \* the endpoint selected
    pointer,   \* who wrote daemon.address, whose inode is its identity, or
               \* daemon.endpoint, whose token is
    socket,    \* who created the socket
    phase,     \* of each daemon
    code,      \* what each daemon runs: its spawner's code
    held,      \* the daemons with a session or a lease
    spawned,   \* how many daemons there have been
    lock,      \* who holds the spawn lock
    pc,        \* of each proxy
    saw        \* the advert_id a proxy inspected in _reclaim_advert

fileVars == <<platform, pointer, socket>>
daemonVars == <<phase, code, held, spawned>>
proxyVars == <<lock, pc, saw>>
vars == <<fileVars, daemonVars, proxyVars>>

\* DaemonEndpoint.advert_id: the pointer's inode, or else the socket's.
NoAdvert == <<"none", 0>>
AdvertId ==
    IF pointer # 0 THEN <<"pointer", pointer>>
    ELSE IF socket # 0 THEN <<"socket", socket>>
    ELSE NoAdvert

\* DaemonEndpoint.resolve: whom a connection made now is for.
Address == IF platform = "unix" THEN socket ELSE pointer

Init ==
    /\ platform \in Platform
    /\ pointer = 0
    /\ socket = 0
    /\ phase = [d \in Daemon |-> "unborn"]
    /\ code = [d \in Daemon |-> NoOne]
    /\ held = {}
    /\ spawned = 0
    /\ lock = NoOne
    /\ pc = [p \in Proxy |-> "idle"]
    /\ saw = [p \in Proxy |-> NoAdvert]

-----------------------------------------------------------------------------
(* A daemon, from its first instruction to its last. *)

Enters(d, where) == phase' = [phase EXCEPT ![d] = where]

\* Who has found that the advert is its own to unlink, and has not yet.
Unlinking == {d \in Daemon : phase[d] = "unlinking"} \cup {p \in Proxy : pc[p] = "unlinking"}

\* publish_advert replaces the file, under a new inode or with a new token.
Publishes(d) == pointer' = d

\* DaemonEndpoint.bind
Bind(d) ==
    /\ phase[d] = "booting"
    /\ Pauses \/ Unlinking = {}
    /\ Enters(d, "bound")
    /\ Publishes(d)
    /\ UNCHANGED <<platform, socket, code, held, spawned, proxyVars>>

\* asyncio removes whatever socket is at the path, then creates its own; a port is
\* its own from the start.
Listen(d) ==
    /\ phase[d] = "bound"
    /\ Enters(d, "serving")
    /\ socket' = IF platform = "unix" THEN d ELSE socket
    /\ UNCHANGED <<platform, pointer, code, held, spawned, proxyVars>>

\* A conversation reaches the daemon: it takes a lease, it opens a session.
Hold(d) ==
    /\ phase[d] = "serving"
    /\ Address = d
    /\ held' = held \cup {d}
    /\ UNCHANGED <<fileVars, phase, code, spawned, proxyVars>>

LetGo(d) ==
    /\ held' = held \ {d}
    /\ UNCHANGED <<fileVars, phase, code, spawned, proxyVars>>

\* The idle watchdog.
GoIdle(d) ==
    /\ phase[d] = "serving"
    /\ d \notin held
    /\ Enters(d, "closing")
    /\ UNCHANGED <<fileVars, code, held, spawned, proxyVars>>

\* uvicorn stops; asyncio removes the closed socket from Python 3.13 on.
StopServing(d) ==
    /\ phase[d] = "closing"
    /\ Enters(d, "exiting")
    /\ socket' \in {socket} \cup (IF socket = d THEN {0} ELSE {})
    /\ UNCHANGED <<platform, pointer, code, held, spawned, proxyVars>>

\* DaemonEndpoint.cleanup_if_owned, and what _cleanup unlinks.
Owns(id) == AdvertId \in {NoAdvert, id}
Unlink == pointer' = 0 /\ socket' = 0 /\ UNCHANGED platform

\* Fault: whatever is published is withdrawn.
Release_Fault(d) ==
    /\ phase[d] = "exiting"
    /\ Enters(d, "unlinking")
    /\ UNCHANGED <<fileVars, code, held, spawned, proxyVars>>

\* _release_advert, in the signal handler of cleanup_on_termination.
Release(d) ==
    /\ phase[d] = "exiting"
    /\ Enters(d, IF Owns(<<"pointer", d>>) THEN "unlinking" ELSE "gone")
    /\ UNCHANGED <<fileVars, code, held, spawned, proxyVars>>

ReleaseUnlinks(d) ==
    /\ phase[d] = "unlinking"
    /\ Enters(d, "gone")
    /\ Unlink
    /\ UNCHANGED <<code, held, spawned, proxyVars>>

\* Killed, it leaves its files behind.
Crash(d) ==
    /\ phase[d] \notin {"unborn", "gone"}
    /\ Enters(d, "gone")
    /\ held' = held \ {d}
    /\ UNCHANGED <<fileVars, code, spawned, proxyVars>>

-----------------------------------------------------------------------------
(* What a proxy sees of the daemon. *)

Answering ==
    IF Address # 0 /\ phase[Address] \in {"serving", "closing"} THEN Address ELSE 0

\* probe_health: who answers, if anyone.
Probed == {Answering} \cup (IF Stalls THEN {0} ELSE {})

Matches(p, d) == d # 0 /\ code[d] = Code[p]
Closing(d) == d # 0 /\ phase[d] = "closing"

-----------------------------------------------------------------------------
(* ensure_daemon *)

Goto(p, where) == pc' = [pc EXCEPT ![p] = where]
\* With a daemon of its code, with another one it reuses, or with an error.
Returns(p) == Goto(p, "idle")

Ensure(p) ==
    /\ pc[p] = "idle"
    /\ Goto(p, "looking")
    /\ UNCHANGED <<fileVars, daemonVars, lock, saw>>

Look(p) ==
    /\ pc[p] = "looking"
    /\ \E d \in Probed :
          Goto(p, IF d = 0 THEN "locking"
                  ELSE IF Closing(d) THEN "waiting"
                  ELSE IF Matches(p, d) \/ d \in held THEN "idle"
                  ELSE "shutting")
    /\ UNCHANGED <<fileVars, daemonVars, lock, saw>>

\* _request_shutdown: POST /shutdown to whoever is at the address by now, who
\* refuses it while it is held.
RequestShutdown(p) ==
    /\ pc[p] = "shutting"
    /\ Goto(p, "waiting")
    /\ \/ /\ Answering # 0
          /\ phase' = [phase EXCEPT ![Answering] = IF Answering \in held THEN @ ELSE "closing"]
       \/ 0 \in Probed /\ UNCHANGED phase
    /\ UNCHANGED <<fileVars, code, held, spawned, lock, saw>>

\* _wait_unpublished: until the address is gone, or the deadline.
Leaving == Address # 0 /\ phase[Address] \in {"closing", "exiting", "unlinking"}
WaitUnpublished(p) ==
    /\ pc[p] = "waiting"
    /\ Leaving => Slow
    /\ Goto(p, "locking")
    /\ UNCHANGED <<fileVars, daemonVars, lock, saw>>

-----------------------------------------------------------------------------
(* spawn_locked *)

\* Fault: no lock is waited for.
Acquire_Fault(p) ==
    /\ pc[p] = "locking"
    /\ lock' = p
    /\ Goto(p, "rechecking")
    /\ UNCHANGED <<fileVars, daemonVars, saw>>

Acquire(p) ==
    /\ pc[p] = "locking"
    /\ lock = NoOne
    /\ lock' = p
    /\ Goto(p, "rechecking")
    /\ UNCHANGED <<fileVars, daemonVars, saw>>

LockTimesOut(p) ==
    /\ pc[p] = "locking"
    /\ lock # NoOne
    /\ Returns(p)
    /\ UNCHANGED <<fileVars, daemonVars, lock, saw>>

\* The finally of spawn_locked.
Leaves(p) == Returns(p) /\ lock' = NoOne

\* _reclaim_advert returns.
Forgets(p) == saw' = [saw EXCEPT ![p] = NoAdvert]

Recheck(p) ==
    /\ pc[p] = "rechecking"
    /\ \E d \in Probed :
          IF Matches(p, d) /\ ~Closing(d)
          THEN Leaves(p)
          ELSE Goto(p, "inspecting") /\ UNCHANGED lock
    /\ UNCHANGED <<fileVars, daemonVars, saw>>

\* _reclaim_advert: the advert, then a probe of it, then its removal if it is
\* still the one inspected.
Inspect(p) ==
    /\ pc[p] = "inspecting"
    /\ saw' = [saw EXCEPT ![p] = AdvertId]
    /\ Goto(p, IF AdvertId = NoAdvert THEN "popping" ELSE "probing")
    /\ UNCHANGED <<fileVars, daemonVars, lock>>

Probe(p) ==
    /\ pc[p] = "probing"
    /\ \E d \in Probed :
          IF d # 0
          THEN Leaves(p) /\ Forgets(p)
          ELSE Goto(p, "reclaiming") /\ UNCHANGED <<lock, saw>>
    /\ UNCHANGED <<fileVars, daemonVars>>

Reclaim(p) ==
    /\ pc[p] = "reclaiming"
    /\ IF Owns(saw[p])
       THEN Goto(p, "unlinking") /\ UNCHANGED lock
       ELSE Leaves(p)
    /\ Forgets(p)
    /\ UNCHANGED <<fileVars, daemonVars>>

ReclaimUnlinks(p) ==
    /\ pc[p] = "unlinking"
    /\ Goto(p, "popping")
    /\ Unlink
    /\ UNCHANGED <<daemonVars, lock, saw>>

\* _popen_daemon, which may raise.
Popen(p) ==
    /\ pc[p] = "popping"
    /\ \/ /\ spawned < MaxDaemons
          /\ spawned' = spawned + 1
          /\ Enters(spawned', "booting")
          /\ code' = [code EXCEPT ![spawned'] = Code[p]]
          /\ Goto(p, "polling")
          /\ UNCHANGED lock
       \/ Leaves(p) /\ UNCHANGED <<phase, code, spawned>>
    /\ UNCHANGED <<fileVars, held, saw>>

\* _wait_healthy: until a daemon of this code answers, or the deadline.
Healthy(p) ==
    /\ pc[p] = "polling"
    /\ Matches(p, Answering)
    /\ Leaves(p)
    /\ UNCHANGED <<fileVars, daemonVars, saw>>

StartsUp(d) == phase[d] \in {"booting", "bound"}
\* Fault: a raise skips the release of the lock.
HealthyTimesOut_Fault(p) ==
    /\ pc[p] = "polling"
    /\ Matches(p, Answering) \/ (\E d \in Daemon : StartsUp(d) /\ Matches(p, d)) => Slow
    /\ Returns(p)
    /\ UNCHANGED <<fileVars, daemonVars, lock, saw>>
HealthyTimesOut(p) ==
    /\ pc[p] = "polling"
    /\ Matches(p, Answering) \/ (\E d \in Daemon : StartsUp(d) /\ Matches(p, d)) => Slow
    /\ Leaves(p)
    /\ UNCHANGED <<fileVars, daemonVars, saw>>

\* The operating system frees the lock of a proxy that is killed.
Killed(p) ==
    /\ pc[p] \in KillAt
    /\ Goto(p, "killed")
    /\ lock' = IF lock = p THEN NoOne ELSE lock
    /\ Forgets(p)
    /\ UNCHANGED <<fileVars, daemonVars>>

-----------------------------------------------------------------------------

\* A daemon comes up, and once it is closing it goes.
Lives(d) == Bind(d) \/ Listen(d) \/ StopServing(d) \/ Release(d) \/ ReleaseUnlinks(d)
\* A proxy goes on.
Steps(p) ==
    \/ Look(p) \/ RequestShutdown(p) \/ WaitUnpublished(p) \/ Acquire(p)
    \/ Recheck(p) \/ Inspect(p) \/ Probe(p) \/ Reclaim(p) \/ ReclaimUnlinks(p)
    \/ Popen(p) \/ Healthy(p) \/ HealthyTimesOut(p)

Next ==
    \/ \E d \in Daemon : Lives(d) \/ Hold(d) \/ LetGo(d) \/ GoIdle(d) \/ Crash(d)
    \/ \E p \in Proxy : Ensure(p) \/ Steps(p) \/ LockTimesOut(p) \/ Killed(p)

Spec == Init /\ [][Next]_vars

\* Processes run, and every wait of a proxy has a deadline.
FairSpec ==
    /\ Spec
    /\ \A d \in Daemon : WF_vars(Lives(d))
    /\ \A p \in Proxy : WF_vars(Steps(p))

-----------------------------------------------------------------------------
(* What the protocol promises. *)

\* Concurrent proxies never double-spawn (spawn.py:37): of the daemons not on
\* their way out, there is one.
OneDaemon ==
    \A d, e \in Daemon :
        {phase[d], phase[e]} \subseteq {"booting", "bound", "serving"} => d = e

\* A daemon that serves is the advertised one, by every file there is: it can be
\* reached, and its own release will remove them.
Advertised == \A d \in Daemon : phase[d] = "serving" => Address = d /\ pointer = d

\* The spawn lock is always given back: no proxy waits behind one that stopped
\* (spawn.py, the finally of spawn_locked).
LockComesFree == lock # NoOne ~> lock = NoOne
=============================================================================
