---------------------------- MODULE DaemonRecovery ----------------------------
(***************************************************************************)
(* One proxy in front of daemons that die and are replaced: the lease it   *)
(* holds (daemon/lease.py, daemon/lease_client.py) and the middleware that *)
(* repairs and reports a lost daemon (daemon/recovery.py).                 *)
(*                                                                         *)
(* Daemons are numbered in the order they are spawned; 0 is none.  A       *)
(* renewal is one step: what the daemon answers and what the proxy makes   *)
(* of it, up to the next await.  A request is one MCP request of the       *)
(* client, from the middleware's first step to its outcome.                *)
(***************************************************************************)
EXTENDS Integers, FiniteSets

CONSTANTS
    Request,     \* the requests of the client
    Kind,        \* Kind[r] is "opening" (initialize), "list", "note" (a notification) or "call"
    MaxDaemons,  \* bound: daemons ever spawned
    Silence,     \* may a living daemon fail to give a verdict (a timeout, a 5xx)?
    RefuseAt,    \* where a living daemon may refuse a renewal (a full accept backlog)
    CancelAt     \* where the client may cancel a request

Outcomes == {"answered", "restarted", "unrecovered", "failed", "cancelled"}
\* Awaiting the daemon; then the stages of a respawn, in DaemonRecovery.respawn,
\* adopt_current and _drop_dead_backend.
Forwarded == {"sent", "running"}
Respawning == {"locking", "ensuring", "rechecking", "adopting", "dropping"}
Awaiting == Forwarded \cup Respawning \cup {"failing", "abandoning", "clearing"}
PC == {"new", "precheck"} \cup Awaiting \cup Outcomes

ASSUME RecoveryConstants ==
    /\ Kind \in [Request -> {"opening", "list", "note", "call"}]
    /\ MaxDaemons \in Nat \ {0}
    /\ Silence \in BOOLEAN
    /\ RefuseAt \subseteq PC
    /\ CancelAt \subseteq Awaiting

VARIABLES
    daemon,     \* the daemon at the address
    closing,    \* it has decided to exit, and has not yet
    spawned,    \* how many daemons there have been
    bound,      \* DaemonLease._bound
    notice,     \* DaemonLease._notice_pending
    recent,     \* the last respawn attempt is less than the cooldown ago
    pc,
    sent_to,    \* the daemon a request was sent to, as on_message remembers it
    landed,     \* the daemon it did reach
    refusals,   \* confirmations, in _call_watched
    repairs,    \* requests that a respawn does not end: the precheck of a silent one
    \* History, read by no action.
    visited,    \* the daemons that answered a call, and that the lease still knew of
    covers,     \* the losses a request will report
    reported,   \* the losses reported to the client
    knew,       \* the losses reported when a request began
    hinted,     \* the pending notice is that of a silent repair
    alarmed     \* requests that took a refusal of a living daemon for its end

proxyVars == <<bound, notice, hinted, recent>>
worldVars == <<daemon, closing, spawned>>
requestVars == <<pc, sent_to, landed, refusals, repairs>>
historyVars == <<visited, covers, reported, knew, alarmed>>
vars == <<worldVars, proxyVars, requestVars, historyVars>>

Daemon == 1..MaxDaemons
Reports(r) == Kind[r] = "call"

NoneLives == daemon = 0 \/ closing

\* The lifespan has renewed the lease once, on a daemon that may have died since
\* ensure_daemon.
Init ==
    /\ daemon \in {0, 1}
    /\ bound \in (IF daemon = 1 THEN {1} ELSE {}) \cup (IF daemon = 0 \/ Silence THEN {0} ELSE {})
    /\ closing = FALSE
    /\ spawned = 1
    /\ notice = FALSE
    /\ recent = FALSE
    /\ pc = [r \in Request |-> "new"]
    /\ sent_to = [r \in Request |-> 0]
    /\ landed = [r \in Request |-> 0]
    /\ refusals = [r \in Request |-> 0]
    /\ repairs = {}
    /\ visited = {}
    /\ covers = [r \in Request |-> 0]
    /\ reported = 0
    /\ knew = [r \in Request |-> 0]
    /\ hinted = FALSE
    /\ alarmed = {}

-----------------------------------------------------------------------------
(* The daemons. *)

Die ==
    /\ daemon # 0
    /\ daemon' = 0
    /\ closing' = FALSE
    /\ UNCHANGED <<spawned, proxyVars, requestVars, historyVars>>

BeginClosing ==
    /\ daemon # 0
    /\ closing' = TRUE
    /\ UNCHANGED <<daemon, spawned, proxyVars, requestVars, historyVars>>

Spawn ==
    /\ daemon = 0
    /\ spawned < MaxDaemons
    /\ spawned' = spawned + 1
    /\ daemon' = spawned + 1
    /\ UNCHANGED closing

\* Another proxy finds the daemon gone and spawns one.
OtherProxySpawns == Spawn /\ UNCHANGED <<proxyVars, requestVars, historyVars>>

-----------------------------------------------------------------------------
(* The lease. *)

\* What LeaseClient.renew can tell.
Verdicts ==
    (IF NoneLives THEN {"gone"} ELSE {"alive"})
        \cup (IF Silence /\ daemon # 0 THEN {"unknown"} ELSE {})

\* What it tells a request.
VerdictsFor(r) == Verdicts \cup (IF pc[r] \in RefuseAt THEN {"gone"} ELSE {})

\* DaemonLease.check and _observe: bound, and whether a notice is raised.
Observed(verdict) == IF verdict = "alive" THEN daemon ELSE bound
Raises(verdict) == verdict = "alive" /\ bound \notin {0, daemon}

\* Fault: the flag is overwritten by each renewal.
Check_Fault(verdict) ==
    /\ bound' = Observed(verdict)
    /\ notice' = Raises(verdict)
    /\ hinted' = FALSE

Check(verdict) ==
    /\ bound' = Observed(verdict)
    /\ notice' = (notice \/ Raises(verdict))
    /\ hinted' = (hinted /\ ~Raises(verdict))

\* A renewal tells a request that its daemon is gone.
Alarms(r) == alarmed' = IF NoneLives THEN alarmed ELSE alarmed \cup {r}

Heartbeat ==
    /\ \E verdict \in Verdicts : Check(verdict)
    /\ UNCHANGED <<worldVars, recent, requestVars, historyVars>>

\* DaemonRecoveryMiddleware._moved.
Moved(r) == sent_to[r] # 0 /\ bound # 0 /\ bound # sent_to[r]

-----------------------------------------------------------------------------
(* on_message: before the request is forwarded. *)

Goto(r, where) == pc' = [pc EXCEPT ![r] = where]

\* The client does not send anything before initialize is answered.  A notification
\* is no request, and is forwarded without a look at the daemon.
Begin(r) ==
    /\ pc[r] = "new"
    /\ Kind[r] # "opening" => \A o \in Request : Kind[o] = "opening" => pc[o] = "answered"
    /\ IF Kind[r] = "note"
       THEN Goto(r, "sent") /\ sent_to' = [sent_to EXCEPT ![r] = bound]
       ELSE Goto(r, "precheck") /\ UNCHANGED sent_to
    /\ knew' = [knew EXCEPT ![r] = reported]
    /\ UNCHANGED <<worldVars, proxyVars, landed, refusals, repairs, visited, covers, reported, alarmed>>

\* From here on the request is to report every daemon before the one it found.
Covers(r, found) == covers' = [covers EXCEPT ![r] = found - 1]

\* The outcome a caller sees as "the daemon died and has been restarted".  A call
\* that ends unrecovered reports nothing: there is no daemon yet to go on with, and
\* the loss is told again by the call that finds one.
Report(r) ==
    /\ Goto(r, "restarted")
    /\ IF Reports(r)
       THEN /\ visited' = visited \ 1..covers'[r]
            /\ reported' = IF covers'[r] > reported THEN covers'[r] ELSE reported
       ELSE UNCHANGED <<visited, reported>>
    /\ UNCHANGED <<knew, alarmed>>

\* _precheck with no daemon there.
PrecheckFindsNone(r) ==
    /\ pc[r] = "precheck"
    /\ "gone" \in VerdictsFor(r)
    /\ Goto(r, "locking")
    /\ repairs' = IF Reports(r) THEN repairs ELSE repairs \cup {r}
    /\ Alarms(r)
    /\ UNCHANGED <<worldVars, proxyVars, sent_to, landed, refusals, visited, covers, reported, knew>>

\* _precheck with a daemon, or no verdict.  Only a call is stopped by a pending
\* notice, and initialize drops it.
PrecheckPasses(r) ==
    /\ pc[r] = "precheck"
    /\ \E verdict \in VerdictsFor(r) \ {"gone"} :
          LET pending == notice \/ Raises(verdict)
          IN  /\ bound' = Observed(verdict)
              /\ notice' = (pending /\ Kind[r] # "opening" /\ ~Reports(r))
              /\ hinted' = (hinted /\ notice' /\ ~Raises(verdict))
              /\ IF pending /\ Reports(r)
                 THEN Covers(r, bound') /\ Report(r) /\ UNCHANGED sent_to
                 ELSE /\ Goto(r, "sent")
                      /\ sent_to' = [sent_to EXCEPT ![r] = Observed(verdict)]
                      /\ UNCHANGED historyVars
    /\ UNCHANGED <<worldVars, recent, landed, refusals, repairs>>

-----------------------------------------------------------------------------
(* on_message: while the request is outstanding. *)

Lands(r) ==
    /\ pc[r] = "sent"
    /\ daemon # 0
    /\ Goto(r, "running")
    /\ landed' = [landed EXCEPT ![r] = daemon]
    /\ UNCHANGED <<worldVars, proxyVars, sent_to, refusals, repairs, historyVars>>

\* _call_watched is over.
Unwatched(r) ==
    /\ landed' = [landed EXCEPT ![r] = 0]
    /\ refusals' = [refusals EXCEPT ![r] = 0]

\* on_message has no more use for sent_to.
Forgets(r) == sent_to' = [sent_to EXCEPT ![r] = 0]

Answered(r) ==
    /\ pc[r] = "running"
    /\ landed[r] = daemon
    /\ Goto(r, "answered")
    /\ visited' = IF Reports(r) /\ bound # 0 THEN visited \cup {daemon} ELSE visited
    /\ Unwatched(r) /\ Forgets(r)
    /\ UNCHANGED <<worldVars, proxyVars, repairs, covers, reported, knew, alarmed>>

\* The request raises: the daemon refuses it, the connection breaks, the client
\* is cleared by another request.  A daemon that dies with it raises nothing.
Raised(r) ==
    /\ pc[r] \in Forwarded
    /\ Goto(r, "failing")
    /\ Unwatched(r)
    /\ UNCHANGED <<worldVars, proxyVars, sent_to, repairs, historyVars>>

\* Fault: a replaced daemon is not looked for.
Finds_Blind(r, verdict) ==
    LET n == IF verdict = "gone" THEN refusals[r] + 1 ELSE 0
    IN  /\ n = 2 => NoneLives
        /\ Check(verdict)
        /\ IF n = 2
           THEN Goto(r, "abandoning") /\ Unwatched(r)
           ELSE refusals' = [refusals EXCEPT ![r] = n] /\ UNCHANGED <<pc, landed>>

\* One turn of _call_watched: the request is given up after two refusals in a row
\* or once its daemon was replaced.  A backlog is no longer full an interval later,
\* so a second refusal is real.
Finds(r, verdict) ==
    LET n == IF verdict = "gone" THEN refusals[r] + 1 ELSE 0
    IN  /\ n = 2 => NoneLives
        /\ Check(verdict)
        /\ IF n = 2 \/ (sent_to[r] # 0 /\ bound' \notin {0, sent_to[r]})
           THEN Goto(r, "abandoning") /\ Unwatched(r)
           ELSE refusals' = [refusals EXCEPT ![r] = n] /\ UNCHANGED <<pc, landed>>

Watch(r) ==
    /\ pc[r] \in Forwarded
    /\ \E verdict \in VerdictsFor(r) : Finds(r, verdict)
    /\ UNCHANGED <<worldVars, recent, sent_to, repairs, historyVars>>

\* _replaced(drop=True), once _moved: the notice is taken, the cached client
\* cleared; otherwise _recover.
ReplacedOrRecover(r, moved) ==
    /\ Goto(r, IF moved THEN "clearing" ELSE "locking")
    /\ IF moved THEN Covers(r, bound') ELSE UNCHANGED covers
    /\ Forgets(r)
    /\ UNCHANGED <<worldVars, recent, landed, refusals, repairs, visited, reported, knew>>

\* _abandon is over: except _DaemonVanishedError.
Vanished(r) ==
    /\ pc[r] = "abandoning"
    /\ notice' = (notice /\ ~(Moved(r) /\ Reports(r)))
    /\ hinted' = (hinted /\ notice')
    /\ UNCHANGED <<bound, alarmed>>
    /\ ReplacedOrRecover(r, Moved(r))

\* except Exception: the daemon is checked, and the error goes up unchanged when
\* it is still the one.
FailureIsLost(r) ==
    /\ pc[r] = "failing"
    /\ \E verdict \in VerdictsFor(r) :
          LET moved == verdict # "gone" /\ sent_to[r] # 0 /\ Observed(verdict) \notin {0, sent_to[r]}
          IN  /\ verdict = "gone" \/ moved
              /\ bound' = Observed(verdict)
              /\ notice' = ((notice \/ Raises(verdict)) /\ ~(moved /\ Reports(r)))
              /\ hinted' = (hinted /\ notice' /\ ~Raises(verdict))
              /\ IF moved THEN UNCHANGED alarmed ELSE Alarms(r)
              /\ ReplacedOrRecover(r, moved)

FailureIsItsOwn(r) ==
    /\ pc[r] = "failing"
    /\ \E verdict \in VerdictsFor(r) \ {"gone"} :
          /\ sent_to[r] = 0 \/ Observed(verdict) \in {0, sent_to[r]}
          /\ Check(verdict)
    /\ Goto(r, "failed")
    /\ Forgets(r)
    /\ UNCHANGED <<worldVars, recent, landed, refusals, repairs, historyVars>>

Cleared(r) ==
    /\ pc[r] = "clearing"
    /\ UNCHANGED covers
    /\ Report(r)
    /\ UNCHANGED <<worldVars, proxyVars, sent_to, landed, refusals, repairs>>

-----------------------------------------------------------------------------
(* DaemonRecovery.respawn, and what follows it. *)

TakeLock(r) ==
    /\ pc[r] = "locking"
    /\ \A s \in Request : pc[s] \notin {"ensuring", "rechecking"}
    /\ Goto(r, IF recent THEN "rechecking" ELSE "ensuring")
    /\ recent' = TRUE
    /\ UNCHANGED <<worldVars, bound, notice, hinted, sent_to, landed, refusals, repairs, historyVars>>

\* Another request respawned within the cooldown: its outcome is this one's too.
Rechecked(r) ==
    /\ pc[r] = "rechecking"
    /\ \E verdict \in VerdictsFor(r) :
          /\ Check(verdict)
          /\ IF verdict = "alive"
             THEN Goto(r, "adopting") /\ Covers(r, daemon)
             ELSE Goto(r, "unrecovered") /\ UNCHANGED covers
    /\ UNCHANGED <<worldVars, recent, sent_to, landed, refusals, repairs, visited, reported, knew, alarmed>>

\* ensure_daemon, in its thread: it waits a closing daemon out, leaves a healthy
\* one alone, spawns one where there is none, or fails.
Ensured(r) ==
    /\ pc[r] = "ensuring"
    /\ ~closing
    /\ \/ daemon # 0 /\ UNCHANGED worldVars /\ Goto(r, "adopting") /\ Covers(r, daemon)
       \/ Spawn /\ Goto(r, "adopting") /\ Covers(r, daemon')
       \/ daemon = 0 /\ UNCHANGED <<worldVars, covers>> /\ Goto(r, "unrecovered")
    /\ UNCHANGED <<proxyVars, sent_to, landed, refusals, repairs, visited, reported, knew, alarmed>>

CooldownEnds ==
    /\ recent
    /\ recent' = FALSE
    /\ UNCHANGED <<worldVars, bound, notice, hinted, requestVars, historyVars>>

\* Fault: the fresh daemon is bound by an ordinary check.
Adopted_Fault(r) ==
    /\ pc[r] = "adopting"
    /\ \E verdict \in VerdictsFor(r) : Check(verdict)
    /\ Goto(r, "dropping")
    /\ IF bound' # 0 THEN Covers(r, bound') ELSE UNCHANGED covers
    /\ UNCHANGED <<worldVars, recent, sent_to, landed, refusals, repairs, visited, reported, knew, alarmed>>

\* adopt_current.  A renewal that proves nothing leaves the lease unbound, and what
\* answered before is forgotten with the daemon it was bound to.
Adopted(r) ==
    /\ pc[r] = "adopting"
    /\ \E verdict \in VerdictsFor(r) : bound' = IF verdict = "alive" THEN daemon ELSE 0
    /\ notice' = FALSE
    /\ hinted' = FALSE
    /\ Goto(r, "dropping")
    /\ IF bound' # 0 THEN Covers(r, bound') ELSE UNCHANGED covers
    /\ visited' = IF bound' # 0 THEN visited ELSE {}
    /\ UNCHANGED <<worldVars, recent, sent_to, landed, refusals, repairs, reported, knew, alarmed>>

\* raise_notice
Hints == notice' = TRUE /\ hinted' = (hinted \/ ~notice)

\* _drop_dead_backend is over, at the end of _recover ...
Recovered(r) ==
    /\ pc[r] = "dropping"
    /\ r \notin repairs
    /\ IF Reports(r) THEN UNCHANGED <<notice, hinted>> ELSE Hints
    /\ UNCHANGED covers
    /\ Report(r)
    /\ UNCHANGED <<worldVars, bound, recent, sent_to, landed, refusals, repairs>>

\* ... or of _precheck, and the silent request goes on.
Repaired(r) ==
    /\ pc[r] = "dropping"
    /\ r \in repairs
    /\ repairs' = repairs \ {r}
    /\ IF Kind[r] = "opening" THEN UNCHANGED <<notice, hinted>> ELSE Hints
    /\ Goto(r, "sent")
    /\ sent_to' = [sent_to EXCEPT ![r] = bound]
    /\ UNCHANGED <<worldVars, bound, recent, landed, refusals, historyVars>>

\* The client cancels the request.  What it was just about to be told is lost with
\* the request that was to tell it.
Cancel(r) ==
    /\ pc[r] \in CancelAt
    /\ Goto(r, "cancelled")
    /\ repairs' = repairs \ {r}
    /\ Unwatched(r) /\ Forgets(r)
    /\ visited' = IF pc[r] \in {"dropping", "clearing"} THEN {d \in visited : bound <= d} ELSE visited
    /\ UNCHANGED <<worldVars, proxyVars, covers, reported, knew, alarmed>>

-----------------------------------------------------------------------------

\* What the proxy does by itself for a request that is not waiting for a daemon.
Settle(r) ==
    \/ PrecheckFindsNone(r) \/ PrecheckPasses(r)
    \/ Vanished(r) \/ FailureIsLost(r) \/ FailureIsItsOwn(r) \/ Cleared(r)
    \/ TakeLock(r) \/ Rechecked(r) \/ Ensured(r) \/ Adopted(r) \/ Recovered(r) \/ Repaired(r)

\* What a daemon does for a request.
Serve(r) == Lands(r) \/ Answered(r)

Next ==
    \/ Die \/ BeginClosing \/ OtherProxySpawns
    \/ Heartbeat \/ CooldownEnds
    \/ \E r \in Request : Begin(r) \/ Serve(r) \/ Watch(r) \/ Settle(r) \/ Raised(r) \/ Cancel(r)

Spec == Init /\ [][Next]_vars

\* A renewal in the watch tells how it stands with the daemon.
Hears(r) == Watch(r) /\ \E verdict \in {IF NoneLives THEN "gone" ELSE "alive"} : Finds(r, verdict)

\* The proxy's loop runs, a closing daemon goes, and a living one answers: a
\* request, and in the end a renewal.
FairSpec ==
    /\ Spec
    /\ WF_vars(closing /\ Die)
    /\ \A r \in Request : WF_vars(Serve(r)) /\ WF_vars(Hears(r)) /\ WF_vars(Settle(r))

-----------------------------------------------------------------------------
(* What the middleware promises. *)

\* A request on its way to report every daemon that answered before the one
\* the lease knows, or to raise the notice of them.
WillTell(r) ==
    \/ Reports(r) /\ pc[r] \in {"dropping", "clearing"} /\ bound <= covers[r] + 1
    \/ Kind[r] \in {"list", "note"} /\ pc[r] = "dropping"

\* A restart is never missed (recovery.py:17): a daemon that answered a call of the
\* conversation is still the one the lease knows, or its loss is a pending notice, or
\* some request is just about to report it.  Two losses are not counted: that of a
\* daemon the lease did not know or was made to forget by a respawn whose renewal
\* proved nothing, and what was lost with a request cancelled in its last await.
LossesArePending ==
    \/ notice
    \/ \A d \in visited : bound <= d
    \/ \E r \in Request : WillTell(r)

\* A call that began after a loss was reported is not failed for that loss again
\* (recovery.py:18, "never reported twice"), but for the notice of a silent repair,
\* which may come after the report of a call, and for a refusal by a living daemon.
ReportedOnce ==
    [][\A r \in Request :
          Reports(r) /\ pc[r] # "restarted" /\ pc'[r] = "restarted" =>
              \/ covers'[r] > knew[r]
              \/ pc[r] = "precheck" /\ hinted
              \/ r \in alarmed]_vars

\* A call that is forwarded to a daemon the lease knows ends, although a daemon that
\* dies with it raises nothing (recovery.py:29-34), and before it is forwarded it
\* comes to an end or to that.
CallsEnd ==
    \A r \in Request : Reports(r) =>
        (pc[r] = "precheck" ~> pc[r] \in Outcomes \/ (pc[r] \in Forwarded /\ sent_to[r] = 0))
=============================================================================
