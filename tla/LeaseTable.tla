------------------------------ MODULE LeaseTable ------------------------------
(***************************************************************************)
(* The daemon's table of live proxy leases (daemon/leases.py, LeaseTable)  *)
(* with the two routes that reach it (daemon/lease_routes.py).             *)
(*                                                                         *)
(* Every operation first drops the leases whose expiry has passed: expiry  *)
(* is lazy, and a lapsed lease stays in the table until somebody looks.    *)
(* Time is the daemon's monotonic clock, in whole seconds.  A lease id is  *)
(* the proxy that drew it.  The dict {id -> _Lease} is its key set `held`  *)
(* and the two fields of a lease as functions, 0 where there is none.      *)
(***************************************************************************)
EXTENDS Integers, FiniteSets

CONSTANTS
    Proxy,      \* the proxies that may connect
    MinTtl,     \* MIN_LEASE_TTL_S
    MaxTtl,     \* MAX_LEASE_TTL_S
    MaxLeases,  \* MAX_LEASES
    AskedTtl,   \* the ttls a grant may ask for
    MaxClock    \* bound: the clock stops here

ASSUME LeaseConstants ==
    /\ MinTtl \in Nat \ {0}
    /\ MaxTtl \in Nat
    /\ MinTtl <= MaxTtl
    /\ MaxLeases \in Nat \ {0}
    /\ AskedTtl \subseteq Nat \ {0}
    /\ MaxClock \in Nat

VARIABLES
    now,         \* the monotonic clock
    held,        \* the keys of _leases
    expires_at,  \* _Lease.expires_at of a held lease
    ttl_s,       \* _Lease.ttl_s of a held lease
    vacated_at,  \* _vacated_at, Never for None
    closed       \* _closed

tableVars == <<held, expires_at, ttl_s, vacated_at, closed>>

\* None; also the float("-inf") that stands for it in _prune's max().
Never == -1

Larger(a, b) == IF a < b THEN b ELSE a
Clamp(t) == IF t < MinTtl THEN MinTtl ELSE IF MaxTtl < t THEN MaxTtl ELSE t

TableTypeOK ==
    /\ now \in Nat
    /\ held \subseteq Proxy
    /\ expires_at \in [Proxy -> Nat]
    /\ ttl_s \in [Proxy -> Nat]
    /\ vacated_at \in Nat \cup {Never}
    /\ closed \in BOOLEAN

TableInit ==
    /\ now = 0
    /\ held = {}
    /\ expires_at = [p \in Proxy |-> 0]
    /\ ttl_s = [p \in Proxy |-> 0]
    /\ vacated_at = Never
    /\ closed = FALSE

-----------------------------------------------------------------------------
(* The table's operations. *)

Expired == {p \in held : expires_at[p] <= now}
Unexpired == held \ Expired

\* The entries of the leases in S stay, every other one is dropped.
Keep(S) ==
    /\ held' = S
    /\ expires_at' = [p \in Proxy |-> IF p \in S THEN expires_at[p] ELSE 0]
    /\ ttl_s' = [p \in Proxy |-> IF p \in S THEN ttl_s[p] ELSE 0]

\* Fault: the table counts as vacated when the lapse is noticed.
PruneVacates_WhenNoticed ==
    vacated_at' = IF Expired # {} /\ Unexpired = {} THEN now ELSE vacated_at

\* What _prune does to _vacated_at: the table became empty when the last of the
\* leases it drops lapsed.
PruneVacates ==
    IF Expired # {} /\ Unexpired = {}
    THEN \E last \in Expired :
            /\ \A p \in Expired : expires_at[p] <= expires_at[last]
            /\ vacated_at' = Larger(vacated_at, expires_at[last])
    ELSE UNCHANGED vacated_at

Prune ==
    /\ Keep(Unexpired)
    /\ PruneVacates
    /\ UNCHANGED <<now, closed>>

AtLimit(p) == p \notin Unexpired /\ Cardinality(Unexpired) >= MaxLeases

\* Fault: a closed table still grants.
Grant_WhenClosed(p, asked) ==
    /\ ~AtLimit(p)
    /\ held' = Unexpired \cup {p}
    /\ expires_at' = [expires_at EXCEPT ![p] = now + Clamp(asked)]
    /\ ttl_s' = [ttl_s EXCEPT ![p] = Clamp(asked)]
    /\ vacated_at' = Never
    /\ UNCHANGED <<now, closed>>

\* POST /lease, granted: the lease is created or renewed.
Grant(p, asked) ==
    /\ ~closed
    /\ ~AtLimit(p)
    /\ held' = Unexpired \cup {p}
    /\ expires_at' = [q \in Proxy |-> IF q = p THEN now + Clamp(asked)
                                      ELSE IF q \in Unexpired THEN expires_at[q] ELSE 0]
    /\ ttl_s' = [q \in Proxy |-> IF q = p THEN Clamp(asked)
                                 ELSE IF q \in Unexpired THEN ttl_s[q] ELSE 0]
    /\ vacated_at' = Never
    /\ UNCHANGED <<now, closed>>

\* POST /lease, answered 429: a new id while the table is full.
GrantOverLimit(p) ==
    /\ ~closed
    /\ AtLimit(p)
    /\ Prune

\* DELETE /lease/{id}.
Release(p) ==
    /\ Keep(Unexpired \ {p})
    /\ IF p \in Unexpired
       THEN vacated_at' = IF Unexpired \ {p} = {} THEN now ELSE vacated_at
       ELSE PruneVacates
    /\ UNCHANGED <<now, closed>>

\* refresh_all: it does not prune, so a lapsed lease nobody looked at comes back.
RefreshAll ==
    /\ expires_at' = [p \in Proxy |-> IF p \in held THEN now + ttl_s[p] ELSE 0]
    /\ UNCHANGED <<now, held, ttl_s, vacated_at, closed>>

TableTick ==
    /\ now < MaxClock
    /\ now' = now + 1
    /\ UNCHANGED tableVars

-----------------------------------------------------------------------------
(* What a reader sees. *)

\* What a reader of the table is told: live_count() and vacated_at().
Live == {p \in held : expires_at[p] > now}

\* A lease that lives keeps the table non-empty without a vacating instant, so
\* the watchdog can never subtract a stale instant while a proxy is connected
\* (leases.py vacated_at, _prune).
VacatedOnlyWhenEmpty == vacated_at # Never => held = {}
=============================================================================
