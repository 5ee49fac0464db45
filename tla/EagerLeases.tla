------------------------------ MODULE EagerLeases ------------------------------
(***************************************************************************)
(* What the lease table promises, without its laziness: a proxy is present *)
(* from the moment it is granted a lease until the lease lapses or it      *)
(* leaves, and the instant the last one went is known at once.             *)
(* LeaseTable, which only notices a lapse when somebody looks, implements  *)
(* this (LeaseTableRefinement).                                            *)
(***************************************************************************)
EXTENDS Integers, FiniteSets

CONSTANTS Proxy, MaxLeases, Ttls, Never

VARIABLES
    now,
    until,     \* when each present proxy's lease lapses, Never if it is absent
    emptiedAt  \* when the last proxy went, Never while one is present or none ever was

vars == <<now, until, emptiedAt>>

Present == {p \in Proxy : until[p] # Never}

Init ==
    /\ now = 0
    /\ until = [p \in Proxy |-> Never]
    /\ emptiedAt = Never

\* p arrives or renews.
Arrive(p, ttl) ==
    /\ Cardinality(Present \cup {p}) <= MaxLeases
    /\ until' = [until EXCEPT ![p] = now + ttl]
    /\ emptiedAt' = Never
    /\ UNCHANGED now

Leave(p) ==
    /\ p \in Present
    /\ until' = [until EXCEPT ![p] = Never]
    /\ emptiedAt' = IF Present = {p} THEN now ELSE emptiedAt
    /\ UNCHANGED now

\* A second passes, and the leases that end with it are over at once.
Pass ==
    LET left == {p \in Present : until[p] > now + 1}
    IN  /\ now' = now + 1
        /\ until' = [p \in Proxy |-> IF p \in left THEN until[p] ELSE Never]
        /\ emptiedAt' = IF Present # {} /\ left = {} THEN now + 1 ELSE emptiedAt

\* After a suspend everybody present, and perhaps some whose lease lapsed while
\* the machine slept, starts a lease anew.
Resume ==
    \E back \in SUBSET Proxy :
        /\ Present \subseteq back
        /\ Cardinality(back) <= MaxLeases
        /\ back # {}
        /\ \E ttl \in [back -> Ttls] :
              until' = [p \in Proxy |-> IF p \in back THEN now + ttl[p] ELSE Never]
        /\ emptiedAt' = Never
        /\ UNCHANGED now

Next ==
    \/ \E p \in Proxy, ttl \in Ttls : Arrive(p, ttl)
    \/ \E p \in Proxy : Leave(p)
    \/ Pass
    \/ Resume

Spec == Init /\ [][Next]_vars
=============================================================================
