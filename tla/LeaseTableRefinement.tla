------------------------- MODULE LeaseTableRefinement -------------------------
(***************************************************************************)
(* The lazily pruned lease table implements EagerLeases.                   *)
(***************************************************************************)
EXTENDS LeaseTable, FiniteSetsExt

\* The instant the table last became empty, as vacated_at() would answer now.
EmptiedAt ==
    IF Live # {} THEN Never
    ELSE IF held # {} THEN Max({expires_at[p] : p \in held}) ELSE vacated_at

Eager == INSTANCE EagerLeases WITH
            until <- [p \in Proxy |-> IF p \in Live THEN expires_at[p] ELSE Never],
            emptiedAt <- EmptiedAt,
            Ttls <- MinTtl..MaxTtl

\* Whatever the order of grants, lapses, releases and reads, a caller sees the
\* table exactly as if every lease had been dropped the instant it lapsed, with
\* the right vacating instant (leases.py, class LeaseTable).
ImplementsEagerLeases == Eager!Spec
=============================================================================
