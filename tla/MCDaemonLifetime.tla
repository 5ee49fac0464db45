--------------------------- MODULE MCDaemonLifetime ---------------------------
(* DaemonLifetime for TLC, and the lease table it is built on: three          *)
(* interchangeable proxies, room for two, a clock of a few seconds.           *)
EXTENDS DaemonLifetime, LeaseTableRefinement, TLC

CONSTANTS p1, p2, p3

Proxies == {p1, p2, p3}
Symmetry == Permutations(Proxies)
\* A wall clock stepped back, and one ahead by more than the slack.
Steps == {-2, 2}
=============================================================================
