------------------------------ MODULE MCTabBook ------------------------------
(* TabBook for TLC: a few calls, of any tool, on a few tabs. *)
EXTENDS TabBook, TLC

CONSTANTS c1, c2, c3

ThreeCalls == {c1, c2, c3}
Symmetry == Permutations(ThreeCalls)
=============================================================================
