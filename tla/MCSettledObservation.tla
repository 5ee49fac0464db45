------------------------ MODULE MCSettledObservation ------------------------
(* SettledObservation for TLC: a few calls, one after another. *)
EXTENDS SettledObservation, TLC

CONSTANTS c1, c2, c3, u1, u2, t1, t2

ThreeCalls == {c1, c2, c3}
Tools == (c1 :> "click") @@ (c2 :> "press") @@ (c3 :> "navigate")
Symmetry == Permutations({u1, u2}) \cup Permutations({t1, t2})
=============================================================================
