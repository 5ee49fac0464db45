-------------------------- MODULE MCElementRegistry --------------------------
(* ElementRegistry for TLC: a few tabs, calls and documents of few elements. *)
EXTENDS ElementRegistry

CONSTANTS t1, t2, c1, c2, c3

TwoTabs == {t1, t2}
OneTab == {t1}
ThreeCalls == {c1, c2, c3}
\* Two reads and an act.
ThreeKinds == [c \in ThreeCalls |-> IF c = c3 THEN "act" ELSE "read"]
=============================================================================
