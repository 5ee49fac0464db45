--------------------------- MODULE MCSessionManager ---------------------------
(* SessionManager for TLC: one profile, some calls in one process and one in  *)
(* another.                                                                   *)
EXTENDS SessionManager

CONSTANTS Calls1, Calls2, p1, p2, f

Tasks == Calls1 \cup Calls2
Homes == [t \in Tasks |-> IF t \in Calls1 THEN p1 ELSE p2]
Targets == [t \in Tasks |-> f]
Anywhere == Waiting \cup Launching
=============================================================================
