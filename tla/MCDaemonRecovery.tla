--------------------------- MODULE MCDaemonRecovery ---------------------------
(* DaemonRecovery for TLC: an opening handshake, calls, a list and a note. *)
EXTENDS DaemonRecovery

CONSTANTS Openings, Lists, Notes, Calls

Requests == Openings \cup Lists \cup Notes \cup Calls
Kinds == [r \in Requests |->
            CASE r \in Openings -> "opening" [] r \in Lists -> "list"
              [] r \in Notes -> "note" [] r \in Calls -> "call"]
\* Before it is forwarded, under the watch, and when it failed.
Refusals == Forwarded \cup {"precheck", "failing"}
=============================================================================
