----------------------------- MODULE MCNetworkLog -----------------------------
(* NetworkLog for TLC: a few requests of a few documents, in small rings. *)
EXTENDS NetworkLog
=============================================================================
