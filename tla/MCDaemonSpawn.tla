---------------------------- MODULE MCDaemonSpawn ----------------------------
(* DaemonSpawn for TLC: proxies of one code, and perhaps some of another. *)
EXTENDS DaemonSpawn

CONSTANTS Ours, Theirs

Proxies == Ours \cup Theirs
Codes == [p \in Proxies |-> IF p \in Ours THEN "ours" ELSE "theirs"]
\* Under the lock, but not while the daemon it spawned comes up.
BeforeSpawning == Locked \ {"polling"}
=============================================================================
