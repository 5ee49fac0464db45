--------------------------- MODULE MCBrowserLaunch ---------------------------
(***************************************************************************)
(* Two servers of one machine.  Either both start, each in any of several  *)
(* configurations, over whatever is on disk, or one that runs a browser of *)
(* its own launches twice.                                                 *)
(***************************************************************************)
EXTENDS BrowserLaunch

CONSTANTS s1, s2, l1, l2, old, beta

MCServer == {s1, s2}
MCLaunch == {l1, l2}
MCHome == [l \in MCLaunch |-> s1]

Unset(pin, auto) == [pin |-> pin, auto |-> auto, binary |-> "unset"]
Own(path) == [pin |-> old, auto |-> TRUE, binary |-> path]
MCLaunching == {[Own("good") EXCEPT !.auto = FALSE]}

Pairs ==
    {[s \in MCServer |-> IF s = s1 THEN a ELSE b] :
        a \in {Unset(old, TRUE), Unset(NoBuild, TRUE)},
        b \in {Unset(old, TRUE), Unset(beta, TRUE), Unset(beta, FALSE), Unset(NoBuild, TRUE), Own("good")}}
Starting ==
    {m \in [config : Pairs, installed : SUBSET {old, beta}, active : {old, beta, NoBuild},
            geoip : BOOLEAN, stamp : {"none", "fresh"}] :
        m.active \in m.installed \cup {NoBuild} /\ (m.stamp = "fresh" => m.geoip)}
Serving ==
    [config |-> [s \in MCServer |-> IF s = s1 THEN [Own("good") EXCEPT !.auto = FALSE] ELSE Own("bad")],
     installed |-> {old}, active |-> old, geoip |-> TRUE, stamp |-> "old"]
MCMachines == Starting \cup {Serving}
=============================================================================
