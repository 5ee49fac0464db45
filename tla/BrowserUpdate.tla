---------------------------- MODULE BrowserUpdate ----------------------------
(***************************************************************************)
(* The browser builds of a machine and the servers that start over them    *)
(* (updater/*.py, and the lifespan in bootstrap.py): the cold install a    *)
(* start waits for, the pin it makes active, the refresh it leaves running *)
(* in the background, and the end of both when the server stops.           *)
(*                                                                         *)
(* The builds, Camoufox's active key, the GeoIP database and the stamp are *)
(* shared by all servers.  A fetch is a child process: it moves by itself, *)
(* may fail at any step, and may be slow to die.  What a start or a        *)
(* refresh awaits is the exit of its child.                                *)
(***************************************************************************)
EXTENDS Integers

CONSTANTS
    Server,      \* each started once
    Builds,
    Supported,   \* the builds this Camoufox can launch
    Newest,      \* what its updater fetches
    NoBuild,     \* no pin; no active build
    Machines     \* bound: what the servers start with, the configuration of each
                 \* of them and the disk

Configs == [pin : Builds \cup {NoBuild}, auto : BOOLEAN, binary : {"unset", "good", "bad"}]

\* Nobody removes a database that a stamp stands for.
ASSUME BuildConstants ==
    /\ Newest \in Supported /\ Supported \subseteq Builds /\ NoBuild \notin Builds
    /\ \A m \in Machines :
           /\ m.config \in [Server -> Configs]
           /\ m.installed \subseteq Builds /\ m.active \in m.installed \cup {NoBuild}
           /\ m.stamp \in {"none", "old", "fresh"} /\ (m.stamp = "fresh" => m.geoip)

VARIABLES
    config,    \* of each server
    installed, \* the builds on disk
    active,    \* the active one
    geoip,     \* is the GeoIP database on disk?
    stamp,     \* the stamp of the last check: "none", "old" (over 24 h) or "fresh"
    srv,       \* of each server: its phase, the fetch it awaits, the child and what
               \* the child was told
    overruled  \* the servers whose pin was made inactive by another one, or could
               \* not be made active

disk == <<installed, active, geoip, stamp>>
updateVars == <<config, installed, active, geoip, stamp, srv, overruled>>

Idle == [phase |-> "off", fetch |-> "none", child |-> "none", told |-> "none"]

UpdateInit ==
    /\ \E m \in Machines :
           /\ config = m.config /\ installed = m.installed /\ active = m.active
           /\ geoip = m.geoip /\ stamp = m.stamp
    /\ srv = [s \in Server |-> Idle] /\ overruled = {}

Pin(s) == config[s].pin
Pinned(s) == Pin(s) # NoBuild /\ config[s].binary = "unset"
Phase(s, p) == srv[s].phase = p
Becomes(s, r) == srv' = [srv EXCEPT ![s] = r]
Alive(s) == srv[s].child \in {"running", "landed"}
Awaits(s, fetch) == srv[s].fetch = fetch /\ srv[s].told = "none"

\* binary_present.
Present(s) ==
    CASE config[s].binary # "unset" -> config[s].binary = "good"
      [] Pin(s) # NoBuild -> Pin(s) \in installed
      [] OTHER -> active \in Supported

-----------------------------------------------------------------------------
\* The active key, written by server s or its child.
Activates(s, build) ==
    /\ active' = build
    /\ overruled' = (overruled \cup (Server \ {s})) \ {t \in Server : ~Pinned(t) \/ Pin(t) = build}

\* Fault: the pin is made active only by the start that installs it.
ReassertPin_OnInstall(s) ==
    IF srv[s].fetch = "browser" /\ Pinned(s) THEN Activates(s, Pin(s))
    ELSE UNCHANGED <<active, overruled>>

\* _reassert_pin: skipped without a pin that counts, and fail-open.
ReassertPin(s) ==
    IF Pinned(s) /\ Pin(s) \in installed
    THEN \/ Activates(s, Pin(s))
         \/ /\ active # Pin(s) /\ UNCHANGED active
            /\ overruled' = overruled \cup {s}
    ELSE UNCHANGED <<active, overruled>>

Fetching(r, asset) == [r EXCEPT !.fetch = asset, !.child = "running"]

\* Up, with a refresh scheduled if one is due.
Ready(s, due) ==
    [Idle EXCEPT !.phase = "up", !.fetch = IF config[s].auto /\ due THEN "scheduled" ELSE "none"]

\* ensure_browser_present.
Start(s) ==
    /\ Phase(s, "off")
    /\ \/ /\ Present(s)
          /\ ReassertPin(s) /\ Becomes(s, Ready(s, stamp # "fresh"))
       \/ /\ ~Present(s)
          /\ UNCHANGED <<active, overruled>>
          /\ Becomes(s, IF config[s].binary = "bad" \/ ~config[s].auto
                        THEN [Idle EXCEPT !.phase = "refused"]
                        ELSE Fetching([Idle EXCEPT !.phase = "starting"], "browser"))
    /\ UNCHANGED <<config, installed, geoip, stamp>>

\* A build that cannot be had is fatal.
ColdBrowserEnds(s) ==
    /\ Phase(s, "starting") /\ Awaits(s, "browser") /\ srv[s].child \in {"ok", "failed"}
    /\ IF srv[s].child = "ok"
       THEN ReassertPin(s) /\ Becomes(s, Fetching(srv[s], "geoip"))
       ELSE Becomes(s, [Idle EXCEPT !.phase = "refused"]) /\ UNCHANGED <<active, overruled>>
    /\ UNCHANGED <<config, installed, geoip, stamp>>

\* Fault: the stamp is written whatever became of the database.
ColdGeoipEnds_Stamps(s) ==
    /\ Phase(s, "starting") /\ Awaits(s, "geoip") /\ srv[s].child \in {"ok", "failed"}
    /\ stamp' = "fresh" /\ Becomes(s, Ready(s, FALSE))
    /\ UNCHANGED <<config, installed, active, geoip, overruled>>

\* The database is fail-open, and left to the refresh.  The stamp itself may not
\* be writable.
ColdGeoipEnds(s) ==
    /\ Phase(s, "starting") /\ Awaits(s, "geoip") /\ srv[s].child \in {"ok", "failed"}
    /\ stamp' \in {stamp} \cup (IF srv[s].child = "ok" THEN {"fresh"} ELSE {})
    /\ Becomes(s, Ready(s, stamp' # "fresh"))
    /\ UNCHANGED <<config, installed, active, geoip, overruled>>

-----------------------------------------------------------------------------
\* _refresh.

RefreshBegins(s) ==
    /\ Phase(s, "up") /\ srv[s].fetch = "scheduled"
    /\ Becomes(s, Fetching(srv[s], "browser"))
    /\ UNCHANGED <<config, disk, overruled>>

Rests(r) == [r EXCEPT !.fetch = "none", !.child = "none"]

RefreshBrowserEnds(s) ==
    /\ Phase(s, "up") /\ Awaits(s, "browser") /\ srv[s].child \in {"ok", "failed"}
    /\ IF srv[s].child = "ok"
       THEN ReassertPin(s) /\ Becomes(s, Fetching(srv[s], "geoip"))
       ELSE Becomes(s, Rests(srv[s])) /\ UNCHANGED <<active, overruled>>
    /\ UNCHANGED <<config, installed, geoip, stamp>>

RefreshGeoipEnds(s) ==
    /\ Phase(s, "up") /\ Awaits(s, "geoip") /\ srv[s].child \in {"ok", "failed"}
    /\ stamp' \in {stamp} \cup (IF srv[s].child = "ok" THEN {"fresh"} ELSE {})
    /\ Becomes(s, Rests(srv[s]))
    /\ UNCHANGED <<config, installed, active, geoip, overruled>>

-----------------------------------------------------------------------------
\* The fetch child.

Child(s, state) == Becomes(s, [srv[s] EXCEPT !.child = state])

\* fetch_browser: a pin is installed if it is absent, else the newest release is.
Wants(s) == IF Pin(s) # NoBuild THEN Pin(s) ELSE Newest

ChildInstalls(s) ==
    /\ srv[s].child = "running" /\ srv[s].fetch = "browser" /\ Wants(s) \notin installed
    /\ installed' = installed \cup {Wants(s)}
    /\ Child(s, "landed")
    /\ UNCHANGED <<config, active, geoip, stamp, overruled>>

\* Camoufox activates what it installs.
ChildActivates(s) ==
    /\ srv[s].child = "landed"
    /\ Activates(s, Wants(s)) /\ Child(s, "ok")
    /\ UNCHANGED <<config, installed, geoip, stamp>>

\* Nothing to install; its updater may still activate the newest build.
ChildFindsIt(s) ==
    /\ srv[s].child = "running" /\ srv[s].fetch = "browser" /\ Wants(s) \in installed
    /\ \/ UNCHANGED <<active, overruled>>
       \/ Pin(s) = NoBuild /\ Activates(s, Newest)
    /\ Child(s, "ok")
    /\ UNCHANGED <<config, installed, geoip, stamp>>

ChildGetsGeoip(s) ==
    /\ srv[s].child = "running" /\ srv[s].fetch = "geoip"
    /\ geoip' = TRUE /\ Child(s, "ok")
    /\ UNCHANGED <<config, installed, active, stamp, overruled>>

\* The network, the disk, a build that is not offered; or a signal.
ChildFails(s) ==
    /\ Alive(s) /\ Child(s, "failed")
    /\ UNCHANGED <<config, disk, overruled>>

-----------------------------------------------------------------------------
\* The end of the lifespan.

\* A start or a refresh is cancelled where it awaits its child, and tells it to
\* end (fetch_in_child, _terminate); one that has none just ends.
Stop(s) ==
    /\ srv[s].phase \in {"starting", "up"}
    /\ Becomes(s, IF srv[s].fetch \in {"browser", "geoip"}
                  THEN [srv[s] EXCEPT !.phase = "stopping", !.told = "term"]
                  ELSE [srv[s] EXCEPT !.phase = "stopping", !.fetch = "none"])
    /\ UNCHANGED <<config, disk, overruled>>

\* There is a child whose end the server awaits.
Waits(s) == srv[s].fetch # "none" /\ srv[s].told # "left"

Reaped(s) ==
    /\ Phase(s, "stopping") /\ Waits(s) /\ ~Alive(s)
    /\ Becomes(s, Rests(srv[s]))
    /\ UNCHANGED <<config, disk, overruled>>

\* Fault: a terminated child is waited for without a deadline.
TermExpires_Waits(s) ==
    /\ Phase(s, "stopping") /\ Waits(s) /\ srv[s].told = "term" /\ ~Alive(s)
    /\ Becomes(s, [srv[s] EXCEPT !.told = "kill"])
    /\ UNCHANGED <<config, disk, overruled>>

TermExpires(s) ==
    /\ Phase(s, "stopping") /\ Waits(s) /\ srv[s].told = "term"
    /\ Becomes(s, [srv[s] EXCEPT !.told = "kill"])
    /\ UNCHANGED <<config, disk, overruled>>

\* What outlives its SIGKILL is left to itself, with a warning.
KillExpires(s) ==
    /\ Phase(s, "stopping") /\ Waits(s) /\ srv[s].told = "kill"
    /\ Becomes(s, [srv[s] EXCEPT !.told = "left"])
    /\ UNCHANGED <<config, disk, overruled>>

\* A second cancellation ends the wait for the child, and is swallowed by the
\* lifespan with the first.
Interrupted(s) ==
    /\ Phase(s, "stopping") /\ Waits(s) /\ srv[s].told # "none"
    /\ Becomes(s, [srv[s] EXCEPT !.told = "left"])
    /\ UNCHANGED <<config, disk, overruled>>

\* sessions.shutdown has returned, or there were none to shut.
Down(s) ==
    /\ Phase(s, "stopping") /\ ~Waits(s)
    /\ Becomes(s, [srv[s] EXCEPT !.phase = "down"])
    /\ UNCHANGED <<config, disk, overruled>>

ChildStep(s) ==
    \/ ChildInstalls(s) \/ ChildActivates(s) \/ ChildFindsIt(s)
    \/ ChildGetsGeoip(s) \/ ChildFails(s)

ServerStep(s) ==
    \/ Start(s) \/ ColdBrowserEnds(s) \/ ColdGeoipEnds(s)
    \/ RefreshBegins(s) \/ RefreshBrowserEnds(s) \/ RefreshGeoipEnds(s)
    \/ Stop(s) \/ Reaped(s) \/ TermExpires(s) \/ KillExpires(s) \/ Interrupted(s) \/ Down(s)

\* The event loop runs, and its clock.  No child need ever exit.
UpdateFairness ==
    \A s \in Server :
        WF_updateVars(Reaped(s) \/ TermExpires(s) \/ KillExpires(s) \/ Down(s))

-----------------------------------------------------------------------------
\* The throttle never sits on an asset known to be missing (startup.py:89): while
\* the stamp is fresh the GeoIP database is on disk, whatever failed, was cut
\* short or ran at the same time.
StampHidesNothing == stamp = "fresh" => geoip

\* A server launches what it spoofs (startup.py:104): from its start on its pin is
\* the active build, unless another server has overruled it since or the key
\* could not be written; its own fetches never move it away.
PinIsActive ==
    \A s \in Server : Phase(s, "up") /\ Pinned(s) => active = Pin(s) \/ s \in overruled

\* Stopping ends, whether or not the child ever does (child.py:97).
StopEnds == \A s \in Server : Phase(s, "stopping") ~> Phase(s, "down")
=============================================================================
