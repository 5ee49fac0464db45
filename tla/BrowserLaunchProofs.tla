------------------------- MODULE BrowserLaunchProofs -------------------------
(***************************************************************************)
(* What the stamp, the active build and the process streams are worth, for *)
(* any number of servers, builds and launches.                             *)
(***************************************************************************)
EXTENDS BrowserLaunch, FiniteSetTheorems, TLAPS

ServerState ==
    [phase : {"off", "starting", "up", "stopping", "down", "refused"},
     fetch : {"none", "scheduled", "browser", "geoip"},
     child : {"none", "running", "landed", "ok", "failed"},
     told : {"none", "term", "kill", "left"}]

UpdateType == config \in [Server -> Configs] /\ srv \in [Server -> ServerState]

\* A child that has done its work has left it on disk.
FetchedIsThere ==
    \A s \in Server :
        srv[s].child \in {"landed", "ok"} =>
            /\ srv[s].fetch = "geoip" => geoip
            /\ srv[s].fetch = "browser" => Wants(s) \in installed

\* A start that is past its install has made its pin active, as one that is over has.
PinPrevails ==
    \A s \in Server :
        Pinned(s) /\ (Phase(s, "up") \/ (Phase(s, "starting") /\ srv[s].fetch = "geoip")) =>
            active = Pin(s) \/ s \in overruled

UpdateInv == UpdateType /\ StampHidesNothing /\ FetchedIsThere /\ PinPrevails

UpdateStep == \E s \in Server : ServerStep(s) \/ ChildStep(s)

-----------------------------------------------------------------------------

LEMMA UpdateInitInvariant == UpdateInit => UpdateInv
<1> SUFFICES ASSUME UpdateInit PROVE UpdateInv
  OBVIOUS
<1> PICK m \in Machines : config = m.config /\ stamp = m.stamp /\ geoip = m.geoip
  BY DEF UpdateInit
<1>1. UpdateType
  BY BuildConstants DEF UpdateInit, UpdateType, ServerState, Idle
<1>2. StampHidesNothing
  BY BuildConstants DEF StampHidesNothing
<1>3. FetchedIsThere /\ PinPrevails
  BY DEF UpdateInit, FetchedIsThere, PinPrevails, Idle, Phase
<1> QED
  BY <1>1, <1>2, <1>3 DEF UpdateInv

\* Whoever writes the active key overrules the others, and only itself by its own pin.
LEMMA ActivatesKeepsPins ==
    ASSUME NEW s \in Server, NEW build, Activates(s, build), config' = config,
           Pinned(s) => build = Pin(s)
    PROVE  \A t \in Server : Pinned(t) => active' = Pin(t) \/ t \in overruled'
  BY DEF Activates

\* After it a pin that is installed is active, or overruled.
LEMMA ReassertPinMakesActive ==
    ASSUME NEW s \in Server, ReassertPin(s), config' = config
    PROVE  /\ Pinned(s) /\ Pin(s) \in installed => active' = Pin(s) \/ s \in overruled'
           /\ \A t \in Server \ {s} :
                  Pinned(t) /\ (active = Pin(t) \/ t \in overruled) => active' = Pin(t) \/ t \in overruled'
           /\ Pinned(s) /\ (active = Pin(s) \/ s \in overruled) => active' = Pin(s) \/ s \in overruled'
  BY DEF ReassertPin, Activates

LEMMA ReadyIsUp ==
    ASSUME NEW s, NEW due
    PROVE  /\ Ready(s, due) \in ServerState
           /\ Ready(s, due).phase = "up" /\ Ready(s, due).fetch \in {"none", "scheduled"}
           /\ Ready(s, due).child = "none"
<1>1. Ready(s, due) = [Idle EXCEPT !.phase = "up", !.fetch = "scheduled"]
      \/ Ready(s, due) = [Idle EXCEPT !.phase = "up", !.fetch = "none"]
  BY Zenon DEF Ready
<1> QED
  BY <1>1 DEF Idle, ServerState

\* What a server's next state may be, whatever step it takes.
NextStates(s) ==
    {Ready(s, stamp # "fresh"), Ready(s, stamp' # "fresh"), Rests(srv[s]),
     Fetching([Idle EXCEPT !.phase = "starting"], "browser"),
     Fetching(srv[s], "browser"), Fetching(srv[s], "geoip"),
     [Idle EXCEPT !.phase = "refused"],
     [srv[s] EXCEPT !.phase = "stopping", !.told = "term"],
     [srv[s] EXCEPT !.phase = "stopping", !.fetch = "none"],
     [srv[s] EXCEPT !.told = "kill"],
     [srv[s] EXCEPT !.told = "left"],
     [srv[s] EXCEPT !.phase = "down"]}

LEMMA NextStateType ==
    ASSUME UpdateType, NEW s \in Server, NEW r \in NextStates(s)
    PROVE  /\ r \in ServerState
           /\ \/ r.child \notin {"landed", "ok"} \/ r.fetch \notin {"browser", "geoip"}
              \/ srv[s].child = r.child /\ r.fetch = srv[s].fetch
<1>1. srv[s] \in ServerState
  BY DEF UpdateType
<1>2. CASE r \in {Ready(s, stamp # "fresh"), Ready(s, stamp' # "fresh")}
  BY <1>2, ReadyIsUp
<1>3. CASE r \notin {Ready(s, stamp # "fresh"), Ready(s, stamp' # "fresh")}
  BY <1>1, <1>3 DEF NextStates, ServerState, Idle, Fetching, Rests
<1> QED
  BY <1>2, <1>3

LEMMA ServerMoves ==
    ASSUME NEW s \in Server, ServerStep(s)
    PROVE  /\ \E r \in NextStates(s) : Becomes(s, r)
           /\ UNCHANGED <<config, installed, geoip>>
<1>1. \E r \in NextStates(s) : Becomes(s, r)
  BY Zenon DEF ServerStep, Start, ColdBrowserEnds, ColdGeoipEnds, RefreshBegins,
               RefreshBrowserEnds, RefreshGeoipEnds, Stop, Reaped, TermExpires, KillExpires,
               Interrupted, Down, NextStates, Becomes
<1>2. UNCHANGED <<config, installed, geoip>>
  BY DEF ServerStep, Start, ColdBrowserEnds, ColdGeoipEnds, RefreshBegins,
         RefreshBrowserEnds, RefreshGeoipEnds, Stop, Reaped, TermExpires, KillExpires,
         Interrupted, Down, disk
<1> QED
  BY <1>1, <1>2

\* A child moves, and is done only with its work on disk.
LEMMA ChildMoves ==
    ASSUME UpdateType, FetchedIsThere, NEW s \in Server, ChildStep(s)
    PROVE  /\ \E state \in {"landed", "ok", "failed"} : srv' = [srv EXCEPT ![s].child = state]
           /\ config' = config /\ installed \subseteq installed' /\ (geoip => geoip')
           /\ srv'[s].child # "failed" =>
                  /\ srv[s].fetch = "geoip" => geoip'
                  /\ srv[s].fetch = "browser" => Wants(s) \in installed'
<1> USE DEF Child, Becomes, FetchedIsThere
<1>1. CASE ChildInstalls(s)
  BY <1>1 DEF ChildInstalls, UpdateType, ServerState
<1>2. CASE ChildActivates(s)
  BY <1>2 DEF ChildActivates, UpdateType, ServerState
<1>3. CASE ChildFindsIt(s)
  BY <1>3 DEF ChildFindsIt, UpdateType, ServerState
<1>4. CASE ChildGetsGeoip(s)
  BY <1>4 DEF ChildGetsGeoip, UpdateType, ServerState
<1>5. CASE ChildFails(s)
  BY <1>5 DEF ChildFails, UpdateType, ServerState, disk
<1> QED
  BY <1>1, <1>2, <1>3, <1>4, <1>5 DEF ChildStep

LEMMA UpdateTypeKept == UpdateInv /\ UpdateStep => UpdateType'
<1> SUFFICES ASSUME UpdateInv, NEW s \in Server, ServerStep(s) \/ ChildStep(s) PROVE UpdateType'
  BY DEF UpdateStep
<1>1. CASE ServerStep(s)
  BY <1>1, ServerMoves, NextStateType DEF UpdateInv, UpdateType, Becomes
<1>2. CASE ChildStep(s)
  BY <1>2, ChildMoves DEF UpdateInv, UpdateType, ServerState
<1> QED
  BY <1>1, <1>2

LEMMA StampKept == UpdateInv /\ UpdateStep => StampHidesNothing'
<1> SUFFICES ASSUME UpdateInv, NEW s \in Server, ServerStep(s) \/ ChildStep(s) PROVE StampHidesNothing'
  BY DEF UpdateStep
<1> USE DEF UpdateInv, StampHidesNothing, disk
<1>1. CASE ColdGeoipEnds(s) \/ RefreshGeoipEnds(s)
  BY <1>1 DEF ColdGeoipEnds, RefreshGeoipEnds, FetchedIsThere, Awaits
<1>2. CASE ServerStep(s) /\ ~(ColdGeoipEnds(s) \/ RefreshGeoipEnds(s))
  BY <1>2 DEF ServerStep, Start, ColdBrowserEnds, RefreshBegins, RefreshBrowserEnds, Stop,
              Reaped, TermExpires, KillExpires, Interrupted, Down
<1>3. CASE ChildStep(s)
  BY <1>3 DEF ChildStep, ChildInstalls, ChildActivates, ChildFindsIt, ChildGetsGeoip, ChildFails
<1> QED
  BY <1>1, <1>2, <1>3

LEMMA FetchedKept == UpdateInv /\ UpdateStep => FetchedIsThere'
<1> SUFFICES ASSUME UpdateInv, NEW s \in Server, ServerStep(s) \/ ChildStep(s) PROVE FetchedIsThere'
  BY DEF UpdateStep
<1>1. CASE ServerStep(s)
  <2>1. PICK r \in NextStates(s) : Becomes(s, r)
    BY <1>1, ServerMoves
  <2> QED
    BY <1>1, <2>1, ServerMoves, NextStateType
    DEF UpdateInv, UpdateType, FetchedIsThere, Becomes, Wants, Pin
<1>2. CASE ChildStep(s)
  <2>1. PICK state : srv' = [srv EXCEPT ![s].child = state]
    BY <1>2, ChildMoves DEF UpdateInv
  <2>2. \A t \in Server \ {s} : srv'[t] = srv[t]
    BY <2>1
  <2>3. srv'[s].fetch = srv[s].fetch
    BY <2>1 DEF UpdateInv, UpdateType, ServerState
  <2> QED
    BY <1>2, <2>2, <2>3, ChildMoves DEF UpdateInv, FetchedIsThere, Wants, Pin
<1> QED
  BY <1>1, <1>2

LEMMA PinsKept == UpdateInv /\ UpdateStep => PinPrevails'
<1> SUFFICES ASSUME UpdateInv, NEW s \in Server, ServerStep(s) \/ ChildStep(s) PROVE PinPrevails'
  BY DEF UpdateStep
<1>1. config' = config /\ \A t \in Server : Pin(t)' = Pin(t) /\ (Pinned(t)' <=> Pinned(t))
  BY ServerMoves, ChildMoves DEF UpdateInv, Pinned, Pin
<1>2. \A t \in Server \ {s} : srv'[t] = srv[t]
  BY ServerMoves, ChildMoves DEF UpdateInv, UpdateType, Becomes
<1> USE DEF UpdateInv, PinPrevails, Phase
\* A step that writes no key and leads from "up" or to neither phase.
<1>0. ASSUME UNCHANGED <<active, overruled>>,
             srv[s].phase = "up" \/ srv'[s].phase \notin {"up", "starting"}
      PROVE  PinPrevails'
  BY <1>0, <1>1, <1>2
<1>3. CASE Start(s)
  <2>1. CASE ReassertPin(s) /\ Present(s)
    BY <1>1, <1>2, <2>1, ReassertPinMakesActive DEF Present, Pinned
  <2>2. CASE UNCHANGED <<active, overruled>> /\ srv'[s].phase \in {"refused", "starting"} /\ srv'[s].fetch # "geoip"
    BY <1>1, <1>2, <2>2
  <2>3. \/ ReassertPin(s) /\ Present(s)
        \/ /\ UNCHANGED <<active, overruled>>
           /\ \/ Becomes(s, [Idle EXCEPT !.phase = "refused"])
              \/ Becomes(s, Fetching([Idle EXCEPT !.phase = "starting"], "browser"))
    BY <1>3 DEF Start
  <2> QED
    BY <2>1, <2>2, <2>3 DEF Becomes, Idle, Fetching, UpdateType
<1>4. CASE ColdBrowserEnds(s) \/ RefreshBrowserEnds(s)
  <2>1. Pinned(s) /\ srv[s].child = "ok" => Pin(s) \in installed
    BY <1>4 DEF ColdBrowserEnds, RefreshBrowserEnds, Awaits, FetchedIsThere, Wants, Pinned
  <2>2. CASE srv[s].child = "ok"
    <3>1. ReassertPin(s)
      BY <1>4, <2>2 DEF ColdBrowserEnds, RefreshBrowserEnds
    <3> QED
      BY <1>1, <1>2, <2>1, <2>2, <3>1, ReassertPinMakesActive
  <2>3. CASE srv[s].child # "ok"
    <3>1. UNCHANGED <<active, overruled>>
      BY <1>4, <2>3 DEF ColdBrowserEnds, RefreshBrowserEnds
    <3>2. CASE ColdBrowserEnds(s)
      BY <1>0, <2>3, <3>1, <3>2 DEF ColdBrowserEnds, Becomes, Idle, UpdateType
    <3>3. CASE RefreshBrowserEnds(s)
      <4>1. srv[s].phase = "up"
        BY <3>3 DEF RefreshBrowserEnds
      <4> QED
        BY <1>0, <3>1, <4>1
    <3> QED
      BY <1>4, <3>2, <3>3
  <2> QED
    BY <2>2, <2>3
<1>5. CASE ServerStep(s) /\ ~Start(s) /\ ~ColdBrowserEnds(s) /\ ~RefreshBrowserEnds(s)
  <2>1. UNCHANGED <<active, overruled>>
    BY <1>5 DEF ServerStep, ColdGeoipEnds, RefreshBegins, RefreshGeoipEnds, Stop, Reaped,
                TermExpires, KillExpires, Interrupted, Down, disk
  <2>2. CASE ColdGeoipEnds(s)
    BY <1>1, <1>2, <2>1, <2>2 DEF ColdGeoipEnds, Awaits
  <2>3. CASE ServerStep(s) /\ ~ColdGeoipEnds(s)
    <3>1. srv'[s].phase \in {"stopping", "down"} \/ srv[s].phase = "up"
      BY <1>5, <2>3 DEF ServerStep, RefreshBegins, RefreshGeoipEnds, Stop, Reaped, TermExpires,
            KillExpires, Interrupted, Down, Becomes, Fetching, Rests, UpdateType, ServerState
    <3> QED
      BY <1>0, <2>1, <3>1
  <2> QED
    BY <1>5, <2>2, <2>3
<1>6. CASE ChildStep(s)
  <2>1. srv'[s].phase = srv[s].phase /\ srv'[s].fetch = srv[s].fetch
    BY <1>6, ChildMoves DEF UpdateType, ServerState
  <2>2. CASE UNCHANGED <<active, overruled>>
    BY <1>1, <1>2, <2>1, <2>2
  <2>3. CASE \E build : Activates(s, build) /\ (Pinned(s) => build = Pin(s))
    <3>1. \A t \in Server : Pinned(t) => active' = Pin(t) \/ t \in overruled'
      BY <1>1, <2>3, ActivatesKeepsPins
    <3> QED
      BY <1>1, <3>1
  <2>4. (Pinned(s) => Wants(s) = Pin(s)) /\ (Pin(s) = NoBuild => ~Pinned(s))
    BY DEF Pinned, Wants
  <2> QED
    BY <1>6, <2>2, <2>3, <2>4 DEF ChildStep, ChildInstalls, ChildActivates, ChildFindsIt,
       ChildGetsGeoip, ChildFails, disk
<1> QED
  BY <1>3, <1>4, <1>5, <1>6 DEF ServerStep

LEMMA UpdateKept == UpdateInv /\ UpdateStep => UpdateInv'
  BY UpdateTypeKept, StampKept, FetchedKept, PinsKept DEF UpdateInv

LEMMA UpdateStutters == UpdateInv /\ UNCHANGED updateVars => UpdateInv'
  BY DEF UpdateInv, UpdateType, StampHidesNothing, FetchedIsThere, PinPrevails, updateVars,
         Wants, Pin, Pinned, Phase

LEMMA UpdateInvariant == Spec => []UpdateInv
<1>1. Init => UpdateInv
  BY UpdateInitInvariant DEF Init
<1>2. UpdateInv /\ [Next]_vars => UpdateInv'
  BY UpdateKept, UpdateStutters DEF Next, UpdateStep, vars
<1> QED
  BY <1>1, <1>2, PTL DEF Spec

\* The throttle never sits on a missing asset: whatever failed, was cut short or ran
\* at the same time, the database is on disk while the stamp is fresh
\* (startup.py, _stamp_if_complete).
THEOREM StampTheorem == Spec => []StampHidesNothing
  BY UpdateInvariant, PTL DEF UpdateInv

\* A server that is up launches the build it is pinned to, unless another server has
\* overruled it or the key could not be written (startup.py, _reassert_pin).
THEOREM PinTheorem == Spec => []PinIsActive
<1>1. UpdateInv => PinIsActive
  BY DEF UpdateInv, PinPrevails, PinIsActive
<1> QED
  BY <1>1, UpdateInvariant, PTL

-----------------------------------------------------------------------------
\* The streams.

Silencing(s) == {l \in Launch : Home[l] = s /\ At(l, "launching")}

\* The depth counts the launches awaited in the silence, and what it saves is the
\* real stream.
StreamsOf(s) ==
    /\ stdio[s].depth = Cardinality(Silencing(s))
    /\ stdio[s].depth = 0 => stdio[s].out = "real"
    /\ stdio[s].depth > 0 => stdio[s].out = "sink" /\ stdio[s].saved = "real"

\* A thread that prints belongs to a launch awaited there, or to one that is over.
PrintersArePlaced == \A l \in Launch : launch[l].prints => launch[l].pc \in {"launching", "over"}

LaunchesHavePlaces ==
    DOMAIN launch = Launch /\ \A l \in Launch : {"pc", "prints"} \subseteq DOMAIN launch[l]
StreamState == [depth : Nat, saved : {"none", "real"}, out : {"real", "sink"}]
StdioType == stdio \in [Server -> StreamState]

StreamsInv ==
    LaunchesHavePlaces /\ StdioType /\ PrintersArePlaced /\ \A s \in Server : StreamsOf(s)

LEMMA SilencingIsFinite == \A s : IsFiniteSet(Silencing(s)) /\ Cardinality(Silencing(s)) \in Nat
  BY LaunchConstants, FS_Subset, FS_CardinalityType DEF Silencing

\* Launch l, and no other, moves, and its thread prints only where it may.
Moves(l) ==
    /\ LaunchesHavePlaces'
    /\ \A m \in Launch \ {l} : launch'[m] = launch[m]
    /\ launch'[l].prints => launch'[l].pc \in {"launching", "over"}

LEMMA StreamUpdates ==
    ASSUME NEW r \in StreamState, NEW d \in Nat
    PROVE  /\ [r EXCEPT !.depth = d] \in StreamState
           /\ [r EXCEPT !.depth = d].depth = d
           /\ [r EXCEPT !.depth = d].saved = r.saved
           /\ [r EXCEPT !.depth = d].out = r.out
  BY DEF StreamState

LEMMA StreamsInit == LaunchInit => StreamsInv
<1> SUFFICES ASSUME LaunchInit PROVE StreamsInv
  OBVIOUS
<1>1. \A s : Silencing(s) = {}
  BY DEF LaunchInit, Silencing, At, New
<1> QED
  <2>1. LaunchesHavePlaces /\ PrintersArePlaced
    BY DEF LaunchInit, LaunchesHavePlaces, PrintersArePlaced, New
  <2>3. StdioType
    BY DEF LaunchInit, StdioType, StreamState
  <2>2. \A s \in Server : StreamsOf(s)
    <3>1. \A s \in Server : stdio[s].depth = 0 /\ stdio[s].out = "real"
      BY DEF LaunchInit
    <3>2. \A s \in Server : Cardinality(Silencing(s)) = 0
      BY <1>1, FS_EmptySet
    <3> SUFFICES ASSUME NEW s \in Server PROVE StreamsOf(s)
      OBVIOUS
    <3>3. stdio[s].depth = 0 /\ Cardinality(Silencing(s)) = 0 /\ stdio[s].out = "real"
      BY <3>1, <3>2
    <3>4. ~(stdio[s].depth > 0)
      BY <3>3, SMT
    <3> QED
      BY <3>3, <3>4 DEF StreamsOf
  <2> QED
    BY <2>1, <2>2, <2>3 DEF StreamsInv

\* A launch that neither begins to print nor ends leaves the streams as they are.
LEMMA StreamsUntouched ==
    ASSUME StreamsInv, UNCHANGED stdio, NEW l \in Launch, Moves(l),
           launch[l].pc = "launching" <=> launch'[l].pc = "launching"
    PROVE  StreamsInv'
<1>1. \A s : Silencing(s)' = Silencing(s)
  BY DEF Silencing, At, Moves
<1> QED
  BY <1>1 DEF StreamsInv, StreamsOf, PrintersArePlaced, Moves, StdioType

LEMMA StreamsQuiet ==
    ASSUME StreamsInv, NEW l \in Launch, Moves(l),
           launch[l].pc # "launching", launch'[l].pc = "launching", Quiet(Home[l])
    PROVE  StreamsInv'
<1> DEFINE h == Home[l]
           r == stdio[h]
           q == [depth |-> r.depth + 1, saved |-> IF r.depth = 0 THEN r.out ELSE r.saved,
                 out |-> "sink"]
<1>0. h \in Server /\ stdio \in [Server -> StreamState] /\ r \in StreamState /\ StreamsOf(h)
  BY LaunchConstants DEF StreamsInv, StdioType
<1>1. stdio' = [stdio EXCEPT ![h] = q]
  BY <1>0 DEF Quiet
<1>2. \A s \in Server \ {h} : Silencing(s)' = Silencing(s) /\ stdio'[s] = stdio[s]
  BY <1>0, <1>1 DEF Silencing, At, Moves
<1>3. Silencing(h)' = Silencing(h) \cup {l} /\ l \notin Silencing(h)
  BY DEF Silencing, At, Moves
<1>4. Cardinality(Silencing(h)') = Cardinality(Silencing(h)) + 1
  BY <1>3, SilencingIsFinite, FS_AddElement
<1>5. (IF r.depth = 0 THEN r.out ELSE r.saved) = "real"
  <2>1. r.depth \in Nat
    BY <1>0 DEF StreamState
  <2> QED
    BY <1>0, <2>1 DEF StreamsOf
<1>6. q \in StreamState /\ q.depth = r.depth + 1 /\ q.out = "sink" /\ q.saved = "real"
  BY <1>0, <1>5 DEF StreamState
<1> HIDE DEF q
<1>7. StdioType' /\ stdio'[h] = q
  BY <1>0, <1>1, <1>6 DEF StdioType
<1>8. StreamsOf(h)'
  <2>1. stdio'[h].depth = Cardinality(Silencing(h)') /\ stdio'[h].depth > 0
    BY <1>0, <1>4, <1>6, <1>7, SilencingIsFinite DEF StreamsOf
  <2> QED
    BY <1>6, <1>7, <2>1 DEF StreamsOf
<1> QED
  BY <1>2, <1>7, <1>8 DEF StreamsInv, StreamsOf, PrintersArePlaced, Moves

LEMMA StreamsLoud ==
    ASSUME StreamsInv, NEW l \in Launch, Moves(l),
           launch[l].pc = "launching", launch'[l].pc # "launching", Loud(Home[l])
    PROVE  StreamsInv'
<1> DEFINE h == Home[l]
           r == stdio[h]
           q == IF r.depth = 1 THEN [depth |-> 0, saved |-> "none", out |-> r.saved]
                               ELSE [r EXCEPT !.depth = r.depth - 1]
<1>0. h \in Server /\ stdio \in [Server -> StreamState] /\ r \in StreamState /\ StreamsOf(h)
  BY LaunchConstants DEF StreamsInv, StdioType
<1>1. stdio' = [stdio EXCEPT ![h] = q]
  BY <1>0 DEF Loud
<1>2. \A s \in Server \ {h} : Silencing(s)' = Silencing(s) /\ stdio'[s] = stdio[s]
  BY <1>0, <1>1 DEF Silencing, At, Moves
<1>3. Silencing(h)' = Silencing(h) \ {l} /\ l \in Silencing(h)
  BY DEF Silencing, At, Moves
<1>4. Cardinality(Silencing(h)') = Cardinality(Silencing(h)) - 1 /\ Cardinality(Silencing(h)) # 0
  BY <1>3, SilencingIsFinite, FS_RemoveElement, FS_EmptySet
<1>5. r.depth \in Nat \ {0} /\ r.out = "sink" /\ r.saved = "real"
  <2>1. r.depth \in Nat
    BY <1>0 DEF StreamState
  <2> QED
    BY <1>0, <1>4, <2>1 DEF StreamsOf
<1>6. /\ q \in StreamState /\ q.depth = r.depth - 1
      /\ r.depth = 1 => q.out = "real"
      /\ r.depth # 1 => q.out = "sink" /\ q.saved = "real"
  <2>1. CASE r.depth = 1
    BY <1>5, <2>1 DEF StreamState
  <2>2. CASE r.depth # 1
    <3>1. q = [r EXCEPT !.depth = r.depth - 1] /\ r.depth - 1 \in Nat
      BY <1>5, <2>2
    <3> HIDE DEF q
    <3> QED
      BY <1>0, <1>5, <2>2, <3>1, StreamUpdates
  <2> QED
    BY <2>1, <2>2
<1> HIDE DEF q
<1>7. StdioType' /\ stdio'[h] = q
  BY <1>0, <1>1, <1>6 DEF StdioType
<1>8. StreamsOf(h)'
  <2>1. stdio'[h].depth = Cardinality(Silencing(h)')
    BY <1>0, <1>4, <1>6, <1>7, SilencingIsFinite DEF StreamsOf
  <2> QED
    BY <1>5, <1>6, <1>7, <2>1 DEF StreamsOf
<1> QED
  BY <1>2, <1>7, <1>8 DEF StreamsInv, StreamsOf, PrintersArePlaced, Moves

LEMMA LaunchMoves ==
    ASSUME LaunchesHavePlaces, PrintersArePlaced, NEW l \in Launch, LaunchStep(l)
    PROVE  Moves(l)
<1>1. {"pc", "prints"} \subseteq DOMAIN launch[l] /\ DOMAIN launch = Launch
  BY DEF LaunchesHavePlaces
<1>2. launch[l].prints => launch[l].pc \in {"launching", "over"}
  BY DEF PrintersArePlaced
<1>3. \E r : /\ launch' = [launch EXCEPT ![l] = r] /\ {"pc", "prints"} \subseteq DOMAIN r
             /\ r.prints => r.pc \in {"launching", "over"}
  <2> USE <1>1, <1>2 DEF At, Sets, Goes, Continues, Over, New, Downloading
  <2>1. CASE Prepare(l) \/ Write(l)
    <3>1. PICK pc, n : launch' = [launch EXCEPT ![l] = [New EXCEPT !.tmp = TRUE, !.pc = pc]]
                    \/ launch' = [launch EXCEPT ![l] = [launch[l] EXCEPT !.blocks = n]]
      BY <2>1 DEF Prepare, Write
    <3> QED
      BY <3>1
  <2>2. CASE Open(l) \/ Rename(l)
    <3>1. PICK f, n : launch' = [launch EXCEPT ![l] = [launch[l] EXCEPT !.pc = "write", !.file = f]]
                   \/ launch' = [launch EXCEPT ![l] = [launch[l] EXCEPT !.pc = "unlink", !.blocks = n]]
      BY <2>2 DEF Open, Rename
    <3>2. launch[l].pc \in {"open", "write"}
      BY <2>2 DEF Open, Rename
    <3> QED
      BY <3>1, <3>2
  <2>3. CASE DownloadFails(l) \/ Unlink(l) \/ Extract(l) \/ DriverStarts(l)
    BY <2>3 DEF DownloadFails, Unlink, Extract, DriverStarts
  <2>4. CASE NewBrowser(l) \/ Printed(l) \/ BrowserRuns(l) \/ LaunchFails(l)
    BY <2>4 DEF NewBrowser, Printed, BrowserRuns, LaunchFails
  <2>5. CASE PageOpens(l) \/ Closes(l) \/ Cancelled(l)
    BY <2>5 DEF PageOpens, Closes, Cancelled
  <2> QED
    BY <2>1, <2>3, <2>4, <2>5, <2>2 DEF LaunchStep
<1> QED
  BY <1>1, <1>3 DEF LaunchesHavePlaces, Moves

\* One step for each action: of which of the three kinds it is.
LEMMA StreamsKept == StreamsInv /\ (\E l \in Launch : LaunchStep(l)) => StreamsInv'
<1> SUFFICES ASSUME StreamsInv, NEW l \in Launch, LaunchStep(l) PROVE StreamsInv'
  OBVIOUS
<1>0. Moves(l) /\ {"pc", "prints"} \subseteq DOMAIN launch[l] /\ DOMAIN launch = Launch
  BY LaunchMoves DEF StreamsInv, LaunchesHavePlaces
<1> USE <1>0 DEF At, Sets, Goes, Continues, Over, New, Downloading, cache
<1>1. CASE Prepare(l)
  BY <1>1, StreamsUntouched DEF Prepare
<1>2. CASE Open(l)
  BY <1>2, StreamsUntouched DEF Open
<1>3. CASE Write(l)
  BY <1>3, StreamsUntouched DEF Write
<1>4. CASE Rename(l)
  BY <1>4, StreamsUntouched DEF Rename
<1>5. CASE DownloadFails(l)
  BY <1>5, StreamsUntouched DEF DownloadFails
<1>6. CASE Unlink(l)
  BY <1>6, StreamsUntouched DEF Unlink
<1>7. CASE Extract(l)
  BY <1>7, StreamsUntouched DEF Extract
<1>8. CASE DriverStarts(l)
  BY <1>8, StreamsUntouched DEF DriverStarts
<1>9. CASE PageOpens(l)
  BY <1>9, StreamsUntouched DEF PageOpens
<1>10. CASE Closes(l)
  BY <1>10, StreamsUntouched DEF Closes
<1>11. CASE Cancelled(l)
  BY <1>11, StreamsUntouched DEF Cancelled
<1>12. CASE NewBrowser(l)
  BY <1>12, StreamsQuiet DEF NewBrowser
<1>13. CASE BrowserRuns(l)
  BY <1>13, StreamsLoud DEF BrowserRuns
<1>14. CASE LaunchFails(l)
  BY <1>14, StreamsLoud, StreamsUntouched DEF LaunchFails
<1>15. CASE Printed(l)
  BY <1>15, StreamsUntouched DEF Printed
<1> QED
  BY <1>1, <1>2, <1>3, <1>4, <1>5, <1>6, <1>7, <1>8, <1>9, <1>10, <1>11, <1>12, <1>13, <1>14, <1>15
  DEF LaunchStep

LEMMA StreamsInvariant == Spec => []StreamsInv
<1>1. Init => StreamsInv
  BY StreamsInit DEF Init
<1>2. StreamsInv /\ UNCHANGED launchVars => StreamsInv'
  BY DEF StreamsInv, LaunchesHavePlaces, PrintersArePlaced, StdioType, StreamsOf, Silencing, At,
         launchVars
<1>3. StreamsInv /\ [Next]_vars => StreamsInv'
  BY <1>2, StreamsKept DEF Next, vars
<1> QED
  BY <1>1, <1>3, PTL DEF Spec

\* However the launches of a server overlap, fail and are cancelled, what Camoufox
\* prints is silenced while its launch is awaited, and a server none of whose
\* launches is awaited is not left silent (quiet.py, _StdioSilencer).
THEOREM StreamsTheorem == Spec => []SilencedWhileAwaited
<1>1. StreamsInv => SilencedWhileAwaited
  <2> SUFFICES ASSUME StreamsInv, NEW s \in Server
               PROVE  /\ \A l \in Launch : Home[l] = s /\ launch[l].prints /\ stdio[s].out = "real"
                                               => At(l, "over")
                      /\ stdio[s].out = "sink" => \E l \in Launch : Home[l] = s /\ At(l, "launching")
    BY DEF SilencedWhileAwaited
  <2>1. stdio[s].depth = 0 <=> Silencing(s) = {}
    BY SilencingIsFinite, FS_EmptySet DEF StreamsInv, StreamsOf
  <2>2. stdio[s].out = "sink" <=> stdio[s].depth # 0
    BY DEF StreamsInv, StreamsOf, StdioType, StreamState
  <2>3. (stdio[s].out = "sink" <=> Silencing(s) # {}) /\ (stdio[s].out = "real" => stdio[s].out # "sink")
    BY <2>1, <2>2
  <2> QED
    BY <2>3 DEF StreamsInv, PrintersArePlaced, Silencing, At
<1> QED
  BY <1>1, StreamsInvariant, PTL

-----------------------------------------------------------------------------
\* The addon cache.

Fields == {"pc", "file", "blocks"}

\* While no two downloads have overlapped, and none was hung up on: at most one writes, and to a file of its
\* own that is not the one in the cache; what has the ".part" name is its file, or the
\* leaving of one that is about to unlink it; and nobody who may still create a file
\* will create the one in the cache.
OneWrites == \A l, m \in Launch : At(l, "write") /\ At(m, "write") => l = m
WriterOwns ==
    \A l \in Launch : At(l, "write") =>
        /\ launch[l].file \in Launch /\ launch[l].file # cached
        /\ part \in {launch[l].file, NoFile}
        /\ launch[l].blocks \in 0..2 /\ file[launch[l].file] = 1..launch[l].blocks
        /\ \A m \in Launch : launch[m].pc \in {"new", "open"} => launch[l].file # m
PartIsSomeones == part # NoFile => \E l \in Launch : launch[l].pc \in {"write", "unlink"}
CachedIsMade == \A l \in Launch : launch[l].pc \in {"new", "open"} => cached # l
OpensAtZero == \A l \in Launch : At(l, "open") => launch[l].blocks = 0
CachedIsWhole == cached # NoFile => cached \in Launch /\ file[cached] = Block

CacheIsOrderly ==
    OneWrites /\ WriterOwns /\ PartIsSomeones /\ CachedIsMade /\ OpensAtZero /\ CachedIsWhole

CacheInv ==
    /\ DOMAIN launch = Launch /\ \A l \in Launch : Fields \subseteq DOMAIN launch[l]
    /\ DOMAIN file = Launch
    /\ ~marred => CacheIsOrderly

LEMMA CacheInit == LaunchInit => CacheInv
  BY LaunchConstants DEF LaunchInit, CacheInv, CacheIsOrderly, OneWrites, WriterOwns, PartIsSomeones, CachedIsMade, OpensAtZero, CachedIsWhole,
     New, At, Fields

\* A step of one launch that is not one of its download.
LEMMA CacheUntouched ==
    ASSUME CacheInv, NEW l \in Launch, NEW r, Sets(l, r), UNCHANGED cache, Fields \subseteq DOMAIN r,
           r.pc \in {"write", "unlink"} <=> launch[l].pc \in {"write", "unlink"},
           r.pc = "write" => launch[l].pc = "write" /\ r.file = launch[l].file /\ r.blocks = launch[l].blocks,
           r.pc \in {"new", "open"} => launch[l].pc \in {"new", "open"},
           r.pc = "open" => r.blocks = 0
    PROVE  CacheInv'
<1>1. DOMAIN launch' = Launch /\ launch'[l] = r /\ \A m \in Launch \ {l} : launch'[m] = launch[m]
  BY DEF CacheInv, Sets
<1>2. CASE marred
  BY <1>1, <1>2 DEF CacheInv, cache
<1>3. CASE ~marred
  <2>1. CacheIsOrderly
    BY <1>3 DEF CacheInv
  <2>2. \A m \in Launch : launch'[m].pc \in {"write", "unlink"} <=> launch[m].pc \in {"write", "unlink"}
    BY <1>1
  <2>3. \A m \in Launch : launch'[m].pc = "write" =>
           /\ launch[m].pc = "write"
           /\ launch'[m].file = launch[m].file /\ launch'[m].blocks = launch[m].blocks
    BY <1>1
  <2>4. \A m \in Launch : launch'[m].pc \in {"new", "open"} => launch[m].pc \in {"new", "open"}
    BY <1>1
  <2>5. OpensAtZero'
    BY <1>1, <2>1 DEF CacheIsOrderly, OpensAtZero, At
  <2>6. OneWrites' /\ PartIsSomeones' /\ CachedIsMade' /\ CachedIsWhole'
    BY <2>1, <2>2, <2>3, <2>4
    DEF CacheIsOrderly, OneWrites, PartIsSomeones, CachedIsMade, CachedIsWhole, At, cache
  <2>7. WriterOwns'
    BY <2>1, <2>3, <2>4 DEF CacheIsOrderly, WriterOwns, At, cache
  <2> QED
    BY <1>1, <2>5, <2>6, <2>7 DEF CacheInv, CacheIsOrderly, cache
<1> QED
  BY <1>2, <1>3

LEMMA CacheOpen ==
    ASSUME CacheInv, NEW l \in Launch, Open(l)
    PROVE  CacheInv'
<1> DEFINE f == IF part = NoFile THEN l ELSE part
           r == [launch[l] EXCEPT !.pc = "write", !.file = f]
<1>1. /\ launch[l].pc = "open" /\ file' = [file EXCEPT ![f] = {}] /\ part' = f /\ cached' = cached
      /\ launch' = [launch EXCEPT ![l] = r]
      /\ marred' = (marred \/ \E m \in Launch \ {l} : launch[m].pc \in Downloading)
  BY DEF Open, At, Sets
<1>2. Fields \subseteq DOMAIN r /\ r.pc = "write" /\ r.file = f /\ r.blocks = launch[l].blocks
  BY DEF CacheInv, Fields
<1> HIDE DEF r
<1>3. DOMAIN launch' = Launch /\ launch'[l] = r /\ \A m \in Launch \ {l} : launch'[m] = launch[m]
  BY <1>1 DEF CacheInv
<1>4. ASSUME ~marred' PROVE CacheIsOrderly'
  <2>1. /\ CacheIsOrderly
        /\ \A m \in Launch \ {l} : launch[m].pc \notin {"open", "write", "unlink"}
    BY <1>1, <1>4 DEF CacheInv, Downloading
  <2>2. part = NoFile /\ f = l
    BY <1>1, <2>1 DEF CacheIsOrderly, PartIsSomeones
  <2>3. launch[l].blocks = 0 /\ cached # l
    BY <1>1, <2>1 DEF CacheIsOrderly, OpensAtZero, CachedIsMade, At
  <2>4. file'[l] = {} /\ \A g \in Launch \ {l} : file'[g] = file[g]
    BY <1>1, <2>2 DEF CacheInv
  <2>5. 1..0 = {}
    OBVIOUS
  <2>6. \A m \in Launch : launch'[m].pc = "write" => m = l
    BY <1>3, <2>1
  <2>7. /\ launch'[l].file = l /\ part' = l /\ cached' = cached /\ cached # l
        /\ launch'[l].blocks = 0 /\ file'[l] = 1..0
    BY <1>1, <1>2, <1>3, <2>2, <2>3, <2>4, <2>5
  <2>8. \A m \in Launch : launch'[m].pc \in {"new", "open"} => m # l /\ launch[m].pc \in {"new", "open"}
    BY <1>2, <1>3
  <2>9. CachedIsWhole'
    BY <1>1, <2>1, <2>3, <2>4 DEF CacheIsOrderly, CachedIsWhole
  <2>10. OneWrites'
    BY <2>6 DEF OneWrites, At
  <2>11. WriterOwns'
    <3>1. /\ launch'[l].file \in Launch /\ launch'[l].file # cached'
          /\ part' \in {launch'[l].file, NoFile}
      BY <2>7
    <3>2. launch'[l].blocks \in 0..2 /\ file'[launch'[l].file] = 1..launch'[l].blocks
      BY <2>7
    <3>3. \A m \in Launch : launch'[m].pc \in {"new", "open"} => launch'[l].file # m
      BY <2>7, <2>8
    <3> QED
      BY <2>6, <3>1, <3>2, <3>3, Zenon DEF WriterOwns, At
  <2>12. PartIsSomeones'
    BY <1>2, <1>3 DEF PartIsSomeones
  <2>13. CachedIsMade'
    BY <1>1, <2>1, <2>8 DEF CacheIsOrderly, CachedIsMade
  <2>14. OpensAtZero'
    BY <1>3, <2>1, <2>8 DEF CacheIsOrderly, OpensAtZero, At
  <2> QED
    BY <2>9, <2>10, <2>11, <2>12, <2>13, <2>14 DEF CacheIsOrderly
<1> QED
  BY <1>1, <1>2, <1>3, <1>4 DEF CacheInv

LEMMA CacheWrite ==
    ASSUME CacheInv, NEW l \in Launch, Write(l)
    PROVE  CacheInv'
<1> DEFINE n == launch[l].blocks + 1
           f == launch[l].file
           r == [launch[l] EXCEPT !.blocks = n]
<1>1. /\ launch[l].pc = "write" /\ n \in 1..2 /\ UNCHANGED <<cached, part, marred>>
      /\ file' = [file EXCEPT ![f] = file[f] \cup {n}] /\ launch' = [launch EXCEPT ![l] = r]
  BY DEF Write, At, Sets, Block
<1>2. Fields \subseteq DOMAIN r /\ r.pc = "write" /\ r.file = f /\ r.blocks = n
  BY <1>1 DEF CacheInv, Fields
<1> HIDE DEF r
<1>3. DOMAIN launch' = Launch /\ launch'[l] = r /\ \A m \in Launch \ {l} : launch'[m] = launch[m]
  BY <1>1 DEF CacheInv
<1>4. ASSUME ~marred PROVE CacheIsOrderly'
  <2>1. CacheIsOrderly
    BY <1>4 DEF CacheInv
  <2>2. /\ f \in Launch /\ f # cached /\ part \in {f, NoFile}
        /\ launch[l].blocks \in 0..2 /\ file[f] = 1..launch[l].blocks
    BY <1>1, <2>1 DEF CacheIsOrderly, WriterOwns, At
  <2>3. n \in 0..2 /\ (1..launch[l].blocks) \cup {n} = 1..n
    BY <1>1, <2>2
  <2>4. file'[f] = 1..n /\ \A g \in Launch \ {f} : file'[g] = file[g]
    BY <1>1, <2>2, <2>3 DEF CacheInv
  <2>5. \A m \in Launch : launch'[m].pc = "write" => m = l
    BY <1>1, <1>3, <2>1 DEF CacheIsOrderly, OneWrites, At
  <2>6. \A m \in Launch : launch'[m].pc \in {"new", "open"} => m # l /\ launch'[m] = launch[m]
    BY <1>2, <1>3
  <2>7. CachedIsWhole'
    BY <1>1, <2>1, <2>2, <2>4 DEF CacheIsOrderly, CachedIsWhole
  <2>8. OneWrites'
    BY <2>5 DEF OneWrites, At
  <2>9. WriterOwns'
    <3>1. \A m \in Launch : launch[m].pc \in {"new", "open"} => f # m
      BY <1>1, <2>1 DEF CacheIsOrderly, WriterOwns, At
    <3> HIDE DEF n, f
    <3> QED
      BY <1>1, <1>2, <1>3, <2>2, <2>3, <2>4, <2>5, <2>6, <3>1 DEF WriterOwns, At
  <2>10. PartIsSomeones'
    BY <1>2, <1>3 DEF PartIsSomeones
  <2>11. CachedIsMade'
    BY <1>1, <2>1, <2>6 DEF CacheIsOrderly, CachedIsMade
  <2>12. OpensAtZero'
    BY <2>1, <2>6 DEF CacheIsOrderly, OpensAtZero, At
  <2> QED
    BY <2>7, <2>8, <2>9, <2>10, <2>11, <2>12 DEF CacheIsOrderly
<1> QED
  BY <1>1, <1>2, <1>3, <1>4 DEF CacheInv

LEMMA CacheRename ==
    ASSUME CacheInv, NEW l \in Launch, Rename(l)
    PROVE  CacheInv'
<1>1. /\ launch[l].pc = "write" /\ UNCHANGED file
      /\ marred' = (marred \/ launch[l].blocks # 2)
      /\ part' = NoFile /\ cached' = IF part = NoFile THEN cached ELSE part
  BY DEF Rename, At
<1>2. /\ DOMAIN launch' = Launch /\ launch'[l].pc = "unlink" /\ Fields \subseteq DOMAIN launch'[l]
      /\ \A m \in Launch \ {l} : launch'[m] = launch[m]
  BY DEF CacheInv, Fields, Rename, Sets
<1>3. ASSUME ~marred' PROVE CacheIsOrderly'
  <2>1. CacheIsOrderly /\ launch[l].blocks = 2
    BY <1>1, <1>3 DEF CacheInv
  <2>2. \A m \in Launch : launch'[m].pc # "write"
    BY <1>1, <1>2, <2>1 DEF CacheIsOrderly, OneWrites, At
  <2>3. /\ launch[l].file \in Launch /\ part \in {launch[l].file, NoFile} /\ file[launch[l].file] = 1..2
        /\ \A m \in Launch : launch[m].pc \in {"new", "open"} => launch[l].file # m
    BY <1>1, <2>1 DEF CacheIsOrderly, WriterOwns, At
  <2>4. CachedIsWhole'
    BY <1>1, <2>1, <2>3 DEF CacheIsOrderly, CachedIsWhole, Block
  <2>5. \A m \in Launch : launch'[m].pc \in {"new", "open"} => launch'[m] = launch[m]
    BY <1>2
  <2>6. CachedIsMade'
    BY <1>1, <2>1, <2>3, <2>5 DEF CacheIsOrderly, CachedIsMade
  <2>7. OpensAtZero'
    BY <2>1, <2>5 DEF CacheIsOrderly, OpensAtZero, At
  <2>8. OneWrites' /\ WriterOwns' /\ PartIsSomeones'
    BY <1>1, <2>2 DEF OneWrites, WriterOwns, PartIsSomeones, At
  <2> QED
    BY <2>4, <2>6, <2>7, <2>8 DEF CacheIsOrderly
<1> QED
  BY <1>1, <1>2, <1>3 DEF CacheInv

\* Failing leaves what was written to a name that is about to be unlinked.
LEMMA CacheFails ==
    ASSUME CacheInv, NEW l \in Launch, DownloadFails(l)
    PROVE  CacheInv'
<1>1. UNCHANGED cache /\ launch[l].pc \in {"open", "write"}
  BY DEF DownloadFails
<1>2. /\ DOMAIN launch' = Launch /\ launch'[l].pc = "unlink" /\ Fields \subseteq DOMAIN launch'[l]
      /\ \A m \in Launch \ {l} : launch'[m] = launch[m]
  BY DEF CacheInv, Fields, DownloadFails, Sets
<1>3. ASSUME ~marred PROVE CacheIsOrderly'
  <2>1. CacheIsOrderly
    BY <1>3 DEF CacheInv
  <2>2. \A m \in Launch : launch'[m].pc \in {"new", "open", "write"} => launch'[m] = launch[m]
    BY <1>2
  <2>3. OneWrites' /\ CachedIsMade' /\ OpensAtZero' /\ CachedIsWhole'
    BY <1>1, <2>1, <2>2 DEF CacheIsOrderly, OneWrites, CachedIsMade, OpensAtZero, CachedIsWhole, At, cache
  <2>4. WriterOwns'
    BY <1>1, <2>1, <2>2 DEF CacheIsOrderly, WriterOwns, At, cache
  <2>5. PartIsSomeones'
    BY <1>2 DEF PartIsSomeones
  <2> QED
    BY <2>3, <2>4, <2>5 DEF CacheIsOrderly
<1> QED
  BY <1>1, <1>2, <1>3 DEF CacheInv, cache

LEMMA CacheUnlink ==
    ASSUME CacheInv, NEW l \in Launch, Unlink(l)
    PROVE  CacheInv'
<1>1. UNCHANGED <<file, cached, marred>> /\ part' = NoFile
  BY DEF Unlink
<1>2. /\ DOMAIN launch' = Launch /\ launch'[l].pc \in {"over", "extract", "prepared"}
      /\ Fields \subseteq DOMAIN launch'[l] /\ \A m \in Launch \ {l} : launch'[m] = launch[m]
  BY DEF CacheInv, Fields, Unlink, Continues, Goes, Sets
<1>3. ASSUME ~marred PROVE CacheIsOrderly'
  <2>1. CacheIsOrderly
    BY <1>3 DEF CacheInv
  <2>2. \A m \in Launch : launch'[m].pc \in {"new", "open", "write"} => launch'[m] = launch[m]
    BY <1>2
  <2>3. OneWrites' /\ CachedIsMade' /\ OpensAtZero' /\ CachedIsWhole'
    BY <1>1, <2>1, <2>2 DEF CacheIsOrderly, OneWrites, CachedIsMade, OpensAtZero, CachedIsWhole, At
  <2>4. WriterOwns'
    BY <1>1, <2>1, <2>2 DEF CacheIsOrderly, WriterOwns, At
  <2>5. PartIsSomeones'
    BY <1>1 DEF PartIsSomeones
  <2> QED
    BY <2>3, <2>4, <2>5 DEF CacheIsOrderly
<1> QED
  BY <1>1, <1>2, <1>3 DEF CacheInv

\* One step for each action.
LEMMA CacheKept == CacheInv /\ (\E l \in Launch : LaunchStep(l)) => CacheInv'
<1> SUFFICES ASSUME CacheInv, NEW l \in Launch, LaunchStep(l) PROVE CacheInv'
  OBVIOUS
<1>0. DOMAIN launch = Launch /\ Fields \subseteq DOMAIN launch[l]
  BY DEF CacheInv
<1> USE <1>0 DEF Fields
<1>1. CASE Prepare(l)
  BY <1>1, CacheUntouched DEF Prepare, New, At
<1>2. CASE Open(l)
  BY <1>2, CacheOpen
<1>3. CASE Write(l)
  BY <1>3, CacheWrite
<1>4. CASE Rename(l)
  BY <1>4, CacheRename
<1>5. CASE DownloadFails(l)
  BY <1>5, CacheFails
<1>6. CASE Unlink(l)
  BY <1>6, CacheUnlink
<1>7. CASE Extract(l)
  BY <1>7, CacheUntouched DEF Extract, Continues, Goes, At
<1>8. CASE DriverStarts(l) \/ NewBrowser(l) \/ BrowserRuns(l) \/ PageOpens(l)
  BY <1>8, CacheUntouched DEF DriverStarts, NewBrowser, BrowserRuns, PageOpens, Goes, At
<1>9. CASE LaunchFails(l) \/ Closes(l)
  BY <1>9, CacheUntouched DEF LaunchFails, Closes, Over, New, At
<1>10. CASE Cancelled(l)
  <2>1. UNCHANGED cache
    BY <1>10 DEF Cancelled
  <2>2. CASE At(l, "opening") /\ Sets(l, [launch[l] EXCEPT !.pc = "over", !.cut = TRUE])
    BY <2>1, <2>2, CacheUntouched DEF At
  <2>3. CASE Sets(l, [launch[l] EXCEPT !.cut = TRUE])
    <3>1. launch[l].pc = "open" => marred \/ launch[l].blocks = 0
      BY DEF CacheInv, CacheIsOrderly, OpensAtZero, At
    <3>2. CASE marred
      BY <2>1, <2>3, <3>2 DEF CacheInv, Sets, cache
    <3>3. CASE ~marred
      BY <2>1, <2>3, <3>1, <3>3, CacheUntouched
    <3> QED
      BY <3>2, <3>3
  <2> QED
    BY <1>10, <2>2, <2>3 DEF Cancelled
<1>11. CASE Printed(l)
  <2>1. UNCHANGED cache /\ Sets(l, [launch[l] EXCEPT !.prints = FALSE])
    BY <1>11 DEF Printed
  <2>2. launch[l].pc = "open" => marred \/ launch[l].blocks = 0
    BY DEF CacheInv, CacheIsOrderly, OpensAtZero, At
  <2>3. CASE marred
    BY <2>1, <2>3 DEF CacheInv, Sets, cache
  <2>4. CASE ~marred
    BY <2>1, <2>2, <2>4, CacheUntouched
  <2> QED
    BY <2>3, <2>4
<1> QED
  BY <1>1, <1>2, <1>3, <1>4, <1>5, <1>6, <1>7, <1>8, <1>9, <1>10, <1>11 DEF LaunchStep

\* As long as no two downloads overlapped and none was hung up on, whatever fails or is
\* cancelled between the creation of a ".part" file and its unlinking leaves no torn
\* archive in the cache (addons.py, _download_sync).
THEOREM WholeTheorem == Spec => []WholeUnlessMarred
<1>1. Init => CacheInv
  BY CacheInit DEF Init
<1>2. CacheInv /\ UNCHANGED launchVars => CacheInv'
  BY DEF CacheInv, CacheIsOrderly, OneWrites, WriterOwns, PartIsSomeones, CachedIsMade, OpensAtZero,
         CachedIsWhole, At, launchVars
<1>3. CacheInv /\ [Next]_vars => CacheInv'
  BY <1>2, CacheKept DEF Next, vars
<1>4. CacheInv => WholeUnlessMarred
  BY DEF CacheInv, CacheIsOrderly, CachedIsWhole, WholeUnlessMarred
<1> QED
  BY <1>1, <1>3, <1>4, PTL DEF Spec
=============================================================================
