--------------------------- MODULE DaemonSpawnProofs ---------------------------
(***************************************************************************)
(* One daemon, and it is advertised, for any number of proxies, daemons,   *)
(* codes and data dirs, on a machine that keeps the deadlines (~Slow,      *)
(* ~Stalls, ~Pauses) and leaves a proxy alone while its daemon comes up.   *)
(*                                                                         *)
(* The argument: a daemon comes up under the spawn lock, which its spawner *)
(* keeps until it answers; and whoever is about to spawn, or to unlink     *)
(* what is advertised, has seen under the lock that nobody serves.         *)
(***************************************************************************)
EXTENDS DaemonSpawn, TLAPS

\* Every deadline is kept, no probe of a serving daemon goes unanswered, nobody
\* publishes into an unlink, and no proxy is killed while it waits for its daemon.
Punctual == ~Stalls /\ ~Slow /\ ~Pauses /\ "polling" \notin KillAt

Codes == {Code[p] : p \in Proxy} \cup {NoOne}
Adverts == {"none", "pointer", "socket"} \X (Daemon \cup {0})

TypeOK ==
    /\ platform \in Platform
    /\ pointer \in Daemon \cup {0}
    /\ socket \in Daemon \cup {0}
    /\ phase \in [Daemon -> Phase]
    /\ code \in [Daemon -> Codes]
    /\ held \subseteq Daemon
    /\ spawned \in Nat
    /\ lock \in Proxy \cup {NoOne}
    /\ pc \in [Proxy -> {"idle", "killed"} \cup Unlocked \cup Locked]
    /\ saw \in [Proxy -> Adverts]

\* Whoever is in spawn_locked has the lock.
LockIsHeld == \A p \in Proxy : pc[p] \in Locked => lock = p

\* A daemon comes up under the eyes of its spawner.
UpUnderLock ==
    \A d \in Daemon : StartsUp(d) => \E p \in Proxy : pc[p] = "polling" /\ code[d] = Code[p]

\* A proxy that has found nobody to answer.
Cleared(p) == pc[p] \in {"reclaiming", "unlinking", "popping"}

\* From then on there is nobody, until the daemon it spawns listens.
ClearedRightly ==
    /\ \A p \in Proxy : Cleared(p) =>
          Answering = 0 /\ \A d \in Daemon : phase[d] \notin {"booting", "bound", "serving"}
    /\ \A d \in Daemon : StartsUp(d) => Answering = 0

\* Between bind and listen the pointer is the daemon's own.
BoundIsPointer == \A d \in Daemon : phase[d] = "bound" => pointer = d

\* A daemon that is to unlink what is published will not unlink another's.
UnlinksItsOwn ==
    \A d, e \in Daemon : phase[d] = "unlinking" => phase[e] \notin {"bound", "serving"}

IInv ==
    /\ TypeOK
    /\ OneDaemon
    /\ Advertised
    /\ LockIsHeld
    /\ UpUnderLock
    /\ ClearedRightly
    /\ BoundIsPointer
    /\ UnlinksItsOwn

-----------------------------------------------------------------------------

LEMMA InitInvariant == Init => IInv
<1> SUFFICES ASSUME Init PROVE IInv
  OBVIOUS
<1> USE SpawnConstants DEF Init
<1>1. TypeOK
  BY DEF TypeOK, Platform, Phase, Codes, Adverts, NoAdvert, Daemon
<1>2. OneDaemon /\ Advertised /\ UpUnderLock /\ BoundIsPointer /\ UnlinksItsOwn
  BY DEF OneDaemon, Advertised, UpUnderLock, BoundIsPointer, UnlinksItsOwn, StartsUp
<1>3. LockIsHeld /\ ClearedRightly
  BY DEF LockIsHeld, ClearedRightly, Locked, Cleared, StartsUp
<1>4. QED
  BY <1>1, <1>2, <1>3 DEF IInv

LEMMA AdvertIdType == TypeOK => AdvertId \in Adverts
BY DEF TypeOK, AdvertId, Adverts, NoAdvert

LEMMA AnsweringType == TypeOK => Answering \in Daemon \cup {0}
BY DEF TypeOK, Answering, Address

LEMMA TypeInvariant ==
    ASSUME SpawnConstants, TypeOK, [Next]_vars
    PROVE  TypeOK'
<1> USE SpawnConstants, AdvertIdType, AnsweringType DEF TypeOK
<1>1. ASSUME NEW d \in Daemon, Lives(d) \/ Hold(d) \/ LetGo(d) \/ GoIdle(d) \/ Crash(d)
      PROVE  TypeOK'
  <2>1. CASE Bind(d)
    BY <2>1 DEF Bind, Enters, Publishes, proxyVars, Phase
  <2>2. CASE Listen(d)
    BY <2>2 DEF Listen, Enters, proxyVars, Phase
  <2>3. CASE StopServing(d)
    BY <2>3 DEF StopServing, Enters, proxyVars, Phase
  <2>4. CASE Release(d)
    BY <2>4 DEF Release, Enters, fileVars, proxyVars, Phase
  <2>5. CASE ReleaseUnlinks(d)
    BY <2>5 DEF ReleaseUnlinks, Enters, Unlink, proxyVars, Phase
  <2>6. CASE Hold(d) \/ LetGo(d)
    BY <2>6 DEF Hold, LetGo, fileVars, proxyVars
  <2>7. CASE GoIdle(d) \/ Crash(d)
    BY <2>7 DEF GoIdle, Crash, Enters, fileVars, proxyVars, Phase
  <2>8. QED
    BY <1>1, <2>1, <2>2, <2>3, <2>4, <2>5, <2>6, <2>7 DEF Lives
<1>2. ASSUME NEW p \in Proxy, Ensure(p) \/ Steps(p) \/ LockTimesOut(p) \/ Killed(p)
      PROVE  TypeOK'
  <2> USE DEF Goto, Returns, Leaves, Forgets, Unlocked, Locked
  <2>1. CASE Ensure(p) \/ Look(p) \/ WaitUnpublished(p) \/ LockTimesOut(p)
    BY <2>1 DEF Ensure, Look, WaitUnpublished, LockTimesOut, fileVars, daemonVars
  <2>2. CASE RequestShutdown(p)
    BY <2>2 DEF RequestShutdown, fileVars, Phase
  <2>3. CASE Acquire(p) \/ Recheck(p) \/ Healthy(p) \/ HealthyTimesOut(p)
    BY <2>3 DEF Acquire, Recheck, Healthy, HealthyTimesOut, fileVars, daemonVars
  <2>4. CASE Inspect(p)
    BY <2>4 DEF Inspect, fileVars, daemonVars
  <2>5. CASE Probe(p) \/ Reclaim(p) \/ Killed(p)
    <3>1. NoAdvert \in Adverts
      BY DEF NoAdvert, Adverts
    <3>2. QED
      BY <2>5, <3>1 DEF Probe, Reclaim, Killed, fileVars, daemonVars
  <2>6. CASE ReclaimUnlinks(p)
    BY <2>6 DEF ReclaimUnlinks, Unlink, daemonVars
  <2>7. CASE Popen(p)
    <3>1. CASE spawned < MaxDaemons /\ spawned' = spawned + 1 /\ Enters(spawned', "booting")
               /\ code' = [code EXCEPT ![spawned'] = Code[p]] /\ Goto(p, "polling")
               /\ UNCHANGED lock
      <4>1. spawned' \in Daemon /\ Code[p] \in Codes
        BY <3>1 DEF Daemon, Codes
      <4>2. code' \in [Daemon -> Codes] /\ phase' \in [Daemon -> Phase]
        BY <3>1, <4>1 DEF Enters, Phase
      <4>3. QED
        BY <2>7, <3>1, <4>2 DEF Popen, fileVars
    <3>2. CASE Leaves(p) /\ UNCHANGED <<phase, code, spawned>>
      BY <2>7, <3>2 DEF Popen, fileVars
    <3>3. QED
      BY <2>7, <3>1, <3>2 DEF Popen
  <2>8. QED
    BY <1>2, <2>1, <2>2, <2>3, <2>4, <2>5, <2>6, <2>7 DEF Steps
<1>3. CASE UNCHANGED vars
  BY <1>3 DEF vars, fileVars, daemonVars, proxyVars
<1>4. QED
  BY <1>1, <1>2, <1>3 DEF Next

-----------------------------------------------------------------------------

\* The daemons' own steps.
LEMMA DaemonKeepsInv ==
    ASSUME SpawnConstants, Punctual, IInv, TypeOK', NEW d \in Daemon,
           Lives(d) \/ Hold(d) \/ LetGo(d) \/ GoIdle(d) \/ Crash(d)
    PROVE  IInv'
<1> USE SpawnConstants DEF IInv, TypeOK, proxyVars, fileVars, Enters, Daemon
<1>1. LockIsHeld'
  BY DEF LockIsHeld, Lives, Bind, Listen, StopServing, Release, ReleaseUnlinks, Hold, LetGo,
         GoIdle, Crash
<1>2. CASE Bind(d)
  <2>1. Unlinking = {} /\ \A e \in Daemon : phase[e] \in {"booting", "bound", "serving"} => e = d
    BY <1>2 DEF Bind, Punctual, OneDaemon
  <2>2. OneDaemon' /\ Advertised' /\ BoundIsPointer' /\ UnlinksItsOwn'
    BY <1>2, <2>1 DEF Bind, Publishes, Unlinking, OneDaemon, Advertised, Address, BoundIsPointer,
                      UnlinksItsOwn
  <2>3. UpUnderLock'
    BY <1>2 DEF Bind, UpUnderLock, StartsUp
  <2>4. ClearedRightly'
    BY <1>2, <2>1 DEF Bind, Publishes, ClearedRightly, Cleared, Answering, Address, StartsUp
  <2>5. QED
    BY <1>1, <2>2, <2>3, <2>4
<1>3. CASE Listen(d)
  <2>1. \A e \in Daemon : phase[e] \in {"booting", "bound", "serving"} => e = d
    BY <1>3 DEF Listen, OneDaemon
  <2>2. OneDaemon' /\ Advertised' /\ BoundIsPointer' /\ UnlinksItsOwn'
    BY <1>3, <2>1 DEF Listen, OneDaemon, Advertised, Address, BoundIsPointer, UnlinksItsOwn,
                      Platform
  <2>3. UpUnderLock'
    BY <1>3 DEF Listen, UpUnderLock, StartsUp
  <2>4. ClearedRightly'
    BY <1>3, <2>1 DEF Listen, ClearedRightly, Cleared, StartsUp
  <2>5. QED
    BY <1>1, <2>2, <2>3, <2>4
<1>4. CASE StopServing(d) \/ GoIdle(d) \/ Crash(d)
  <2>1. OneDaemon' /\ Advertised' /\ BoundIsPointer' /\ UnlinksItsOwn'
    BY <1>4 DEF StopServing, GoIdle, Crash, OneDaemon, Advertised, Address, BoundIsPointer,
                UnlinksItsOwn
  <2>2. UpUnderLock'
    BY <1>4 DEF StopServing, GoIdle, Crash, UpUnderLock, StartsUp
  <2>3. ClearedRightly'
    BY <1>4 DEF StopServing, GoIdle, Crash, ClearedRightly, Cleared, Answering, Address, StartsUp
  <2>4. QED
    BY <1>1, <2>1, <2>2, <2>3
<1>5. CASE Release(d) \/ ReleaseUnlinks(d)
  <2>1. OneDaemon' /\ Advertised' /\ BoundIsPointer' /\ UnlinksItsOwn'
    BY <1>5 DEF Release, ReleaseUnlinks, Owns, AdvertId, NoAdvert, Unlink, OneDaemon, Advertised,
                Address, BoundIsPointer, UnlinksItsOwn
  <2>2. UpUnderLock'
    BY <1>5 DEF Release, ReleaseUnlinks, UpUnderLock, StartsUp
  <2>3. ClearedRightly'
    BY <1>5 DEF Release, ReleaseUnlinks, Unlink, ClearedRightly, Cleared, Answering, Address,
                StartsUp
  <2>4. QED
    BY <1>1, <2>1, <2>2, <2>3
<1>6. CASE Hold(d) \/ LetGo(d)
  BY <1>6, <1>1 DEF Hold, LetGo, OneDaemon, Advertised, Address, BoundIsPointer, UnlinksItsOwn,
             UpUnderLock, StartsUp, ClearedRightly, Cleared, Answering
<1>7. QED
  BY <1>2, <1>3, <1>4, <1>5, <1>6 DEF Lives

\* A step that leaves the daemons and their files alone disturbs only what is said
\* of the proxies.
LEMMA FilesAndDaemonsKept ==
    ASSUME OneDaemon, Advertised, BoundIsPointer, UnlinksItsOwn,
           UNCHANGED <<fileVars, phase>>
    PROVE  OneDaemon' /\ Advertised' /\ BoundIsPointer' /\ UnlinksItsOwn' /\ Answering' = Answering
BY DEF fileVars, OneDaemon, Advertised, Address, BoundIsPointer, UnlinksItsOwn, Answering

\* A proxy that neither waits for its daemon nor comes to do so, nor to be cleared.
LEMMA ProxyMoves ==
    ASSUME IInv, TypeOK', NEW p \in Proxy, NEW end, pc' = [pc EXCEPT ![p] = end],
           pc[p] # "polling", end # "polling", Cleared(p)' => Cleared(p),
           LockIsHeld', UNCHANGED <<fileVars, daemonVars>>
    PROVE  IInv'
<1> USE DEF IInv, TypeOK
<1>1. OneDaemon' /\ Advertised' /\ BoundIsPointer' /\ UnlinksItsOwn' /\ Answering' = Answering
  BY FilesAndDaemonsKept DEF daemonVars
<1>2. UpUnderLock'
  BY DEF UpUnderLock, StartsUp, daemonVars
<1>3. ClearedRightly'
  BY <1>1 DEF ClearedRightly, Cleared, StartsUp, daemonVars
<1>4. QED
  BY <1>1, <1>2, <1>3

LEMMA ProxyKeepsInv ==
    ASSUME SpawnConstants, Punctual, IInv, TypeOK', NEW p \in Proxy,
           Ensure(p) \/ Steps(p) \/ LockTimesOut(p) \/ Killed(p)
    PROVE  IInv'
<1> USE SpawnConstants DEF IInv, TypeOK
<1>1. LockIsHeld'
  <2> USE DEF LockIsHeld, Goto, Returns, Leaves, Locked
  <2>1. CASE Ensure(p) \/ Look(p) \/ RequestShutdown(p) \/ WaitUnpublished(p) \/ Acquire(p)
             \/ LockTimesOut(p) \/ Killed(p)
    BY <2>1 DEF Ensure, Look, RequestShutdown, WaitUnpublished, Acquire, LockTimesOut, Killed
  <2>2. CASE Recheck(p) \/ Inspect(p) \/ Probe(p) \/ Reclaim(p) \/ ReclaimUnlinks(p)
    BY <2>2 DEF Recheck, Inspect, Probe, Reclaim, ReclaimUnlinks
  <2>3. CASE Popen(p) \/ Healthy(p) \/ HealthyTimesOut(p)
    BY <2>3 DEF Popen, Healthy, HealthyTimesOut
  <2>4. QED
    BY <2>1, <2>2, <2>3 DEF Steps
<1>2. CASE Ensure(p) \/ Look(p) \/ WaitUnpublished(p) \/ Acquire(p) \/ LockTimesOut(p)
  <2>1. PICK end \in {"idle", "looking", "waiting", "shutting", "locking", "rechecking"} :
            pc' = [pc EXCEPT ![p] = end]
    BY <1>2 DEF Ensure, Look, WaitUnpublished, Acquire, LockTimesOut, Goto, Returns
  <2>2. pc[p] # "polling" /\ UNCHANGED <<fileVars, daemonVars>> /\ ~Cleared(p)'
    BY <1>2, <2>1 DEF Ensure, Look, WaitUnpublished, Acquire, LockTimesOut, Cleared
  <2>3. QED
    BY <1>1, <2>1, <2>2, ProxyMoves
<1>3. CASE RequestShutdown(p)
  <2>1. OneDaemon' /\ Advertised' /\ BoundIsPointer' /\ UnlinksItsOwn' /\ Answering' = Answering
    BY <1>3, AnsweringType DEF RequestShutdown, fileVars, OneDaemon, Advertised, Address,
       BoundIsPointer, UnlinksItsOwn, Answering
  <2>2. \A d \in Daemon : phase'[d] # phase[d] => phase[d] = "serving" /\ phase'[d] = "closing"
    BY <1>3, AnsweringType DEF RequestShutdown, Answering
  <2>3. UpUnderLock' /\ ClearedRightly'
    BY <1>3, <2>1, <2>2 DEF RequestShutdown, UpUnderLock, ClearedRightly, Cleared, StartsUp, Goto
  <2>4. QED
    BY <1>1, <2>1, <2>3
<1>4. CASE Recheck(p)
  <2>1. PICK end \in {"idle", "inspecting"} : pc' = [pc EXCEPT ![p] = end]
    BY <1>4 DEF Recheck, Goto, Returns, Leaves
  <2>2. pc[p] # "polling" /\ UNCHANGED <<fileVars, daemonVars>> /\ ~Cleared(p)'
    BY <1>4, <2>1 DEF Recheck, Cleared
  <2>3. QED
    BY <1>1, <2>1, <2>2, ProxyMoves
<1>5. CASE Inspect(p) \/ Probe(p)
  \* No advert, or no answer from whoever is advertised: nobody serves, and under the
  \* lock nobody comes up.
  <2>1. UNCHANGED <<fileVars, daemonVars>> /\ pc[p] # "polling" /\ lock = p
    BY <1>5 DEF Inspect, Probe, LockIsHeld, Locked
  <2>2. OneDaemon' /\ Advertised' /\ BoundIsPointer' /\ UnlinksItsOwn' /\ Answering' = Answering
    BY <2>1, FilesAndDaemonsKept DEF daemonVars
  <2>3. \A d \in Daemon : ~StartsUp(d)
    BY <2>1 DEF UpUnderLock, LockIsHeld, Locked
  <2>4. PICK end \in {"idle", "probing", "popping", "reclaiming"} : pc' = [pc EXCEPT ![p] = end]
    BY <1>5 DEF Inspect, Probe, Goto, Returns, Leaves
  <2>5. CASE Cleared(p)'
    <3>1. Answering = 0
      BY <1>5, <2>4, <2>5, AnsweringType DEF Inspect, Probe, Goto, Returns, Leaves, Cleared, Probed,
         Punctual, AdvertId, NoAdvert, Answering, Address
    <3>2. \A d \in Daemon : phase[d] # "serving"
      BY <3>1 DEF Advertised, Answering, Daemon
    <3>3. ClearedRightly'
      BY <2>1, <2>2, <2>3, <2>4, <3>1, <3>2 DEF ClearedRightly, Cleared, StartsUp, daemonVars
    <3>4. UpUnderLock'
      BY <2>1, <2>3 DEF UpUnderLock, StartsUp, daemonVars
    <3>5. QED
      BY <1>1, <2>2, <3>3, <3>4
  <2>6. CASE ~Cleared(p)'
    BY <1>1, <2>1, <2>4, <2>6, ProxyMoves DEF Cleared
  <2>7. QED
    BY <2>5, <2>6
<1>6. CASE Reclaim(p)
  <2>1. PICK end \in {"idle", "unlinking"} : pc' = [pc EXCEPT ![p] = end]
    BY <1>6 DEF Reclaim, Goto, Returns, Leaves
  <2>2. pc[p] = "reclaiming" /\ UNCHANGED <<fileVars, daemonVars>>
    BY <1>6 DEF Reclaim
  <2>3. QED
    BY <1>1, <2>1, <2>2, ProxyMoves DEF Cleared
<1>7. CASE ReclaimUnlinks(p)
  <2>1. \A d \in Daemon : phase[d] \notin {"booting", "bound", "serving"}
    BY <1>7 DEF ReclaimUnlinks, ClearedRightly, Cleared
  <2>2. OneDaemon' /\ Advertised' /\ BoundIsPointer' /\ UnlinksItsOwn' /\ UpUnderLock'
    BY <1>7, <2>1 DEF ReclaimUnlinks, daemonVars, OneDaemon, Advertised, BoundIsPointer,
       UnlinksItsOwn, UpUnderLock, StartsUp
  <2>3. ClearedRightly'
    BY <1>7, <2>1 DEF ReclaimUnlinks, Unlink, daemonVars, ClearedRightly, StartsUp, Answering, Address
  <2>4. QED
    BY <1>1, <2>2, <2>3
<1>8. CASE Popen(p)
  <2>1. \A d \in Daemon : phase[d] \notin {"booting", "bound", "serving"}
    BY <1>8 DEF Popen, ClearedRightly, Cleared
  <2>2. lock = p /\ Answering = 0 /\ UNCHANGED fileVars
    BY <1>8 DEF Popen, LockIsHeld, Locked, ClearedRightly, Cleared
  <2>3. CASE spawned < MaxDaemons /\ spawned' = spawned + 1 /\ Enters(spawned', "booting")
             /\ code' = [code EXCEPT ![spawned'] = Code[p]] /\ Goto(p, "polling")
    <3>1. spawned + 1 \in Daemon
      BY <2>3 DEF Daemon
    <3>2. \A d \in Daemon : phase'[d] = IF d = spawned + 1 THEN "booting" ELSE phase[d]
      BY <2>3, <3>1 DEF Enters
    <3>3. OneDaemon' /\ Advertised' /\ BoundIsPointer' /\ UnlinksItsOwn'
      BY <2>1, <3>2 DEF OneDaemon, Advertised, BoundIsPointer, UnlinksItsOwn
    <3>4. UpUnderLock'
      BY <2>1, <2>3, <3>1, <3>2 DEF UpUnderLock, StartsUp, Goto
    <3>5. Answering' = 0
      BY <2>2, <3>2 DEF fileVars, Answering, Address
    <3>6. \A q \in Proxy : ~Cleared(q)'
      BY <1>1, <1>8, <2>2, <2>3 DEF Popen, LockIsHeld, Locked, Cleared, Goto
    <3>7. QED
      BY <1>1, <3>3, <3>4, <3>5, <3>6 DEF ClearedRightly
  <2>4. CASE Leaves(p) /\ UNCHANGED <<phase, code, spawned>>
    <3>1. UNCHANGED <<fileVars, daemonVars>> /\ pc' = [pc EXCEPT ![p] = "idle"]
      BY <1>8, <2>4 DEF Popen, Leaves, Returns, Goto, daemonVars
    <3>2. pc[p] = "popping"
      BY <1>8 DEF Popen
    <3>3. QED
      BY <1>1, <3>1, <3>2, ProxyMoves DEF Cleared
  <2>5. QED
    BY <1>8, <2>3, <2>4 DEF Popen
<1>9. CASE Healthy(p) \/ HealthyTimesOut(p)
  \* The daemon it waits for is up, or is no more.
  <2>1. UNCHANGED <<fileVars, daemonVars>> /\ pc[p] = "polling" /\ lock = p
        /\ pc' = [pc EXCEPT ![p] = "idle"]
    BY <1>9 DEF Healthy, HealthyTimesOut, Leaves, Returns, Goto, LockIsHeld, Locked
  <2>2. ASSUME NEW d \in Daemon, StartsUp(d) PROVE FALSE
    <3>1. code[d] = Code[p] /\ Answering = 0
      BY <2>1, <2>2 DEF UpUnderLock, LockIsHeld, Locked, ClearedRightly
    <3>2. QED
      BY <1>9, <2>2, <3>1 DEF Healthy, HealthyTimesOut, Matches, Punctual, Daemon
  <2>3. OneDaemon' /\ Advertised' /\ BoundIsPointer' /\ UnlinksItsOwn' /\ Answering' = Answering
    BY <2>1, FilesAndDaemonsKept DEF daemonVars
  <2>4. UpUnderLock' /\ ClearedRightly'
    BY <2>1, <2>2, <2>3 DEF UpUnderLock, ClearedRightly, Cleared, StartsUp, daemonVars
  <2>5. QED
    BY <1>1, <2>3, <2>4
<1>10. CASE Killed(p)
  <2>1. pc[p] # "polling" /\ pc' = [pc EXCEPT ![p] = "killed"] /\ UNCHANGED <<fileVars, daemonVars>>
    BY <1>10 DEF Killed, Punctual, Goto
  <2>2. QED
    BY <1>1, <2>1, ProxyMoves DEF Cleared
<1>11. QED
  BY <1>2, <1>3, <1>4, <1>5, <1>6, <1>7, <1>8, <1>9, <1>10 DEF Steps

LEMMA NextInvariant ==
    ASSUME SpawnConstants, Punctual, IInv, [Next]_vars
    PROVE  IInv'
<1>1. TypeOK'
  BY TypeInvariant DEF IInv
<1>2. ASSUME NEW d \in Daemon, Lives(d) \/ Hold(d) \/ LetGo(d) \/ GoIdle(d) \/ Crash(d)
      PROVE  IInv'
  BY <1>1, <1>2, DaemonKeepsInv
<1>3. ASSUME NEW p \in Proxy, Ensure(p) \/ Steps(p) \/ LockTimesOut(p) \/ Killed(p)
      PROVE  IInv'
  BY <1>1, <1>3, ProxyKeepsInv
<1>4. CASE UNCHANGED vars
  <2>1. OneDaemon' /\ Advertised' /\ BoundIsPointer' /\ UnlinksItsOwn' /\ Answering' = Answering
    BY <1>4, FilesAndDaemonsKept DEF vars, daemonVars, IInv
  <2>2. LockIsHeld' /\ UpUnderLock' /\ ClearedRightly'
    BY <1>4, <2>1 DEF vars, daemonVars, proxyVars, IInv, LockIsHeld, UpUnderLock, ClearedRightly,
                      Cleared, StartsUp
  <2>3. QED
    BY <1>1, <2>1, <2>2 DEF IInv
<1>5. QED
  BY <1>2, <1>3, <1>4 DEF Next

-----------------------------------------------------------------------------

\* The invariant holds on a machine that keeps its deadlines.
THEOREM Invariance ==
    ASSUME Punctual
    PROVE  Spec => []IInv
<1>1. IInv /\ [Next]_vars => IInv'
  BY NextInvariant, SpawnConstants
<1>2. QED
  BY <1>1, InitInvariant, PTL DEF Spec

\* Concurrent proxies, of one version or of several, never have two daemons that are
\* not on their way out (spawn.py:37).
THEOREM OneDaemonTheorem ==
    ASSUME Punctual
    PROVE  Spec => []OneDaemon
<1>1. IInv => OneDaemon
  BY DEF IInv
<1>2. QED
  BY <1>1, Invariance, PTL

\* A daemon that serves is the one both files lead to, whoever reclaims, unlinks or
\* publishes around it (endpoint.py, cleanup_if_owned).
THEOREM AdvertisedTheorem ==
    ASSUME Punctual
    PROVE  Spec => []Advertised
<1>1. IInv => Advertised
  BY DEF IInv
<1>2. QED
  BY <1>1, Invariance, PTL
=============================================================================
