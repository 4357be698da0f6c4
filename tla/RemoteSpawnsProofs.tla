------------------------- MODULE RemoteSpawnsProofs -------------------------
(***************************************************************************)
(* How the bodies of remote players come and go: the threads of a client   *)
(* use the registry as EntityRegistry promises, the spawn queue and the    *)
(* caps stay in their bounds, and the orchestrator's stages and engines    *)
(* keep their promises.                                                    *)
(***************************************************************************)
EXTENDS MCRemoteSpawns, EntityRegistryProofs, FiniteSetTheorems, TLAPS

-----------------------------------------------------------------------------
(* The two threads and the registry.                                       *)

\* Requests as they are queued: there is a try left.
Queued == [id : ServerIds, retry : 0 .. MaxRetries - 1]

\* The registry holds ids of the server only: no own character is registered here.
MapTypes ==
    /\ entities = [id \in DOMAIN entities |-> entities[id]]
    /\ ptrToId = [o \in DOMAIN ptrToId |-> ptrToId[o]]
    /\ DOMAIN entities \subseteq ServerIds

WorldTypes ==
    /\ connected \in BOOLEAN /\ loaded \in BOOLEAN /\ ready \in BOOLEAN /\ needReset \in BOOLEAN
    /\ live \in [ServerIds -> {"unborn", "live", "gone"}]
    /\ deferred \in Seq(ServerIds) /\ queue \in Seq(Queued)
    /\ spare \subseteq Objects

NetTypes ==
    /\ net = [pc |-> net.pc, batch |-> net.batch, id |-> net.id, object |-> net.object, rest |-> net.rest]
    /\ net.pc \in {"idle", "deferred", "register", "lookup", "link", "queue", "unlink",
                   "unregister", "leave", "sweep"}
    /\ net.batch \in BOOLEAN /\ net.object \in Objects \cup {NoObject} /\ net.rest \subseteq ServerIds
    /\ net.pc \in {"register", "lookup", "link", "queue", "unlink", "unregister"} => net.id \in ServerIds

GameTypes ==
    /\ game = [pc |-> game.pc, id |-> game.id, retry |-> game.retry, object |-> game.object, rest |-> game.rest]
    /\ game.pc \in {"idle", "popped", "lookup", "link", "create", "hijack", "stuck", "orphan",
                    "clearQueue", "loaded", "loadLoop", "loadLink"}
    /\ game.retry \in 0 .. MaxRetries - 1 /\ game.object \in Objects \cup {NoObject}
    /\ game.rest \subseteq ServerIds
    /\ game.pc \in {"popped", "lookup", "link", "create", "hijack", "stuck", "orphan", "loadLink"} => game.id \in ServerIds

\* A request that passed the check of the cap may be counted once more.
CapTypes ==
    /\ direct \in [Players -> 0 .. DirectCap] /\ hijacks \in [Players -> 0 .. HijackCap]
    /\ game.pc \in {"lookup", "link", "create"} => direct[OwnerOf[game.id]] < DirectCap

SpawnInv == MapTypes /\ WorldTypes /\ NetTypes /\ GameTypes /\ CapTypes

\* Every use the two threads make of the registry.
RegistryUse ==
    \/ \E id \in ServerIds, p \in Players, z \in Zones : RegisterRemote(id, p, z)
    \/ \E id \in ServerIds, o \in Objects \cup {NoObject} : SetGameObject(id, o)
    \/ \E id \in ServerIds : Unregister(id)
    \/ ClearRemoteEntities
    \/ Clear

LEMMA SpawnBounds ==
    /\ DirectCap \in Nat /\ HijackCap \in Nat /\ MaxRetries \in Nat /\ MaxRetries > 0
    /\ \A id \in ServerIds : OwnerOf[id] \in Players /\ ModCharOf[OwnerOf[id]] \in Objects \cup {NoObject}
    /\ Zone \in Zones
<1>1. \A n \in Nat \ {0} : n \in Nat /\ n > 0
  OBVIOUS
<1>2. DirectCap \in Nat /\ HijackCap \in Nat /\ MaxRetries \in Nat \ {0}
  BY SpawnAssumption
<1>3. /\ OwnerOf \in [ServerIds -> Players] /\ ModCharOf \in [Players -> Objects \cup {NoObject}]
      /\ \E z \in Zones : TRUE
  BY SpawnAssumption
<1>4. Zone \in Zones
  BY <1>3 DEF Zone
<1> QED
  BY <1>1, <1>2, <1>3, <1>4

\* What the registry's methods keep of its maps.
LEMMA UseKeepsMaps ==
    ASSUME MapTypes, RegistryUse \/ UNCHANGED registry
    PROVE  MapTypes'
<1>3. CASE UNCHANGED registry
  BY <1>3 DEF registry, MapTypes
<1>4. ASSUME NEW id \in ServerIds, NEW p \in Players, NEW z \in Zones, RegisterRemote(id, p, z)
      PROVE  MapTypes'
  <2>1. CASE id \in DOMAIN entities
    BY <1>4, <2>1 DEF RegisterRemote, registry, MapTypes
  <2>2. CASE id \notin DOMAIN entities
    <3> DEFINE info == [object |-> NoObject, owner |-> p, zone |-> z, remote |-> TRUE, state |-> "Spawning"]
    <3>1. entities' = With(entities, id, info) /\ ptrToId' = ptrToId
      BY <1>4, <2>2 DEF RegisterRemote
    <3> HIDE DEF info
    <3>2. DOMAIN entities' = DOMAIN entities \cup {id} /\ entities' = [x \in DOMAIN entities' |-> entities'[x]]
      BY <3>1 DEF With
    <3> QED
      BY <3>1, <3>2 DEF MapTypes
  <2> QED
    BY <2>1, <2>2
<1>5. ASSUME NEW id \in ServerIds, NEW o \in Objects \cup {NoObject}, SetGameObject(id, o)
      PROVE  MapTypes'
  <2>1. CASE id \notin DOMAIN entities
    BY <1>5, <2>1 DEF SetGameObject, registry, MapTypes
  <2>2. CASE id \in DOMAIN entities
    <3> DEFINE obj == IF o \in BadObjects THEN NoObject ELSE o
               kept == Without(ptrToId, ObjectsOf({id}))
    <3>1. /\ entities' = [entities EXCEPT ![id].object = obj,
                             ![id].state = IF obj # NoObject THEN "Active" ELSE @]
          /\ ptrToId' = IF obj # NoObject THEN With(kept, obj, id) ELSE kept
      BY <1>5, <2>2 DEF SetGameObject
    <3>2. kept = [x \in DOMAIN kept |-> kept[x]]
      BY DEF Without
    <3> HIDE DEF obj, kept
    <3>3. DOMAIN entities' = DOMAIN entities /\ entities' = [x \in DOMAIN entities' |-> entities'[x]]
      BY <3>1 DEF MapTypes
    <3>4. ptrToId' = [x \in DOMAIN ptrToId' |-> ptrToId'[x]]
      <4>1. CASE obj # NoObject
        <5>1. ptrToId' = With(kept, obj, id)
          BY <3>1, <4>1
        <5> QED
          BY <5>1 DEF With
      <4>2. CASE obj = NoObject
        BY <3>1, <3>2, <4>2
      <4> QED
        BY <4>1, <4>2
    <3> QED
      BY <3>3, <3>4 DEF MapTypes
  <2> QED
    BY <2>1, <2>2
<1>6. ASSUME NEW S, Erase(S)
      PROVE  MapTypes'
  <2>1. DOMAIN entities' = DOMAIN entities \ S /\ entities' = [x \in DOMAIN entities' |-> entities'[x]]
    BY <1>6 DEF Erase, Without
  <2>2. ptrToId' = [x \in DOMAIN ptrToId' |-> ptrToId'[x]]
    BY <1>6 DEF Erase, Without
  <2> QED
    BY <2>1, <2>2 DEF MapTypes
<1>7. CASE Clear
  BY <1>7 DEF Clear, MapTypes
<1> QED
  BY <1>3, <1>4, <1>5, <1>6, <1>7 DEF RegistryUse, Unregister, ClearRemoteEntities

\* And every use is a call that the registry allows, or none.
LEMMA UseIsCall ==
    ASSUME MapTypes, RegistryUse \/ UNCHANGED registry
    PROVE  [Call]_registry
<1>1. ASSUME NEW id \in ServerIds, NEW p \in Players, NEW z \in Zones, RegisterRemote(id, p, z)
      PROVE  [Call]_registry
  BY <1>1 DEF Call
<1>2. ASSUME NEW id \in ServerIds, NEW o \in Objects \cup {NoObject}, SetGameObject(id, o)
      PROVE  [Call]_registry
  <2>1. CASE id \in DOMAIN entities
    BY <1>2, <2>1 DEF Call
  <2>2. CASE id \notin DOMAIN entities
    BY <1>2, <2>2 DEF SetGameObject
  <2> QED
    BY <2>1, <2>2
<1>3. ASSUME NEW id \in ServerIds, Unregister(id)
      PROVE  [Call]_registry
  <2>1. CASE id \in DOMAIN entities
    BY <1>3, <2>1 DEF Call
  <2>2. CASE id \notin DOMAIN entities
    <3>1. Erase({})
      <4>1. {id} \cap DOMAIN entities = {}
        BY <2>2
      <4> QED
        BY <1>3, <4>1 DEF Unregister
    <3>2. ObjectsOf({}) = {}
      BY DEF ObjectsOf
    <3>3. /\ entities' = [x \in DOMAIN entities |-> entities[x]]
          /\ ptrToId' = [x \in DOMAIN ptrToId |-> ptrToId[x]]
          /\ nextId' = nextId
      BY <3>1, <3>2 DEF Erase, Without
    <3> QED
      BY <3>3 DEF MapTypes, registry
  <2> QED
    BY <2>1, <2>2
<1> QED
  BY <1>1, <1>2, <1>3 DEF RegistryUse, Call

LEMMA Decremented ==
    ASSUME NEW n \in Nat, NEW f \in [Players -> 0 .. n], NEW p
    PROVE  DecrementSpawnCount(f, p) \in [Players -> 0 .. n]
<1>1. \A k \in 0 .. n : (IF k > 0 THEN k - 1 ELSE 0) \in 0 .. n
  OBVIOUS
<1> QED
  BY <1>1 DEF DecrementSpawnCount

\* A set's elements one after the other.
LEMMA SequenceOf ==
    ASSUME NEW T, NEW S \in SUBSET T, IsFiniteSet(S)
    PROVE  SetToSeq(S) \in Seq(T)
<1> DEFINE n == Cardinality(S)
<1>1. n \in Nat /\ ExistsBijection(1 .. n, S)
  BY FS_CardinalityType
<1> HIDE DEF n
<1>2. \E f \in [1 .. n -> S] : IsInjective(f)
  BY <1>1 DEF ExistsBijection, Bijection, Injection, Surjection
<1>3. (CHOOSE f \in [1 .. n -> S] : IsInjective(f)) \in [1 .. n -> S]
  BY <1>2
<1>4. SetToSeq(S) \in [1 .. n -> S]
  BY <1>3 DEF n, SetToSeq
<1> QED
  BY <1>1, <1>4

\* A request that is tried again has a try left.
LEMMA RetryQueued ==
    ASSUME NEW r \in Queued
    PROVE  SetToSeq(Retry(r)) \in Seq(Queued)
<1>1. Retry(r) \subseteq Queued
  <2>1. CASE r.retry + 1 < MaxRetries
    <3>1. r.retry \in 0 .. MaxRetries - 1 /\ r.id \in ServerIds
      BY DEF Queued
    <3>2. r.retry + 1 \in 0 .. MaxRetries - 1
      BY <2>1, <3>1, SpawnBounds
    <3>3. [r EXCEPT !.retry = @ + 1] \in Queued
      BY <3>2 DEF Queued
    <3> QED
      BY <2>1, <3>3 DEF Retry
  <2>2. CASE ~(r.retry + 1 < MaxRetries)
    BY <2>2 DEF Retry
  <2> QED
    BY <2>1, <2>2
<1>2. IsFiniteSet(Retry(r))
  BY FS_EmptySet, FS_Singleton DEF Retry
<1> QED
  BY <1>1, <1>2, SequenceOf

\* The requests of other players stay in the queue.
LEMMA FilteredQueue ==
    ASSUME queue \in Seq(Queued), NEW p
    PROVE  ClearSpawnsForOwner(p) \in Seq(Queued)
<1> DEFINE n == Len(queue)
           After(s, k) == IF OwnerOf[queue[k].id] = p THEN s ELSE Append(s, queue[k])
           Filters(f, m) == f = [k \in 0 .. m |-> IF k = 0 THEN << >> ELSE After(f[k - 1], k)]
           Unfiltered == {m \in 0 .. n : ~\E f : Filters(f, m)}
           filtered == CHOOSE f : Filters(f, n)
           Wrong == {k \in 0 .. n : filtered[k] \notin Seq(Queued)}
<1>1. n \in Nat /\ \A k \in 1 .. n : queue[k] \in Queued
  OBVIOUS
<1>2. Unfiltered = {}
  <2> SUFFICES ASSUME Unfiltered # {} PROVE FALSE
    OBVIOUS
  <2>1. PICK m \in Unfiltered : \A k \in Unfiltered : m <= k
    <3>1. Unfiltered \subseteq Nat
      BY <1>1
    <3> HIDE DEF Unfiltered
    <3> QED
      BY <3>1, LeastExists
  <2>2. m \in 0 .. n /\ ~\E f : Filters(f, m)
    OBVIOUS
  <2>3. m # 0
    <3> SUFFICES ASSUME m = 0 PROVE FALSE
      OBVIOUS
    <3> DEFINE f == [k \in 0 .. 0 |-> << >>]
    <3>1. \A k \in 0 .. 0 : k = 0
      OBVIOUS
    <3>2. Filters(f, 0)
      BY <3>1
    <3> QED
      BY <2>2, <3>2
  <2>4. m - 1 \in 0 .. n /\ m - 1 < m
    BY <1>1, <2>2, <2>3
  <2>5. PICK f : Filters(f, m - 1)
    <3>1. m - 1 \notin Unfiltered
      <4> HIDE DEF Unfiltered
      <4>1. m \in Nat
        BY <1>1, <2>2
      <4> QED
        BY <2>1, <2>4, <4>1
    <3> HIDE DEF Filters
    <3> QED
      BY <2>4, <3>1
  <2> DEFINE g == [k \in 0 .. m |-> IF k = m THEN After(f[m - 1], m) ELSE f[k]]
  <2> HIDE DEF After
  <2>6. \A k \in 0 .. m - 1 : f[k] = IF k = 0 THEN << >> ELSE After(f[k - 1], k)
    BY <2>5
  <2>7. \A k \in 0 .. m : g[k] = IF k = 0 THEN << >> ELSE After(g[k - 1], k)
    <3> SUFFICES ASSUME NEW k \in 0 .. m PROVE g[k] = IF k = 0 THEN << >> ELSE After(g[k - 1], k)
      OBVIOUS
    <3>1. CASE k = m
      <4>1. m - 1 \in 0 .. m /\ m - 1 # m /\ k # 0
        BY <2>2, <2>3, <3>1
      <4> QED
        BY <3>1, <4>1
    <3>2. CASE k # m
      <4>1. k \in 0 .. m - 1 /\ (k # 0 => k - 1 \in 0 .. m /\ k - 1 # m)
        BY <2>2, <3>2
      <4> QED
        BY <2>6, <3>2, <4>1
    <3> QED
      BY <3>1, <3>2
  <2>8. Filters(g, m)
    BY <2>7
  <2> QED
    BY <2>2, <2>8
<1>3. Filters(filtered, n)
  <2> HIDE DEF Filters
  <2>1. \E f : Filters(f, n)
    <3>1. n \in 0 .. n
      BY <1>1
    <3> QED
      BY <1>2, <3>1
  <2> QED
    BY <2>1
<1>4. ClearSpawnsForOwner(p) = filtered[n]
  BY DEF ClearSpawnsForOwner
<1> HIDE DEF filtered
<1>5. Wrong = {}
  <2> SUFFICES ASSUME Wrong # {} PROVE FALSE
    OBVIOUS
  <2>1. PICK k \in Wrong : \A j \in Wrong : k <= j
    <3>1. Wrong \subseteq Nat
      BY <1>1
    <3> HIDE DEF Wrong
    <3> QED
      BY <3>1, LeastExists
  <2>2. filtered[k] = IF k = 0 THEN << >> ELSE After(filtered[k - 1], k)
    <3>1. k \in 0 .. n
      BY <2>1
    <3> HIDE DEF n, After
    <3> QED
      BY <1>3, <3>1
  <2>3. k # 0
    <3>1. filtered[k] \notin Seq(Queued) /\ << >> \in Seq(Queued)
      BY <2>1
    <3> HIDE DEF Wrong
    <3> QED
      BY <2>2, <3>1
  <2>4. k - 1 \in 0 .. n /\ k - 1 < k /\ k \in 1 .. n
    BY <1>1, <2>1, <2>3
  <2>5. filtered[k - 1] \in Seq(Queued)
    BY <2>1, <2>4
  <2>6. After(filtered[k - 1], k) \in Seq(Queued)
    BY <1>1, <2>4, <2>5
  <2> QED
    BY <2>1, <2>2, <2>3, <2>6
<1> QED
  BY <1>1, <1>4, <1>5

\* The handler of a spawn message and the loop over the deferred ones.
LEMMA SpawnHandlers ==
    ASSUME SpawnInv,
           \/ \E id \in ServerIds : ReceiveSpawn(id)
           \/ ReceiveAllReady \/ NextDeferred \/ NetRegister \/ NetLookup \/ NetLink \/ NetQueueSpawn
    PROVE  /\ WorldTypes' /\ NetTypes' /\ GameTypes' /\ CapTypes'
           /\ RegistryUse \/ UNCHANGED registry
<1> USE DEF SpawnInv
<1>1. ASSUME NEW id \in ServerIds, ReceiveSpawn(id)
      PROVE  WorldTypes' /\ NetTypes' /\ GameTypes' /\ CapTypes' /\ UNCHANGED registry
  <2>1. /\ live' = [live EXCEPT ![id] = "live"]
        /\ \/ net' = [NetIdle EXCEPT !.pc = "register", !.id = id] /\ UNCHANGED deferred
           \/ deferred' = Append(deferred, id) /\ UNCHANGED net
        /\ UNCHANGED <<registry, session, queue, game, caps, spare>>
    BY <1>1 DEF ReceiveSpawn
  <2>2. WorldTypes'
    <3>1. live' \in [ServerIds -> {"unborn", "live", "gone"}]
      BY <2>1 DEF WorldTypes
    <3>2. deferred \in Seq(ServerIds) /\ (deferred' = deferred \/ deferred' = Append(deferred, id))
      BY <2>1 DEF WorldTypes
    <3>3. deferred' \in Seq(ServerIds)
      BY <3>2
    <3>4. UNCHANGED <<connected, loaded, ready, needReset, queue, spare>>
      BY <2>1 DEF session, caps, registry
    <3> QED
      BY <3>1, <3>3, <3>4 DEF WorldTypes
  <2>3. NetTypes'
    BY <2>1 DEF NetIdle, NetTypes
  <2> QED
    BY <2>1, <2>2, <2>3 DEF caps, GameTypes, CapTypes
<1>2. CASE ReceiveAllReady
  <2>1. /\ net' = [NetIdle EXCEPT !.pc = "deferred", !.batch = TRUE]
        /\ UNCHANGED <<registry, session, live, deferred, queue, game, caps, spare>>
    BY <1>2 DEF ReceiveAllReady
  <2> QED
    BY <2>1 DEF session, caps, NetIdle, WorldTypes, NetTypes, GameTypes, CapTypes
<1>3. CASE NextDeferred
  <2>1. /\ \/ deferred = << >> /\ net' = NetIdle /\ UNCHANGED deferred
           \/ /\ deferred # << >> /\ net' = [net EXCEPT !.pc = "register", !.id = Head(deferred)]
              /\ deferred' = Tail(deferred)
        /\ UNCHANGED <<registry, session, live, queue, game, caps, spare>>
    BY <1>3 DEF NextDeferred
  <2>2. deferred \in Seq(ServerIds)
    BY DEF WorldTypes
  <2>3. deferred' \in Seq(ServerIds) /\ (deferred # << >> => Head(deferred) \in ServerIds)
    <3>1. CASE deferred = << >>
      BY <2>1, <2>2, <3>1
    <3>2. CASE deferred # << >>
      <4>1. Head(deferred) \in ServerIds /\ Tail(deferred) \in Seq(ServerIds)
        BY <2>2, <3>2
      <4> QED
        BY <2>1, <3>2, <4>1
    <3> QED
      BY <3>1, <3>2
  <2>4. NetTypes'
    <3>1. CASE net' = NetIdle
      BY <3>1 DEF NetIdle, NetTypes
    <3>2. CASE net' = [net EXCEPT !.pc = "register", !.id = Head(deferred)] /\ deferred # << >>
      BY <2>3, <3>2 DEF NetTypes
    <3> QED
      BY <2>1, <3>1, <3>2
  <2> QED
    BY <2>1, <2>3, <2>4 DEF session, caps, WorldTypes, GameTypes, CapTypes
<1>4. CASE NetRegister
  <2>1. /\ net.pc = "register" /\ net' = [net EXCEPT !.pc = "lookup"]
        /\ RegisterRemote(net.id, OwnerOf[net.id], Zone)
        /\ UNCHANGED <<session, live, deferred, queue, game, caps, spare>>
    BY <1>4 DEF NetRegister, NetGo
  <2>2. net.id \in ServerIds
    BY <2>1 DEF NetTypes
  <2>3. RegistryUse
    BY <2>1, <2>2, SpawnBounds DEF RegistryUse
  <2>4. NetTypes'
    BY <2>1, <2>2 DEF NetTypes
  <2> QED
    BY <2>1, <2>3, <2>4 DEF session, caps, WorldTypes, GameTypes, CapTypes
<1>5. CASE NetLookup
  <2>1. /\ net.pc = "lookup"
        /\ \E o \in FindModCharacter(net.id) :
              \/ net' = [net EXCEPT !.pc = "link", !.object = o]
              \/ net' = [net EXCEPT !.pc = "queue"]
        /\ UNCHANGED <<registry, session, live, deferred, queue, game, caps, spare>>
    BY <1>5 DEF NetLookup, NetGo
  <2>2. net.id \in ServerIds
    BY <2>1 DEF NetTypes
  <2>3. FindModCharacter(net.id) \subseteq Objects \cup {NoObject}
    BY <2>2, SpawnBounds DEF FindModCharacter
  <2>4. NetTypes'
    BY <2>1, <2>2, <2>3 DEF NetTypes
  <2> QED
    BY <2>1, <2>4 DEF session, caps, WorldTypes, GameTypes, CapTypes
<1>6. CASE NetLink
  <2>1. /\ net.pc = "link" /\ SetGameObject(net.id, net.object)
        /\ net' = [NetIdle EXCEPT !.pc = IF net.batch THEN "deferred" ELSE "idle", !.batch = net.batch]
        /\ UNCHANGED <<session, live, deferred, queue, game, caps, spare>>
    BY <1>6 DEF NetLink, NetReturn
  <2>2. RegistryUse
    BY <2>1 DEF RegistryUse, NetTypes
  <2>3. NetTypes'
    BY <2>1 DEF NetTypes, NetIdle
  <2> QED
    BY <2>1, <2>2, <2>3 DEF session, caps, WorldTypes, GameTypes, CapTypes
<1>7. CASE NetQueueSpawn
  <2>1. /\ net.pc = "queue" /\ queue' = Append(queue, [id |-> net.id, retry |-> 0])
        /\ net' = [NetIdle EXCEPT !.pc = IF net.batch THEN "deferred" ELSE "idle", !.batch = net.batch]
        /\ UNCHANGED <<registry, session, live, deferred, game, caps, spare>>
    BY <1>7 DEF NetQueueSpawn, NetReturn
  <2>2. [id |-> net.id, retry |-> 0] \in Queued
    <3>1. net.id \in ServerIds /\ 0 \in 0 .. MaxRetries - 1
      BY <2>1, SpawnBounds DEF NetTypes
    <3> QED
      BY <3>1 DEF Queued
  <2>3. queue' \in Seq(Queued)
    BY <2>1, <2>2 DEF WorldTypes
  <2>4. NetTypes'
    BY <2>1 DEF NetTypes, NetIdle
  <2> QED
    BY <2>1, <2>3, <2>4 DEF session, caps, WorldTypes, GameTypes, CapTypes
<1> QED
  BY <1>1, <1>2, <1>3, <1>4, <1>5, <1>6, <1>7

\* The handlers that take entities away.
LEMMA RemovalHandlers ==
    ASSUME SpawnInv,
           \/ \E id \in ServerIds : ReceiveDespawn(id) \/ ServerForgets(id)
           \/ \E p \in Players : ReceivePlayerLeft(p)
           \/ NetUnlink \/ NetUnregister \/ ReceiveHeartbeat \/ NetSweep
    PROVE  /\ WorldTypes' /\ NetTypes' /\ GameTypes' /\ CapTypes'
           /\ RegistryUse \/ UNCHANGED registry
<1> USE DEF SpawnInv
<1>0. HijackCap \in Nat /\ hijacks \in [Players -> 0 .. HijackCap] /\ DOMAIN entities \subseteq ServerIds
  BY SpawnBounds DEF CapTypes, MapTypes
<1>1. ASSUME NEW id \in ServerIds, ReceiveDespawn(id)
      PROVE  WorldTypes' /\ NetTypes' /\ GameTypes' /\ CapTypes' /\ UNCHANGED registry
  <2>1. /\ live' = [live EXCEPT ![id] = "gone"]
        /\ net' = [NetIdle EXCEPT !.pc = "unlink", !.id = id] \/ UNCHANGED net
        /\ hijacks' = DecrementSpawnCount(hijacks, entities[id].owner) \/ UNCHANGED hijacks
        /\ UNCHANGED <<registry, session, deferred, queue, game, direct, needReset, spare>>
    BY <1>1 DEF ReceiveDespawn
  <2>2. hijacks' \in [Players -> 0 .. HijackCap]
    BY <1>0, <2>1, Decremented
  <2>3. WorldTypes'
    BY <2>1 DEF session, WorldTypes
  <2>4. NetTypes'
    BY <2>1 DEF NetIdle, NetTypes
  <2> QED
    BY <2>1, <2>2, <2>3, <2>4 DEF GameTypes, CapTypes
<1>2. ASSUME NEW id \in ServerIds, ServerForgets(id)
      PROVE  WorldTypes' /\ NetTypes' /\ GameTypes' /\ CapTypes' /\ UNCHANGED registry
  <2>1. /\ live' = [live EXCEPT ![id] = "gone"]
        /\ UNCHANGED <<registry, session, deferred, queue, net, game, caps, spare>>
    BY <1>2 DEF ServerForgets
  <2> QED
    BY <2>1 DEF session, caps, WorldTypes, NetTypes, GameTypes, CapTypes
<1>3. ASSUME NEW p \in Players, ReceivePlayerLeft(p)
      PROVE  WorldTypes' /\ NetTypes' /\ GameTypes' /\ CapTypes' /\ UNCHANGED registry
  <2>1. /\ live' = [id \in ServerIds |-> IF OwnerOf[id] = p THEN "gone" ELSE live[id]]
        /\ \/ /\ queue' = ClearSpawnsForOwner(p)
              /\ net' = [NetIdle EXCEPT !.pc = "leave", !.rest = Owned(p)]
           \/ UNCHANGED <<queue, net>>
        /\ UNCHANGED <<registry, session, deferred, game, caps, spare>>
    BY <1>3 DEF ReceivePlayerLeft
  <2>2. queue' \in Seq(Queued)
    BY <2>1, FilteredQueue DEF WorldTypes
  <2>3. Owned(p) \subseteq ServerIds
    BY <1>0 DEF Owned
  <2>4. WorldTypes'
    BY <2>1, <2>2 DEF session, caps, WorldTypes
  <2>5. NetTypes'
    BY <2>1, <2>3 DEF NetIdle, NetTypes
  <2> QED
    BY <2>1, <2>4, <2>5 DEF caps, GameTypes, CapTypes
<1>4. CASE NetUnlink
  <2>1. /\ net.pc = "unlink" /\ SetGameObject(net.id, NoObject) /\ net' = [net EXCEPT !.pc = "unregister"]
        /\ UNCHANGED <<session, live, deferred, queue, game, caps, spare>>
    BY <1>4 DEF NetUnlink, NetGo
  <2>2. RegistryUse
    BY <2>1 DEF RegistryUse, NetTypes
  <2>3. NetTypes'
    BY <2>1 DEF NetTypes
  <2> QED
    BY <2>1, <2>2, <2>3 DEF session, caps, WorldTypes, GameTypes, CapTypes
<1>5. CASE NetUnregister
  <2>1. /\ net.pc = "unregister" /\ Unregister(net.id) /\ net' = NetIdle
        /\ UNCHANGED <<session, live, deferred, queue, game, caps, spare>>
    BY <1>5 DEF NetUnregister
  <2>2. RegistryUse
    BY <2>1 DEF RegistryUse, NetTypes
  <2>3. NetTypes'
    BY <2>1 DEF NetTypes, NetIdle
  <2> QED
    BY <2>1, <2>2, <2>3 DEF session, caps, WorldTypes, GameTypes, CapTypes
<1>6. CASE ReceiveHeartbeat
  <2>1. /\ net' = [NetIdle EXCEPT !.pc = "sweep", !.rest = Ghosts]
        /\ UNCHANGED <<registry, session, live, deferred, queue, game, caps, spare>>
    BY <1>6 DEF ReceiveHeartbeat
  <2>2. Ghosts \subseteq ServerIds
    BY <1>0 DEF Ghosts, RemoteIds
  <2>3. NetTypes'
    BY <2>1, <2>2 DEF NetTypes, NetIdle
  <2> QED
    BY <2>1, <2>3 DEF session, caps, WorldTypes, GameTypes, CapTypes
<1>7. CASE NetSweep
  <2>1. /\ net.rest \subseteq ServerIds
        /\ \/ net' = NetIdle /\ UNCHANGED <<registry, hijacks>>
           \/ \E id \in net.rest :
                /\ hijacks' = DecrementSpawnCount(hijacks, OwnerOf[id]) \/ UNCHANGED hijacks
                /\ Unregister(id) /\ net' = [net EXCEPT !.rest = @ \ {id}]
        /\ net.pc \in {"leave", "sweep"}
        /\ UNCHANGED <<session, live, deferred, queue, game, direct, needReset, spare>>
    BY <1>7 DEF NetSweep, NetTypes
  <2>2. hijacks' \in [Players -> 0 .. HijackCap]
    <3>1. \A p : DecrementSpawnCount(hijacks, p) \in [Players -> 0 .. HijackCap]
      BY <1>0, Decremented
    <3> QED
      BY <1>0, <2>1, <3>1
  <2>3. RegistryUse \/ UNCHANGED registry
    <3>1. CASE UNCHANGED <<registry, hijacks>>
      BY <3>1
    <3>2. CASE \E id \in ServerIds : Unregister(id)
      BY <3>2 DEF RegistryUse
    <3> QED
      BY <2>1, <3>1, <3>2
  <2>4. NetTypes'
    <3>1. CASE net' = NetIdle
      BY <3>1 DEF NetTypes, NetIdle
    <3>2. ASSUME NEW id \in net.rest, net' = [net EXCEPT !.rest = @ \ {id}] PROVE NetTypes'
      BY <3>2 DEF NetTypes
    <3> QED
      BY <2>1, <3>1, <3>2
  <2> QED
    BY <2>1, <2>2, <2>3, <2>4 DEF session, WorldTypes, GameTypes, CapTypes
<1> QED
  BY <1>1, <1>2, <1>3, <1>4, <1>5, <1>6, <1>7

\* The tick serves the queue.
LEMMA QueueServed ==
    ASSUME SpawnInv,
           \/ PopNextSpawn \/ CheckRequest \/ LookupModCharacter \/ LinkModCharacter
           \/ SpawnCharacterDirect \/ SpawnFails
    PROVE  /\ WorldTypes' /\ NetTypes' /\ GameTypes' /\ CapTypes'
           /\ RegistryUse \/ UNCHANGED registry
<1> USE DEF SpawnInv
<1>0. /\ DirectCap \in Nat /\ HijackCap \in Nat /\ MaxRetries \in Nat /\ MaxRetries > 0
      /\ direct \in [Players -> 0 .. DirectCap] /\ hijacks \in [Players -> 0 .. HijackCap]
  BY SpawnBounds DEF CapTypes
<1>1. GameIdle = [pc |-> "idle", id |-> 0, retry |-> 0, object |-> NoObject, rest |-> {}] /\ 0 \in 0 .. MaxRetries - 1
  BY <1>0 DEF GameIdle
<1>2. CASE PopNextSpawn
  <2>1. /\ queue # << >> /\ queue' = Tail(queue)
        /\ game' = [GameIdle EXCEPT !.pc = "popped", !.id = Head(queue).id, !.retry = Head(queue).retry]
        /\ direct' = IF needReset THEN [p \in Players |-> 0] ELSE direct
        /\ needReset' = FALSE
        /\ UNCHANGED <<registry, session, live, deferred, net, hijacks, spare>>
    BY <1>2 DEF PopNextSpawn
  <2>2. Head(queue) \in Queued /\ queue' \in Seq(Queued)
    BY <2>1 DEF WorldTypes
  <2>3. direct' \in [Players -> 0 .. DirectCap]
    BY <1>0, <2>1
  <2>4. GameTypes'
    BY <1>1, <2>1, <2>2 DEF GameTypes, Queued
  <2>5. CapTypes'
    BY <1>0, <1>1, <2>1, <2>3 DEF CapTypes
  <2> QED
    BY <2>1, <2>2, <2>4, <2>5 DEF session, WorldTypes, NetTypes
<1>3. CASE CheckRequest
  <2>1. /\ game.pc = "popped"
        /\ \/ /\ direct' = [direct EXCEPT ![OwnerOf[game.id]] = IF @ < DirectCap THEN @ + 1 ELSE @]
              /\ game' = GameIdle
           \/ game' = GameIdle /\ UNCHANGED direct
           \/ direct[OwnerOf[game.id]] < DirectCap /\ game' = [game EXCEPT !.pc = "lookup"] /\ UNCHANGED direct
        /\ UNCHANGED <<registry, session, live, deferred, queue, net, hijacks, needReset, spare>>
    BY <1>3 DEF CheckRequest, GameGo
  <2>2. direct' \in [Players -> 0 .. DirectCap]
    <3>1. \A k \in 0 .. DirectCap : (IF k < DirectCap THEN k + 1 ELSE k) \in 0 .. DirectCap
      BY <1>0
    <3> QED
      BY <1>0, <2>1, <3>1
  <2>3. GameTypes'
    BY <1>1, <2>1 DEF GameTypes
  <2>4. CapTypes'
    BY <1>0, <1>1, <2>1, <2>2 DEF CapTypes, GameTypes
  <2> QED
    BY <2>1, <2>3, <2>4 DEF session, WorldTypes, NetTypes
<1>4. CASE LookupModCharacter
  <2>1. /\ game.pc = "lookup"
        /\ \E o \in FindModCharacter(game.id) :
              \/ game' = [game EXCEPT !.pc = "link", !.object = o]
              \/ game' = [game EXCEPT !.pc = "create"]
        /\ UNCHANGED <<registry, session, live, deferred, queue, net, caps, spare>>
    BY <1>4 DEF LookupModCharacter, GameGo
  <2>2. FindModCharacter(game.id) \subseteq Objects \cup {NoObject}
    BY <2>1, SpawnBounds DEF FindModCharacter, GameTypes
  <2>3. GameTypes'
    BY <2>1, <2>2 DEF GameTypes
  <2>4. CapTypes'
    BY <2>1 DEF caps, CapTypes, GameTypes
  <2> QED
    BY <2>1, <2>3, <2>4 DEF session, caps, WorldTypes, NetTypes
<1>5. ASSUME NEW o \in Objects \cup {NoObject}, LinkObject(o), game.pc \in {"link", "create"},
             spare' \subseteq spare
      PROVE  WorldTypes' /\ NetTypes' /\ GameTypes' /\ CapTypes' /\ RegistryUse
  <2>1. /\ SetGameObject(game.id, o) /\ direct' = [direct EXCEPT ![OwnerOf[game.id]] = @ + 1]
        /\ game' = GameIdle
        /\ UNCHANGED <<session, live, deferred, queue, net, hijacks, needReset>>
    BY <1>5 DEF LinkObject
  <2>2. game.id \in ServerIds /\ direct[OwnerOf[game.id]] < DirectCap
    BY <1>5 DEF GameTypes, CapTypes
  <2>3. RegistryUse
    BY <2>1, <2>2 DEF RegistryUse
  <2>4. direct' \in [Players -> 0 .. DirectCap]
    <3>1. OwnerOf[game.id] \in Players
      BY <2>2, SpawnBounds
    <3>2. direct[OwnerOf[game.id]] + 1 \in 0 .. DirectCap
      BY <1>0, <2>2, <3>1
    <3> QED
      BY <1>0, <2>1, <3>2
  <2>5. GameTypes'
    BY <1>1, <2>1 DEF GameTypes
  <2>6. CapTypes'
    BY <1>0, <1>1, <2>1, <2>4 DEF CapTypes
  <2> QED
    BY <1>5, <2>1, <2>3, <2>5, <2>6 DEF session, WorldTypes, NetTypes
<1>6. CASE LinkModCharacter
  <2>1. game.pc = "link" /\ LinkObject(game.object) /\ spare' = spare
    BY <1>6 DEF LinkModCharacter
  <2>2. game.object \in Objects \cup {NoObject}
    BY DEF GameTypes
  <2> QED
    BY <1>5, <2>1, <2>2
<1>7. CASE SpawnCharacterDirect
  <2>1. PICK o \in spare : LinkObject(o) /\ spare' = spare \ {o}
    BY <1>7 DEF SpawnCharacterDirect
  <2>2. o \in Objects \cup {NoObject} /\ spare' \subseteq spare /\ game.pc = "create"
    BY <1>7, <2>1 DEF SpawnCharacterDirect, WorldTypes
  <2> QED
    BY <1>5, <2>1, <2>2
<1>8. CASE SpawnFails
  <2> DEFINE again == [id |-> game.id, retry |-> game.retry]
  <2>1. /\ game.pc = "create" /\ game' = GameIdle
        /\ \/ queue' = queue \o SetToSeq(Retry(again)) /\ UNCHANGED <<registry, hijacks>>
           \/ /\ hijacks' = DecrementSpawnCount(hijacks, OwnerOf[game.id])
              /\ Unregister(game.id) /\ UNCHANGED queue
        /\ UNCHANGED <<session, live, deferred, net, direct, needReset, spare>>
    BY <1>8 DEF SpawnFails
  <2>2. again \in Queued /\ game.id \in ServerIds
    BY <2>1 DEF Queued, GameTypes
  <2> HIDE DEF again
  <2>3. queue' \in Seq(Queued)
    <3>1. SetToSeq(Retry(again)) \in Seq(Queued) /\ queue \in Seq(Queued)
      BY <2>2, RetryQueued DEF WorldTypes
    <3>2. queue \o SetToSeq(Retry(again)) \in Seq(Queued)
      BY <3>1
    <3>3. queue' = queue \o SetToSeq(Retry(again)) \/ queue' = queue
      BY <2>1
    <3> QED
      BY <3>1, <3>2, <3>3
  <2>4. hijacks' \in [Players -> 0 .. HijackCap]
    <3>1. hijacks' = DecrementSpawnCount(hijacks, OwnerOf[game.id]) \/ hijacks' = hijacks
      BY <2>1
    <3>2. DecrementSpawnCount(hijacks, OwnerOf[game.id]) \in [Players -> 0 .. HijackCap]
      BY <1>0, Decremented
    <3> QED
      BY <1>0, <3>1, <3>2
  <2>5. RegistryUse \/ UNCHANGED registry
    BY <2>1, <2>2 DEF RegistryUse
  <2>6. GameTypes'
    BY <1>1, <2>1 DEF GameTypes
  <2>7. CapTypes'
    BY <1>0, <1>1, <2>1, <2>4 DEF CapTypes
  <2> QED
    BY <2>1, <2>3, <2>5, <2>6, <2>7 DEF session, WorldTypes, NetTypes
<1> QED
  BY <1>2, <1>3, <1>4, <1>6, <1>7, <1>8

\* The hook, the clean-up and the console.
LEMMA HooksAndCommands ==
    ASSUME SpawnInv,
           \/ HijackPop \/ Hijack \/ TestOrphaned \/ RemoveOrphan \/ ForceSpawnRemotePlayers
           \/ \E id \in RemoteIds : FindStuck(id) \/ LoseObject(id)
    PROVE  /\ WorldTypes' /\ NetTypes' /\ GameTypes' /\ CapTypes'
           /\ RegistryUse \/ UNCHANGED registry
<1> USE DEF SpawnInv
<1>0. /\ DirectCap \in Nat /\ HijackCap \in Nat /\ MaxRetries \in Nat /\ MaxRetries > 0
      /\ direct \in [Players -> 0 .. DirectCap] /\ hijacks \in [Players -> 0 .. HijackCap]
      /\ RemoteIds \subseteq ServerIds
  BY SpawnBounds DEF CapTypes, MapTypes, RemoteIds
<1>1. GameIdle = [pc |-> "idle", id |-> 0, retry |-> 0, object |-> NoObject, rest |-> {}] /\ 0 \in 0 .. MaxRetries - 1
  BY <1>0 DEF GameIdle
<1>2. CASE HijackPop
  <2>1. /\ queue # << >> /\ queue' = Tail(queue)
        /\ game' = [GameIdle EXCEPT !.pc = "hijack", !.id = Head(queue).id, !.retry = Head(queue).retry]
        /\ UNCHANGED <<registry, session, live, deferred, net, caps, spare>>
    BY <1>2 DEF HijackPop
  <2>2. Head(queue) \in Queued /\ queue' \in Seq(Queued)
    BY <2>1 DEF WorldTypes
  <2>3. GameTypes'
    BY <1>1, <2>1, <2>2 DEF GameTypes, Queued
  <2>4. CapTypes'
    BY <1>1, <2>1 DEF caps, CapTypes
  <2> QED
    BY <2>1, <2>2, <2>3, <2>4 DEF session, caps, WorldTypes, NetTypes
<1>3. CASE Hijack
  <2> DEFINE again == [id |-> game.id, retry |-> game.retry]
             p == OwnerOf[game.id]
  <2>1. /\ game.pc = "hijack" /\ game' = GameIdle
        /\ \/ hijacks[p] < HijackCap /\ hijacks' = [hijacks EXCEPT ![p] = @ + 1]
           \/ UNCHANGED hijacks
        /\ \/ UNCHANGED queue
           \/ queue' = queue \o SetToSeq(Retry(again))
           \/ queue' = Append(queue, again)
        /\ \/ \E o \in spare : SetGameObject(game.id, o) /\ spare' = spare \ {o}
           \/ UNCHANGED <<registry, spare>>
        /\ UNCHANGED <<session, live, deferred, net, direct, needReset>>
    BY <1>3 DEF Hijack
  <2>2. again \in Queued /\ game.id \in ServerIds /\ p \in Players
    BY <2>1, SpawnBounds DEF Queued, GameTypes
  <2> HIDE DEF again, p
  <2>3. queue' \in Seq(Queued)
    <3>1. SetToSeq(Retry(again)) \in Seq(Queued) /\ queue \in Seq(Queued)
      BY <2>2, RetryQueued DEF WorldTypes
    <3>2. queue \o SetToSeq(Retry(again)) \in Seq(Queued) /\ Append(queue, again) \in Seq(Queued)
      BY <2>2, <3>1
    <3> QED
      BY <2>1, <3>1, <3>2
  <2>4. hijacks' \in [Players -> 0 .. HijackCap]
    <3>1. hijacks[p] < HijackCap => hijacks[p] + 1 \in 0 .. HijackCap
      BY <1>0, <2>2
    <3> QED
      BY <1>0, <2>1, <3>1
  <2>5. (RegistryUse \/ UNCHANGED registry) /\ spare' \subseteq Objects
    <3>1. spare \subseteq Objects
      BY DEF WorldTypes
    <3>2. CASE UNCHANGED <<registry, spare>>
      BY <3>1, <3>2
    <3>3. ASSUME NEW o \in spare, SetGameObject(game.id, o), spare' = spare \ {o}
          PROVE  RegistryUse /\ spare' \subseteq Objects
      BY <2>2, <3>1, <3>3 DEF RegistryUse
    <3> QED
      BY <2>1, <3>2, <3>3
  <2>6. GameTypes'
    BY <1>1, <2>1 DEF GameTypes
  <2>7. CapTypes'
    BY <1>0, <1>1, <2>1, <2>4 DEF CapTypes
  <2> QED
    BY <2>1, <2>3, <2>5, <2>6, <2>7 DEF session, WorldTypes, NetTypes
<1>4. CASE ForceSpawnRemotePlayers
  <2> DEFINE S == {[id |-> id, retry |-> 0] : id \in {i \in RemoteIds : entities[i].object = NoObject}}
  <2>1. /\ hijacks' = [p \in Players |-> 0]
        /\ queue' = IF queue = << >> THEN SetToSeq(S) ELSE queue
        /\ UNCHANGED <<registry, session, live, deferred, net, game, direct, needReset, spare>>
    BY <1>4 DEF ForceSpawnRemotePlayers
  <2>2. S \subseteq Queued
    BY <1>0, <1>1 DEF Queued
  <2>3. IsFiniteSet(S)
    <3> DEFINE I == {i \in RemoteIds : entities[i].object = NoObject}
               f == [id \in I |-> [id |-> id, retry |-> 0]]
    <3>1. IsFiniteSet(I)
      <4>1. I \subseteq ServerIds /\ IsFiniteSet(ServerIds)
        BY <1>0, SpawnAssumption
      <4> HIDE DEF I
      <4> QED
        BY <4>1, FS_Subset
    <3>2. S = {f[id] : id \in I}
      OBVIOUS
    <3>3. f \in Surjection(I, S)
      BY <3>2 DEF Surjection
    <3> HIDE DEF I, S, f
    <3> QED
      BY <3>1, <3>3, FS_Surjection
  <2> HIDE DEF S
  <2>4. queue' \in Seq(Queued)
    <3>1. SetToSeq(S) \in Seq(Queued)
      BY <2>2, <2>3, SequenceOf
    <3> QED
      BY <2>1, <3>1 DEF WorldTypes
  <2>5. CapTypes'
    BY <1>0, <2>1 DEF CapTypes
  <2> QED
    BY <2>1, <2>4, <2>5 DEF session, WorldTypes, NetTypes, GameTypes
<1>5. ASSUME NEW id \in RemoteIds, FindStuck(id)
      PROVE  WorldTypes' /\ NetTypes' /\ GameTypes' /\ CapTypes' /\ UNCHANGED registry
  <2>1. /\ game' = [GameIdle EXCEPT !.pc = "stuck", !.id = id]
        /\ UNCHANGED <<registry, session, live, deferred, queue, net, caps, spare>>
    BY <1>5 DEF FindStuck
  <2>2. GameTypes' /\ CapTypes'
    BY <1>0, <1>1, <2>1 DEF caps, GameTypes, CapTypes
  <2> QED
    BY <2>1, <2>2 DEF session, caps, WorldTypes, NetTypes
<1>7. CASE TestOrphaned
  <2>1. /\ game.pc = "stuck" /\ game' \in {[game EXCEPT !.pc = "orphan"], GameIdle}
        /\ UNCHANGED <<registry, session, live, deferred, queue, net, caps, spare>>
    BY <1>7 DEF TestOrphaned
  <2>2. GameTypes' /\ CapTypes'
    BY <1>1, <2>1 DEF caps, GameTypes, CapTypes
  <2> QED
    BY <2>1, <2>2 DEF session, caps, WorldTypes, NetTypes
<1>8. CASE RemoveOrphan
  <2>1. /\ game.pc = "orphan" /\ game' = GameIdle /\ Unregister(game.id)
        /\ hijacks' = DecrementSpawnCount(hijacks, OwnerOf[game.id])
        /\ UNCHANGED <<session, live, deferred, queue, net, direct, needReset, spare>>
    BY <1>8 DEF RemoveOrphan
  <2>2. hijacks' \in [Players -> 0 .. HijackCap] /\ game.id \in ServerIds
    BY <1>0, <2>1, Decremented DEF GameTypes
  <2>3. RegistryUse
    BY <2>1, <2>2 DEF RegistryUse
  <2>4. GameTypes' /\ CapTypes'
    BY <1>0, <1>1, <2>1, <2>2 DEF GameTypes, CapTypes
  <2> QED
    BY <2>1, <2>3, <2>4 DEF session, WorldTypes, NetTypes
<1>6. ASSUME NEW id \in RemoteIds, LoseObject(id)
      PROVE  WorldTypes' /\ NetTypes' /\ GameTypes' /\ CapTypes' /\ RegistryUse
  <2>1. /\ SetGameObject(id, NoObject)
        /\ UNCHANGED <<session, live, deferred, queue, net, game, caps, spare>>
    BY <1>6 DEF LoseObject
  <2>2. RegistryUse
    BY <1>0, <2>1 DEF RegistryUse
  <2> QED
    BY <2>1, <2>2 DEF session, caps, WorldTypes, NetTypes, GameTypes, CapTypes
<1> QED
  BY <1>2, <1>3, <1>4, <1>5, <1>6, <1>7, <1>8

\* Connections, loads of a save, and what the game thread does about them.
LEMMA SessionSteps ==
    ASSUME SpawnInv,
           \/ Connect \/ GameLoaded \/ ListOnLoad \/ LookupOnLoad \/ LinkOnLoad \/ ReadyOnLoad
           \/ LoadingGap \/ Disconnect \/ ClearSpawnQueue
    PROVE  /\ WorldTypes' /\ NetTypes' /\ GameTypes' /\ CapTypes'
           /\ RegistryUse \/ UNCHANGED registry
<1> USE DEF SpawnInv
<1>0. /\ HijackCap \in Nat /\ MaxRetries \in Nat /\ MaxRetries > 0
      /\ hijacks \in [Players -> 0 .. HijackCap]
      /\ RemoteIds \subseteq ServerIds
  BY SpawnBounds DEF CapTypes, MapTypes, RemoteIds
<1>1. GameIdle = [pc |-> "idle", id |-> 0, retry |-> 0, object |-> NoObject, rest |-> {}] /\ 0 \in 0 .. MaxRetries - 1
  BY <1>0 DEF GameIdle
<1>2. [p \in Players |-> 0] \in [Players -> 0 .. HijackCap]
  BY <1>0
<1>3. CASE Connect
  <2>1. /\ game.pc = "idle" /\ connected' = TRUE /\ ready' = FALSE
        /\ hijacks' = [p \in Players |-> 0] \/ UNCHANGED hijacks
        /\ UNCHANGED <<registry, loaded, live, deferred, queue, net, game, direct, needReset, spare>>
    BY <1>3 DEF Connect
  <2>2. CapTypes'
    BY <1>0, <1>2, <2>1 DEF CapTypes
  <2> QED
    BY <2>1, <2>2 DEF WorldTypes, NetTypes, GameTypes
<1>4. CASE GameLoaded
  <2>1. /\ loaded' = TRUE /\ game' = [game EXCEPT !.pc = "loaded"]
        /\ hijacks' = [p \in Players |-> 0] \/ UNCHANGED hijacks
        /\ UNCHANGED <<registry, connected, ready, live, deferred, queue, net, direct, needReset, spare>>
    BY <1>4 DEF GameLoaded, GameGo
  <2>2. GameTypes'
    BY <2>1 DEF GameTypes
  <2>3. CapTypes'
    BY <1>0, <1>2, <2>1 DEF CapTypes, GameTypes
  <2> QED
    BY <2>1, <2>2, <2>3 DEF WorldTypes, NetTypes
<1>5. CASE ListOnLoad
  <2>1. /\ game' = [game EXCEPT !.pc = "loadLoop", !.rest = IF connected THEN RemoteIds ELSE {}]
        /\ UNCHANGED <<registry, session, live, deferred, queue, net, caps, spare>>
    BY <1>5 DEF ListOnLoad
  <2>2. GameTypes'
    BY <1>0, <2>1 DEF GameTypes
  <2>3. CapTypes'
    BY <2>1 DEF caps, CapTypes, GameTypes
  <2> QED
    BY <2>1, <2>2, <2>3 DEF session, caps, WorldTypes, NetTypes
<1>6. CASE LookupOnLoad
  <2>1. /\ game.pc = "loadLoop" /\ game.rest \subseteq ServerIds
        /\ \E id \in game.rest, o \in Objects \cup {NoObject} :
              \/ game' = [game EXCEPT !.pc = "loadLink", !.id = id, !.object = o, !.rest = game.rest \ {id}]
              \/ game' = [game EXCEPT !.rest = game.rest \ {id}]
        /\ UNCHANGED <<registry, session, live, deferred, queue, net, caps, spare>>
    BY <1>6 DEF LookupOnLoad, GameTypes
  <2>2. PICK id \in game.rest, o \in Objects \cup {NoObject} :
              \/ game' = [game EXCEPT !.pc = "loadLink", !.id = id, !.object = o, !.rest = game.rest \ {id}]
              \/ game' = [game EXCEPT !.rest = game.rest \ {id}]
    BY <2>1
  <2>3. GameTypes' /\ game'.pc \in {"loadLink", "loadLoop"}
    <3>1. CASE game' = [game EXCEPT !.pc = "loadLink", !.id = id, !.object = o, !.rest = game.rest \ {id}]
      BY <2>1, <3>1 DEF GameTypes
    <3>2. CASE game' = [game EXCEPT !.rest = game.rest \ {id}]
      BY <2>1, <3>2 DEF GameTypes
    <3> QED
      BY <2>2, <3>1, <3>2
  <2>4. CapTypes'
    BY <2>1, <2>3 DEF caps, CapTypes
  <2> QED
    BY <2>1, <2>3, <2>4 DEF session, caps, WorldTypes, NetTypes
<1>7. CASE LinkOnLoad
  <2>1. /\ game.pc = "loadLink" /\ SetGameObject(game.id, game.object)
        /\ game' = [game EXCEPT !.pc = "loadLoop"]
        /\ UNCHANGED <<session, live, deferred, queue, net, caps, spare>>
    BY <1>7 DEF LinkOnLoad, GameGo
  <2>2. game.id \in ServerIds /\ game.object \in Objects \cup {NoObject}
    BY <2>1 DEF GameTypes
  <2>3. RegistryUse
    BY <2>1, <2>2 DEF RegistryUse
  <2>4. GameTypes' /\ game'.pc = "loadLoop"
    BY <2>1 DEF GameTypes
  <2>5. CapTypes'
    BY <2>1, <2>4 DEF caps, CapTypes
  <2> QED
    BY <2>1, <2>3, <2>4, <2>5 DEF session, caps, WorldTypes, NetTypes
<1>8. CASE ReadyOnLoad
  <2>1. /\ ready' = connected /\ game' = GameIdle
        /\ UNCHANGED <<registry, connected, loaded, live, deferred, queue, net, caps, spare>>
    BY <1>8 DEF ReadyOnLoad
  <2>2. GameTypes'
    BY <1>1, <2>1 DEF GameTypes
  <2>3. CapTypes'
    BY <1>1, <2>1 DEF caps, CapTypes
  <2> QED
    BY <2>1, <2>2, <2>3 DEF caps, WorldTypes, NetTypes
<1>9. CASE LoadingGap
  <2>1. /\ loaded' = FALSE /\ Clear
        /\ UNCHANGED <<connected, ready, live, deferred, queue, net, game, caps, spare>>
    BY <1>9 DEF LoadingGap
  <2>2. RegistryUse
    BY <2>1 DEF RegistryUse
  <2>3. WorldTypes'
    BY <2>1 DEF caps, WorldTypes
  <2>4. NetTypes' /\ GameTypes' /\ CapTypes'
    <3>1. net' = net /\ game' = game /\ direct' = direct /\ hijacks' = hijacks
      BY <2>1 DEF caps
    <3> QED
      BY <3>1 DEF NetTypes, GameTypes, CapTypes
  <2> QED
    BY <2>2, <2>3, <2>4
<1>10. CASE Disconnect
  <2>1. /\ connected' = FALSE /\ ready' = FALSE /\ ClearRemoteEntities
        /\ game' = [game EXCEPT !.pc = "clearQueue"]
        /\ UNCHANGED <<loaded, live, deferred, queue, net, caps, spare>>
    BY <1>10 DEF Disconnect, GameGo
  <2>2. GameTypes' /\ game'.pc = "clearQueue"
    BY <2>1 DEF GameTypes
  <2>3. CapTypes'
    BY <2>1, <2>2 DEF caps, CapTypes
  <2> QED
    BY <2>1, <2>2, <2>3 DEF caps, RegistryUse, WorldTypes, NetTypes
<1>11. CASE ClearSpawnQueue
  <2>1. /\ queue' = << >> /\ needReset' = TRUE /\ game' = GameIdle
        /\ UNCHANGED <<registry, session, live, deferred, net, direct, hijacks, spare>>
    BY <1>11 DEF ClearSpawnQueue
  <2>2. GameTypes'
    BY <1>1, <2>1 DEF GameTypes
  <2>3. CapTypes'
    BY <1>1, <2>1 DEF CapTypes
  <2> QED
    BY <2>1, <2>2, <2>3 DEF session, WorldTypes, NetTypes
<1> QED
  BY <1>3, <1>4, <1>5, <1>6, <1>7, <1>8, <1>9, <1>10, <1>11

LEMMA SpawnStep ==
    ASSUME SpawnInv, [Next]_vars
    PROVE  SpawnInv' /\ (RegistryUse \/ UNCHANGED registry)
<1>1. CASE UNCHANGED vars
  <2>1. UNCHANGED registry
    BY <1>1 DEF vars
  <2>2. WorldTypes' /\ NetTypes' /\ GameTypes' /\ CapTypes'
    BY <1>1 DEF vars, session, caps, SpawnInv, WorldTypes, NetTypes, GameTypes, CapTypes
  <2>3. MapTypes'
    BY <2>1, UseKeepsMaps DEF SpawnInv
  <2> QED
    BY <2>1, <2>2, <2>3 DEF SpawnInv
<1>2. CASE Next
  <2>1. /\ WorldTypes' /\ NetTypes' /\ GameTypes' /\ CapTypes'
        /\ RegistryUse \/ UNCHANGED registry
    BY <1>2, SpawnHandlers, RemovalHandlers, QueueServed, HooksAndCommands, SessionSteps
       DEF Next, NetStep, ServeStep
  <2>2. MapTypes'
    BY <2>1, UseKeepsMaps DEF SpawnInv
  <2> QED
    BY <2>1, <2>2 DEF SpawnInv
<1> QED
  BY <1>1, <1>2

LEMMA SpawnStart == SpawnInit => SpawnInv
<1> SUFFICES ASSUME SpawnInit PROVE SpawnInv
  OBVIOUS
<1>1. DirectCap \in Nat /\ HijackCap \in Nat /\ MaxRetries \in Nat /\ MaxRetries > 0
  BY SpawnBounds
<1>2. 0 \in 0 .. MaxRetries - 1 /\ 0 \in 0 .. DirectCap /\ 0 \in 0 .. HijackCap
  BY <1>1
<1>3. MapTypes
  <2>1. << >> = [x \in {} |-> << >>[x]] /\ DOMAIN << >> = {}
    OBVIOUS
  <2> QED
    BY <2>1 DEF SpawnInit, Init, MapTypes
<1>4. WorldTypes
  <2>1. << >> \in Seq(ServerIds) /\ << >> \in Seq(Queued)
    OBVIOUS
  <2>2. live \in [ServerIds -> {"unborn", "live", "gone"}]
    BY DEF SpawnInit
  <2>3. spare \subseteq Objects
    BY DEF SpawnInit
  <2> QED
    BY <2>1, <2>2, <2>3 DEF SpawnInit, WorldTypes
<1>5. NetTypes
  BY DEF SpawnInit, NetIdle, NetTypes
<1>6. GameTypes
  BY <1>2 DEF SpawnInit, GameIdle, GameTypes
<1>7. CapTypes
  BY <1>2 DEF SpawnInit, GameIdle, CapTypes
<1> QED
  BY <1>3, <1>4, <1>5, <1>6, <1>7 DEF SpawnInv

LEMMA SpawnInvariant == SpawnSpec => []SpawnInv
<1>1. SpawnInv /\ [Next]_vars => SpawnInv'
  BY SpawnStep
<1> QED
  BY SpawnStart, <1>1, PTL DEF SpawnSpec

\* Both threads of a client, with every interleaving of their handlers, use the registry as
\* EntityRegistry says it may be used: an own character's id is never one the server gives out.
THEOREM ThreadsUseTheRegistry == SpawnSpec => Spec
<1>1. SpawnInit => Init
  BY DEF SpawnInit
<1>2. SpawnInv /\ [Next]_vars => [Call]_registry
  <2> SUFFICES ASSUME SpawnInv, [Next]_vars PROVE [Call]_registry
    OBVIOUS
  <2>1. MapTypes /\ (RegistryUse \/ UNCHANGED registry)
    BY SpawnStep DEF SpawnInv
  <2> QED
    BY <2>1, UseIsCall
<1> QED
  BY <1>1, <1>2, SpawnInvariant, PTL DEF SpawnSpec, Spec

\* So ids found are live, ids drawn are new and what is Spawning has no object, at every
\* moment of a client's two threads.
THEOREM RegistryIsSoundInUse == SpawnSpec => []RegistrySound
BY ThreadsUseTheRegistry, RegistryIsSound, PTL

\* The state of both threads and of what they share is of its type: the counts of spawned
\* characters stay within their caps although the check and the count are two steps, and the
\* queue holds requests whose tries are not used up.
THEOREM SpawnIsTyped == SpawnSpec => []SpawnTypeOK
<1>1. SpawnInv /\ RegistryInv => SpawnTypeOK
  <2> SUFFICES ASSUME SpawnInv, RegistryInv PROVE SpawnTypeOK
    OBVIOUS
  <2>1. RegistryTypeOK
    BY DEF RegistryInv
  <2>2. ASSUME NEW i \in DOMAIN queue PROVE queue[i] \in Requests /\ queue[i].retry < MaxRetries
    <3>1. MaxRetries \in Nat
      BY SpawnBounds
    <3>2. queue \in Seq(Queued)
      BY DEF SpawnInv, WorldTypes
    <3>3. queue[i] \in Queued
      BY <3>2
    <3>4. queue[i].retry \in 0 .. MaxRetries - 1
      BY <3>3 DEF Queued
    <3>5. queue[i].retry \in 0 .. MaxRetries /\ queue[i].retry < MaxRetries
      BY <3>1, <3>4
    <3> QED
      BY <3>3, <3>5 DEF Queued, Requests
  <2> QED
    BY <2>1, <2>2 DEF SpawnInv, WorldTypes, NetTypes, GameTypes, CapTypes, SpawnTypeOK
<1> QED
  BY <1>1, SpawnInvariant, ThreadsUseTheRegistry, RegistryInvariant, PTL

-----------------------------------------------------------------------------
(* The orchestrator's stages.                                              *)

Request == [id : Remotes, retry : 0 .. MaxAsk]

AskTypes ==
    /\ step \in {"poll", "spawns", "pop", "direct", "link", "core", "reset", "clear"}
    /\ bodyOf \in [Remotes -> {"absent", "none", "body"}] /\ pending \in Seq(Request)
    /\ IF step \in {"direct", "link"} THEN hand \in Request ELSE hand = NoRequest
    /\ packet \in [pc : {"idle", "queue", "left"}, id : Remotes \cup {0}]
    /\ packet.pc # "queue" => packet.id = 0
    /\ packet.pc = "queue" => packet.id \in Remotes

PumpTypes ==
    /\ waiting \in [on : BOOLEAN, age : 0 .. Patience, tries : 0 .. DirectTries, since : 0 .. Gap]
    /\ heap \in [done : BOOLEAN, tries : 0 .. ScanTries, due : BOOLEAN]
    /\ modFound \in BOOLEAN

\* The search goes on while there is a try left, and only then.
ScanGoesOn == ~heap.done => heap.tries < ScanTries

MotionTypes ==
    /\ at \in 0 .. Farthest /\ last \in 0 .. Farthest /\ heard \in 0 .. Farthest
    /\ sent \in -1 .. Farthest /\ own \in BOOLEAN /\ moved \in BOOLEAN /\ lost \in BOOLEAN

\* What is on its way is the newest position, unless the server was told of none.
NewestIsSent == sent # -1 /\ ~lost => sent = last

AskInv == AskTypes /\ NoRequestLost
PumpInv == PumpTypes /\ ScanGoesOn /\ ScanHonest /\ DirectLimited
MotionInv == MotionTypes /\ NewestIsSent /\ PositionHeard

\* A queue of requests at its ends.
LEMMA WantedEnds ==
    ASSUME NEW q \in Seq(Request)
    PROVE  /\ \A r \in Request : /\ Append(q, r) \in Seq(Request)
                                 /\ Wanted(Append(q, r)) = Wanted(q) \cup {r.id}
           /\ q # << >> => /\ Head(q) \in Request /\ Tail(q) \in Seq(Request)
                           /\ Wanted(q) = Wanted(Tail(q)) \cup {Head(q).id}
<1>1. ASSUME NEW r \in Request
      PROVE  Append(q, r) \in Seq(Request) /\ Wanted(Append(q, r)) = Wanted(q) \cup {r.id}
  <2> DEFINE a == Append(q, r)
             n == Len(q)
  <2>1. /\ a \in Seq(Request) /\ n \in Nat /\ DOMAIN q = 1 .. n /\ DOMAIN a = 1 .. n + 1
        /\ a[n + 1] = r /\ \A i \in 1 .. n : a[i] = q[i]
    OBVIOUS
  <2>2. \A i \in 1 .. n + 1 : i = n + 1 \/ i \in 1 .. n
    BY <2>1
  <2>3. 1 .. n \subseteq 1 .. n + 1 /\ n + 1 \in 1 .. n + 1
    BY <2>1
  <2> HIDE DEF a, n
  <2>4. \A e : e \in Wanted(a) <=> e \in Wanted(q) \cup {r.id}
    BY <2>1, <2>2, <2>3 DEF Wanted
  <2> QED
    BY <2>1, <2>4 DEF a
<1>2. ASSUME q # << >>
      PROVE  /\ Head(q) \in Request /\ Tail(q) \in Seq(Request)
             /\ Wanted(q) = Wanted(Tail(q)) \cup {Head(q).id}
  <2> DEFINE a == Tail(q)
             n == Len(q)
  <2>1. /\ a \in Seq(Request) /\ n \in Nat /\ n > 0 /\ DOMAIN q = 1 .. n /\ DOMAIN a = 1 .. n - 1
        /\ Head(q) = q[1] /\ Head(q) \in Request /\ \A i \in 1 .. n - 1 : a[i] = q[i + 1]
    BY <1>2
  <2>2. \A i \in 1 .. n : i = 1 \/ (i - 1 \in 1 .. n - 1 /\ q[i] = a[i - 1])
    BY <2>1
  <2>3. 1 \in 1 .. n /\ \A i \in 1 .. n - 1 : i + 1 \in 1 .. n
    BY <2>1
  <2> HIDE DEF a, n
  <2>7. \A e : e \in Wanted(q) <=> \E i \in 1 .. n : e = q[i].id
    BY <2>1 DEF Wanted
  <2>8. \A e : e \in Wanted(a) <=> \E i \in 1 .. n - 1 : e = a[i].id
    BY <2>1 DEF Wanted
  <2>9. \A i \in 1 .. n - 1 : i + 1 \in 1 .. n /\ a[i].id = q[i + 1].id
    BY <2>1, <2>3
  <2>4. \A e : e \in Wanted(q) => e \in Wanted(a) \cup {q[1].id}
    BY <2>2, <2>7, <2>8
  <2>5. \A e : e \in Wanted(a) => e \in Wanted(q)
    BY <2>7, <2>8, <2>9
  <2>6. q[1].id \in Wanted(q)
    BY <2>3, <2>7
  <2> QED
    BY <2>1, <2>4, <2>5, <2>6 DEF a
<1> QED
  BY <1>1, <1>2

\* A poll of the own character.
LEMMA PollKeepsFaith ==
    ASSUME MotionInv, Poll PROVE MotionInv'
<1>0. Threshold \in Nat \ {0} /\ Farthest \in Nat
  BY StagesAssumption
<1> USE DEF Poll, MotionInv
<1>1. CASE own' /\ Changed(at)
  <2>1. /\ sent' = at /\ last' = at /\ lost' = FALSE /\ moved' = FALSE /\ at' = at /\ heard' = heard
        /\ own' \in BOOLEAN
    BY <1>1 DEF MotionTypes
  <2>2. at \in 0 .. Farthest /\ heard \in 0 .. Farthest
    BY DEF MotionTypes
  <2>3. MotionTypes' /\ NewestIsSent'
    <3>1. at \in -1 .. Farthest
      BY <1>0, <2>2
    <3>2. /\ at' \in 0 .. Farthest /\ last' \in 0 .. Farthest /\ heard' \in 0 .. Farthest
          /\ sent' \in -1 .. Farthest
      BY <2>1, <2>2, <3>1
    <3>3. own' \in BOOLEAN /\ moved' \in BOOLEAN /\ lost' \in BOOLEAN
      BY <2>1
    <3>4. NewestIsSent'
      BY <2>1 DEF NewestIsSent
    <3> QED
      BY <3>2, <3>3, <3>4 DEF MotionTypes
  <2>4. Distance(at', last') = 0 /\ sent' # -1
    <3>1. Distance(at', last') = at - at
      BY <2>1 DEF Distance
    <3> QED
      BY <1>0, <2>1, <2>2, <3>1
  <2>5. PositionHeard'
    BY <1>0, <2>1, <2>4 DEF PositionHeard
  <2> QED
    BY <2>3, <2>5
<1>2. CASE ~(own' /\ Changed(at))
  <2>1. /\ UNCHANGED <<sent, last, lost, at, heard>> /\ moved' = FALSE
        /\ own' \in BOOLEAN
    BY <1>2 DEF MotionTypes
  <2>2. own' => Distance(at, last) < Threshold
    BY <1>0, <1>2 DEF Changed, Distance, MotionTypes
  <2> QED
    BY <2>1, <2>2 DEF MotionTypes, NewestIsSent, PositionHeard, Distance
<1> QED
  BY <1>1, <1>2

\* The own character: what was last said of him is where he was at the last poll.
LEMMA MotionStep ==
    ASSUME MotionInv, [OsNext]_osVars PROVE MotionInv'
<1>0. Threshold \in Nat \ {0} /\ Farthest \in Nat
  BY StagesAssumption
<1>1. ASSUME UNCHANGED motion PROVE MotionInv'
  BY <1>1 DEF motion, MotionInv, MotionTypes, NewestIsSent, PositionHeard, Distance
<1>2. Poll => MotionInv'
  BY PollKeepsFaith
<1>3. CASE OwnMoves
  BY <1>0, <1>3 DEF OwnMoves, MotionInv, MotionTypes, NewestIsSent, PositionHeard
<1>4. CASE PositionArrives
  BY <1>0, <1>4 DEF PositionArrives, MotionInv, MotionTypes, NewestIsSent, PositionHeard, Distance
<1>5. CASE PositionLost
  BY <1>0, <1>5 DEF PositionLost, MotionInv, MotionTypes, NewestIsSent, PositionHeard, Distance
<1>6. CASE UNCHANGED osVars
  BY <1>1, <1>6 DEF osVars
<1> QED
  BY <1>1, <1>2, <1>3, <1>4, <1>5, <1>6
     DEF OsNext, StagePollAndSendPositions, PollNotDue, StageProcessSpawns, PopSpawn, DirectSpawned,
         LinkBody, DirectFailed, CoreSpawnQueue, HandleSpawn, QueueSpawn, ClearSpawns,
         UnregisterOwned, GameCreates, TimePassed, ForgetRemotes, ResetStages, EmptyQueue

\* The timers and the heap search.
LEMMA PumpStep ==
    ASSUME PumpInv, [OsNext]_osVars PROVE PumpInv'
<1> USE DEF PumpInv
<1>0. {Patience, Gap, DirectTries, ScanTries} \subseteq Nat \ {0}
  BY StagesAssumption
<1>1. ASSUME UNCHANGED pump PROVE PumpInv'
  BY <1>1 DEF pump, PumpTypes, ScanGoesOn, ScanHonest, DirectLimited
<1> DEFINE HeapFine == /\ heap \in [done : BOOLEAN, tries : 0 .. ScanTries, due : BOOLEAN]
                       /\ modFound \in BOOLEAN /\ ScanGoesOn /\ ScanHonest
           WaitFine == /\ waiting \in [on : BOOLEAN, age : 0 .. Patience, tries : 0 .. DirectTries,
                                       since : 0 .. Gap]
                       /\ DirectLimited
<1>2. HeapFine /\ WaitFine
  BY DEF PumpTypes
<1>3. HeapFine' /\ WaitFine' => PumpInv'
  BY DEF PumpTypes
<1>4. HeapScan => HeapFine'
  <2>1. CASE UNCHANGED <<heap, modFound>>
    BY <1>2, <2>1 DEF ScanGoesOn, ScanHonest
  <2>2. CASE /\ ScanNeeded
             /\ \E any \in {modFound, TRUE} :
                  /\ modFound' = any
                  /\ heap' = [done |-> heap.done \/ ScanDone(heap.tries + 1, any),
                              tries |-> heap.tries + 1, due |-> FALSE]
    <3>1. heap.tries \in 0 .. ScanTries /\ heap.tries < ScanTries
      BY <1>0, <1>2, <2>2 DEF ScanNeeded, ScanGoesOn
    <3>2. PICK any \in {modFound, TRUE} :
             /\ modFound' = any
             /\ heap' = [done |-> heap.done \/ ScanDone(heap.tries + 1, any),
                         tries |-> heap.tries + 1, due |-> FALSE]
      BY <2>2
    <3>3. any \in BOOLEAN /\ heap.done \in BOOLEAN /\ (heap.done => ~modFound)
      BY <1>2, <2>2, <3>1, <3>2 DEF ScanNeeded
    <3>4. ~heap.done
      BY <1>2, <3>1, <3>3 DEF ScanHonest
    <3>5. heap.tries + 1 \in 0 .. ScanTries
      BY <1>0, <3>1
    <3>6. ScanDone(heap.tries + 1, any) \in BOOLEAN
      BY <3>3 DEF ScanDone
    <3>7. heap' \in [done : BOOLEAN, tries : 0 .. ScanTries, due : BOOLEAN]
      BY <3>2, <3>3, <3>5, <3>6
    <3>8. /\ heap'.tries = heap.tries + 1
          /\ heap'.done <=> (any \/ heap.tries + 1 >= ScanTries)
      BY <3>2, <3>4 DEF ScanDone
    <3>9. ScanGoesOn' /\ ScanHonest'
      BY <1>0, <3>1, <3>2, <3>5, <3>8 DEF ScanGoesOn, ScanHonest
    <3> QED
      BY <3>2, <3>3, <3>7, <3>9
  <2> QED
    BY <2>1, <2>2 DEF HeapScan
<1>5. CASE StageProcessSpawns
  <2> DEFINE w == Timer
  <2>0. waiting = [on |-> waiting.on, age |-> waiting.age, tries |-> waiting.tries, since |-> waiting.since]
        /\ waiting.on \in BOOLEAN /\ waiting.age \in 0 .. Patience
        /\ waiting.tries \in 0 .. DirectTries /\ waiting.since \in 0 .. Gap
    BY <1>2
  <2>1. /\ w \in [on : BOOLEAN, age : 0 .. Patience, tries : 0 .. DirectTries, since : 0 .. Gap]
        /\ w.tries <= DirectTries /\ (w.tries > 0 => w.on /\ w.age = Patience)
    <3>1. CASE pending = << >>
      <4>1. w = [on |-> FALSE, age |-> 0, tries |-> 0, since |-> waiting.since]
        BY <3>1 DEF Timer, Resting
      <4> HIDE DEF w
      <4> QED
        BY <1>0, <2>0, <4>1
    <3>2. CASE pending # << >> /\ waiting.on
      BY <1>2, <2>0, <3>2 DEF Timer, DirectLimited
    <3>3. CASE pending # << >> /\ ~waiting.on
      <4>1. w = [on |-> TRUE, age |-> 0, tries |-> waiting.tries, since |-> waiting.since]
        BY <2>0, <3>3 DEF Timer
      <4>2. ~(waiting.tries > 0)
        BY <1>2, <3>3 DEF DirectLimited
      <4> HIDE DEF w
      <4> QED
        BY <1>0, <2>0, <4>1, <4>2
    <3> QED
      BY <3>1, <3>2, <3>3
  <2> HIDE DEF w
  <2>2. /\ HeapScan
        /\ IF DirectDue(w) THEN waiting' = [w EXCEPT !.tries = @ + 1, !.since = 0] ELSE waiting' = w
    BY <1>5 DEF StageProcessSpawns, w
  <2>3. WaitFine'
    <3>1. CASE ~DirectDue(w)
      BY <2>1, <2>2, <3>1 DEF DirectLimited
    <3>2. CASE DirectDue(w)
      <4>1. w.on /\ w.age >= Patience /\ w.tries < DirectTries
        BY <3>2 DEF DirectDue
      <4>2. w.age = Patience /\ w.tries + 1 \in 0 .. DirectTries /\ w.on \in BOOLEAN
        BY <1>0, <2>1, <4>1
      <4>3. waiting' = [on |-> w.on, age |-> w.age, tries |-> w.tries + 1, since |-> 0]
        BY <2>1, <2>2, <3>2
      <4> QED
        BY <1>0, <2>1, <4>1, <4>2, <4>3 DEF DirectLimited
    <3> QED
      BY <3>1, <3>2
  <2> QED
    BY <1>3, <1>4, <2>2, <2>3
<1>6. CASE TimePassed
  <2>1. /\ waiting' = [waiting EXCEPT !.age = IF waiting.on THEN Bounded(@, Patience) ELSE @,
                                      !.since = Bounded(@, Gap)]
        /\ heap' = [heap EXCEPT !.due = TRUE] /\ modFound' = modFound
    BY <1>6 DEF TimePassed
  <2>2. HeapFine'
    BY <1>2, <2>1 DEF ScanGoesOn, ScanHonest
  <2>3. WaitFine'
    <3>1. /\ waiting.on \in BOOLEAN /\ waiting.age \in 0 .. Patience
          /\ waiting.tries \in 0 .. DirectTries /\ waiting.since \in 0 .. Gap
      BY <1>2
    <3> DEFINE age == IF waiting.on THEN Bounded(waiting.age, Patience) ELSE waiting.age
               since2 == Bounded(waiting.since, Gap)
    <3>2. age \in 0 .. Patience /\ since2 \in 0 .. Gap /\ (waiting.age = Patience => age = Patience)
      BY <1>0, <3>1 DEF Bounded
    <3>3. waiting' = [on |-> waiting.on, age |-> age, tries |-> waiting.tries, since |-> since2]
      BY <1>2, <2>1
    <3> HIDE DEF age, since2
    <3> QED
      BY <1>2, <3>1, <3>2, <3>3 DEF DirectLimited
  <2> QED
    BY <1>3, <2>2, <2>3
<1>7. CASE ResetStages
  <2>1. /\ waiting' = [Resting EXCEPT !.since = waiting.since]
        /\ heap' = [done |-> FALSE, tries |-> 0, due |-> TRUE] /\ modFound' = modFound
    BY <1>7 DEF ResetStages
  <2>2. HeapFine'
    BY <1>0, <1>2, <2>1 DEF ScanGoesOn, ScanHonest
  <2>3. WaitFine'
    <3>1. waiting' = [on |-> FALSE, age |-> 0, tries |-> 0, since |-> waiting.since]
      BY <2>1 DEF Resting
    <3> QED
      BY <1>0, <1>2, <3>1 DEF DirectLimited
  <2> QED
    BY <1>3, <2>2, <2>3
<1>8. CASE UNCHANGED osVars
  BY <1>1, <1>8 DEF osVars
<1> QED
  BY <1>1, <1>5, <1>6, <1>7, <1>8
     DEF OsNext, StagePollAndSendPositions, PollNotDue, PopSpawn, DirectSpawned,
         LinkBody, DirectFailed, CoreSpawnQueue, HandleSpawn, QueueSpawn, ClearSpawns,
         UnregisterOwned, GameCreates, OwnMoves, PositionArrives, PositionLost, ForgetRemotes, EmptyQueue

\* The requests: between the two pumps, the network thread and the end of a session none
\* gets out of sight.
LEMMA AskStep ==
    ASSUME AskInv, [OsNext]_osVars PROVE AskInv'
<1> USE DEF AskInv
<1>0. /\ bodyOf \in [Remotes -> {"absent", "none", "body"}] /\ pending \in Seq(Request)
      /\ 0 \notin Remotes /\ MaxAsk \in Nat \ {0} /\ NoRequest.id = 0
      /\ packet \in [pc : {"idle", "queue", "left"}, id : Remotes \cup {0}]
  BY StagesAssumption DEF AskTypes, NoRequest
<1>1. ASSUME UNCHANGED <<step, hand, packet, asks>> PROVE AskInv'
  BY <1>1 DEF asks, AskTypes, NoRequestLost
<1>2. ASSUME UNCHANGED <<hand, packet, asks>>, step \notin {"direct", "link"},
             step' \in {"poll", "spawns", "pop", "core", "clear"}
      PROVE  AskInv'
  BY <1>2 DEF asks, AskTypes, NoRequestLost
<1>3. CASE StageProcessSpawns
  <2>1. UNCHANGED <<hand, packet, asks>> /\ step = "spawns" /\ step' \in {"pop", "core"}
    BY <1>3 DEF StageProcessSpawns
  <2> QED
    BY <1>2, <2>1
<1>4. CASE PopSpawn
  <2>1. CASE pending = << >>
    <3>1. UNCHANGED <<hand, packet, asks>> /\ step = "pop" /\ step' = "core"
      BY <1>4, <2>1 DEF PopSpawn, asks
    <3> QED
      BY <1>2, <3>1
  <2>2. CASE pending # << >>
    <3>1. /\ step = "pop" /\ step' = "direct" /\ hand' = Head(pending) /\ pending' = Tail(pending)
          /\ UNCHANGED <<packet, bodyOf, dropped>>
      BY <1>4, <2>2 DEF PopSpawn
    <3>2. hand.id = 0
      BY <1>0, <3>1 DEF AskTypes
    <3>3. hand' \in Request /\ pending' \in Seq(Request)
          /\ Wanted(pending) = Wanted(pending') \cup {hand'.id}
      BY <1>0, <2>2, <3>1, WantedEnds
    <3>4. AskTypes'
      BY <3>1, <3>3 DEF AskTypes
    <3>5. NoRequestLost'
      BY <1>0, <3>1, <3>2, <3>3 DEF NoRequestLost
    <3> QED
      BY <3>4, <3>5
  <2> QED
    BY <2>1, <2>2
<1>5. CASE DirectSpawned
  <2>1. /\ step = "direct" /\ step' = IF bodyOf[hand.id] = "absent" THEN "core" ELSE "link"
        /\ hand' = IF step' = "core" THEN NoRequest ELSE hand
        /\ UNCHANGED <<packet, bodyOf, pending, dropped>>
    BY <1>5 DEF DirectSpawned, asks
  <2>2. hand \in Request
    BY <2>1 DEF AskTypes
  <2>3. AskTypes'
    BY <2>1, <2>2 DEF AskTypes
  <2>4. NoRequestLost'
    BY <1>0, <2>1, <2>2 DEF NoRequestLost
  <2> QED
    BY <2>3, <2>4
<1>6. CASE LinkBody
  <2>1. /\ step = "link" /\ step' = "core" /\ hand' = NoRequest
        /\ bodyOf' = [bodyOf EXCEPT ![hand.id] = IF bodyOf[hand.id] = "absent" THEN bodyOf[hand.id] ELSE "body"]
        /\ UNCHANGED <<packet, pending, dropped>>
    BY <1>6 DEF LinkBody
  <2>2. hand \in Request /\ hand.id \in Remotes
    BY <2>1 DEF AskTypes, Request
  <2>3. bodyOf' \in [Remotes -> {"absent", "none", "body"}]
    BY <1>0, <2>1, <2>2
  <2>4. AskTypes'
    BY <2>1, <2>3 DEF AskTypes
  <2>5. \A e \in Remotes : bodyOf'[e] = "none" => bodyOf[e] = "none" /\ e # hand.id
    BY <1>0, <2>1, <2>2
  <2>6. NoRequestLost'
    BY <1>0, <2>1, <2>5 DEF NoRequestLost
  <2> QED
    BY <2>4, <2>6
<1>7. CASE DirectFailed
  <2>1. /\ step = "direct" /\ step' = "core" /\ hand' = NoRequest /\ UNCHANGED <<packet, bodyOf>>
    BY <1>7 DEF DirectFailed
  <2>2. hand \in Request /\ hand.id \in Remotes /\ hand.retry \in 0 .. MaxAsk
    BY <2>1 DEF AskTypes, Request
  <2>3. CASE Requeued(hand)
    <3> DEFINE again == [hand EXCEPT !.retry = @ + 1]
    <3>1. pending' = Append(pending, again) /\ dropped' = dropped
      BY <1>7, <2>3 DEF DirectFailed
    <3>2. again \in Request /\ again.id = hand.id
      BY <1>0, <2>2, <2>3 DEF Requeued, Request
    <3> HIDE DEF again
    <3>3. pending' \in Seq(Request) /\ Wanted(pending') = Wanted(pending) \cup {hand.id}
      BY <1>0, <3>1, <3>2, WantedEnds
    <3>4. AskTypes'
      BY <2>1, <3>3 DEF AskTypes
    <3>5. NoRequestLost'
      BY <1>0, <2>1, <3>1, <3>3 DEF NoRequestLost
    <3> QED
      BY <3>4, <3>5
  <2>4. CASE ~Requeued(hand)
    <3>1. hand.retry + 1 >= MaxAsk
      BY <1>0, <2>2, <2>4 DEF Requeued
    <3>2. pending' = pending /\ dropped' = dropped \cup {hand.id}
      BY <1>7, <2>4, <3>1 DEF DirectFailed
    <3>3. AskTypes'
      BY <2>1, <3>2 DEF AskTypes
    <3>4. NoRequestLost'
      BY <1>0, <2>1, <3>2 DEF NoRequestLost
    <3> QED
      BY <3>3, <3>4
  <2> QED
    BY <2>3, <2>4
<1>8. CASE CoreSpawnQueue
  <2>1. step = "core" /\ step' = "poll" /\ UNCHANGED <<hand, packet>>
    BY <1>8 DEF CoreSpawnQueue
  <2>2. ASSUME UNCHANGED asks PROVE AskInv'
    BY <1>2, <2>1, <2>2
  <2>3. ASSUME pending # << >>, ~UNCHANGED asks PROVE AskInv'
    <3> DEFINE r == Head(pending)
    <3>1. r \in Request /\ Tail(pending) \in Seq(Request)
          /\ Wanted(pending) = Wanted(Tail(pending)) \cup {r.id}
      BY <1>0, <2>3, WantedEnds
    <3>2. r.id \in Remotes /\ r.retry \in 0 .. MaxAsk
      BY <3>1 DEF Request
    <3>3. \/ /\ pending' = Tail(pending) /\ UNCHANGED dropped
             /\ bodyOf' = [bodyOf EXCEPT ![r.id] = IF bodyOf[r.id] = "absent" THEN bodyOf[r.id] ELSE "body"]
          \/ pending' = Tail(pending) /\ dropped' = dropped \cup {r.id} /\ UNCHANGED bodyOf
          \/ /\ r.retry + 1 < MaxAsk
             /\ pending' = Append(Tail(pending), [r EXCEPT !.retry = @ + 1])
             /\ UNCHANGED <<dropped, bodyOf>>
      BY <1>8, <2>3 DEF CoreSpawnQueue
    <3> HIDE DEF r
    <3>4. CASE /\ pending' = Tail(pending) /\ UNCHANGED dropped
               /\ bodyOf' = [bodyOf EXCEPT ![r.id] = IF bodyOf[r.id] = "absent" THEN bodyOf[r.id] ELSE "body"]
      <4>1. bodyOf' \in [Remotes -> {"absent", "none", "body"}]
        BY <1>0, <3>2, <3>4
      <4>2. \A e \in Remotes : bodyOf'[e] = "none" => bodyOf[e] = "none" /\ e # r.id
        BY <1>0, <3>2, <3>4
      <4>3. AskTypes'
        BY <2>1, <3>1, <3>4, <4>1 DEF AskTypes
      <4>4. NoRequestLost'
        BY <2>1, <3>1, <3>4, <4>2 DEF NoRequestLost
      <4> QED
        BY <4>3, <4>4
    <3>5. CASE pending' = Tail(pending) /\ dropped' = dropped \cup {r.id} /\ UNCHANGED bodyOf
      BY <2>1, <3>1, <3>5 DEF AskTypes, NoRequestLost
    <3>6. CASE /\ r.retry + 1 < MaxAsk
               /\ pending' = Append(Tail(pending), [r EXCEPT !.retry = @ + 1])
               /\ UNCHANGED <<dropped, bodyOf>>
      <4> DEFINE again == [r EXCEPT !.retry = @ + 1]
      <4>0. r.retry + 1 \in 0 .. MaxAsk
        BY <1>0, <3>2, <3>6
      <4>1. again \in Request /\ again.id = r.id
        BY <3>1, <4>0 DEF Request
      <4>2. pending' = Append(Tail(pending), again)
        BY <3>6
      <4> HIDE DEF again
      <4>4. /\ Append(Tail(pending), again) \in Seq(Request)
            /\ Wanted(Append(Tail(pending), again)) = Wanted(Tail(pending)) \cup {again.id}
        BY <3>1, <4>1, WantedEnds
      <4>3. pending' \in Seq(Request) /\ Wanted(pending') = Wanted(pending)
        BY <3>1, <4>1, <4>2, <4>4
      <4> QED
        BY <2>1, <3>6, <4>3 DEF AskTypes, NoRequestLost
    <3> QED
      BY <3>3, <3>4, <3>5, <3>6
  <2> QED
    BY <1>8, <2>2, <2>3 DEF CoreSpawnQueue
<1>9. CASE HandleSpawn
  <2>1. PICK e \in Remotes :
            /\ bodyOf' = [bodyOf EXCEPT ![e] = IF bodyOf[e] = "absent" THEN "none" ELSE bodyOf[e]]
            /\ dropped' = dropped \ {e}
            /\ packet' = [pc |-> "queue", id |-> e]
    BY <1>9 DEF HandleSpawn
  <2>2. packet.pc = "idle" /\ packet.id = 0 /\ UNCHANGED <<step, hand, pending>>
    BY <1>9 DEF HandleSpawn, AskTypes
  <2>3. bodyOf' \in [Remotes -> {"absent", "none", "body"}]
    BY <1>0, <2>1
  <2>4. AskTypes'
    BY <2>1, <2>2, <2>3 DEF AskTypes
  <2>5. \A k \in Remotes : k # e => bodyOf'[k] = bodyOf[k]
    BY <1>0, <2>1
  <2>6. NoRequestLost'
    BY <1>0, <2>1, <2>2, <2>5 DEF NoRequestLost
  <2> QED
    BY <2>4, <2>6
<1>10. CASE QueueSpawn
  <2> DEFINE r == [id |-> packet.id, retry |-> 0]
  <2>1. /\ packet.pc = "queue" /\ packet' = [pc |-> "idle", id |-> 0]
        /\ pending' = Append(pending, r) /\ UNCHANGED <<step, hand, bodyOf, dropped>>
    BY <1>10 DEF QueueSpawn
  <2>2. r \in Request /\ r.id = packet.id
    BY <1>0, <2>1 DEF AskTypes, Request
  <2> HIDE DEF r
  <2>3. pending' \in Seq(Request) /\ Wanted(pending') = Wanted(pending) \cup {packet.id}
    BY <1>0, <2>1, <2>2, WantedEnds
  <2> QED
    BY <1>0, <2>1, <2>3 DEF AskTypes, NoRequestLost
<1>11. CASE ClearSpawns
  <2>1. /\ packet' = [pc |-> "left", id |-> 0] /\ pending' = << >>
        /\ UNCHANGED <<step, hand, bodyOf, dropped>>
    BY <1>11 DEF ClearSpawns
  <2> QED
    BY <2>1 DEF AskTypes, NoRequestLost
<1>12. ASSUME bodyOf' = [e \in Remotes |-> "absent"], UNCHANGED <<hand, pending>>,
              step' = step \/ (step = "poll" /\ step' = "reset"),
              packet' \in {packet, [pc |-> "idle", id |-> 0]}
       PROVE  AskInv'
  <2>1. pending' \in Seq(Request) /\ bodyOf' \in [Remotes -> {"absent", "none", "body"}]
    BY <1>0, <1>12
  <2>2. AskTypes'
    BY <1>12, <2>1 DEF AskTypes
  <2>3. NoRequestLost'
    BY <1>12 DEF NoRequestLost
  <2> QED
    BY <2>2, <2>3
<1>13. CASE UnregisterOwned
  BY <1>12, <1>13 DEF UnregisterOwned
<1>14. CASE ForgetRemotes
  BY <1>12, <1>14 DEF ForgetRemotes
<1>17. CASE ResetStages
  BY <1>2, <1>17 DEF ResetStages
<1>18. CASE EmptyQueue
  <2>1. /\ step = "clear" /\ step' = "poll" /\ pending' = << >> /\ dropped' = dropped \cup Wanted(pending)
        /\ UNCHANGED <<hand, packet, bodyOf>>
    BY <1>18 DEF EmptyQueue
  <2>2. << >> \in Seq(Request)
    OBVIOUS
  <2>3. AskTypes'
    BY <2>1, <2>2 DEF AskTypes
  <2>4. NoRequestLost'
    BY <2>1 DEF NoRequestLost
  <2> QED
    BY <2>3, <2>4
<1>15. CASE StagePollAndSendPositions \/ PollNotDue
  <2>1. UNCHANGED <<hand, packet, asks>> /\ step = "poll" /\ step' = "spawns"
    BY <1>15 DEF StagePollAndSendPositions, PollNotDue
  <2> QED
    BY <1>2, <2>1
<1>16. CASE UNCHANGED osVars
  BY <1>1, <1>16 DEF osVars
<1> QED
  BY <1>1, <1>3, <1>4, <1>5, <1>6, <1>7, <1>8, <1>9, <1>10, <1>11, <1>13, <1>14, <1>15, <1>16, <1>17, <1>18
     DEF OsNext, GameCreates, TimePassed, OwnMoves, PositionArrives, PositionLost

LEMMA StagesStart == OsInit => AskInv /\ PumpInv /\ MotionInv
<1>0. /\ {MaxAsk, Patience, Gap, DirectTries, ScanTries, Threshold} \subseteq Nat \ {0}
      /\ {Farthest, SpawnBound} \subseteq Nat
  BY StagesAssumption
<1>1. OsInit => AskInv
  <2> SUFFICES ASSUME OsInit PROVE AskInv
    OBVIOUS
  <2>1. /\ step = "poll" /\ hand = NoRequest /\ packet = [pc |-> "idle", id |-> 0]
        /\ bodyOf = [e \in Remotes |-> "absent"] /\ pending = << >>
    BY DEF OsInit
  <2>2. pending \in Seq(Request) /\ bodyOf \in [Remotes -> {"absent", "none", "body"}]
    BY <2>1
  <2>3. AskTypes
    BY <2>1, <2>2 DEF AskTypes
  <2>4. NoRequestLost
    BY <2>1 DEF NoRequestLost
  <2> QED
    BY <2>3, <2>4 DEF AskInv
<1>2. OsInit => PumpInv
  <2> SUFFICES ASSUME OsInit PROVE PumpInv
    OBVIOUS
  <2>1. /\ waiting = [on |-> FALSE, age |-> 0, tries |-> 0, since |-> 0]
        /\ heap = [done |-> FALSE, tries |-> 0, due |-> TRUE] /\ modFound = FALSE
    BY DEF OsInit, Resting
  <2>2. 0 \in 0 .. Patience /\ 0 \in 0 .. DirectTries /\ 0 \in 0 .. Gap /\ 0 \in 0 .. ScanTries
        /\ 0 < ScanTries /\ 0 <= DirectTries
    BY <1>0
  <2>3. PumpTypes
    BY <2>1, <2>2 DEF PumpTypes
  <2>4. ScanGoesOn /\ ScanHonest /\ DirectLimited
    BY <1>0, <2>1 DEF ScanGoesOn, ScanHonest, DirectLimited
  <2> QED
    BY <2>3, <2>4 DEF PumpInv
<1>3. OsInit => MotionInv
  <2> SUFFICES ASSUME OsInit PROVE MotionInv
    OBVIOUS
  <2>1. /\ at = 0 /\ own = TRUE /\ last = 0 /\ sent = -1 /\ heard = 0 /\ lost = FALSE /\ moved = FALSE
    BY DEF OsInit
  <2>2. 0 \in 0 .. Farthest /\ -1 \in -1 .. Farthest
    BY <1>0
  <2>3. MotionTypes
    BY <2>1, <2>2 DEF MotionTypes
  <2>4. NewestIsSent /\ Distance(at, last) = 0
    BY <2>1 DEF NewestIsSent, Distance
  <2>5. PositionHeard
    BY <1>0, <2>1, <2>4 DEF PositionHeard
  <2> QED
    BY <2>3, <2>5, <2>4 DEF MotionInv
<1> QED
  BY <1>1, <1>2, <1>3

LEMMA StagesInvariant == OsSpec => [](AskInv /\ PumpInv /\ MotionInv)
  BY StagesStart, AskStep, PumpStep, MotionStep, PTL DEF OsSpec

\* What the invariants say of the ranges and of the promises.
LEMMA StagesSuffice == AskInv /\ PumpInv /\ MotionInv => OsTypeOK /\ StagesSound
<1>1. ASSUME AskInv, PumpInv, MotionInv PROVE OsTypeOK
  <2>1. MaxAsk \in Nat \ {0}
    BY StagesAssumption
  <2>2. hand \in [id : Remotes \cup {0}, retry : 0 .. MaxAsk]
    <3>1. CASE step \in {"direct", "link"}
      BY <1>1, <3>1 DEF AskInv, AskTypes, Request
    <3>2. CASE step \notin {"direct", "link"}
      <4>1. hand = [id |-> 0, retry |-> 0]
        BY <1>1, <3>2 DEF AskInv, AskTypes, NoRequest
      <4> QED
        BY <2>1, <4>1
    <3> QED
      BY <3>1, <3>2
  <2>3. \A i \in DOMAIN pending : pending[i] \in [id : Remotes, retry : 0 .. MaxAsk]
    <3>1. pending \in Seq(Request)
      BY <1>1 DEF AskInv, AskTypes
    <3>2. \A i \in DOMAIN pending : pending[i] \in Request
      BY <3>1
    <3> QED
      BY <3>2 DEF Request
  <2> QED
    BY <1>1, <2>2, <2>3 DEF OsTypeOK, AskInv, AskTypes, PumpInv, PumpTypes, MotionInv, MotionTypes
<1>2. AskInv /\ PumpInv /\ MotionInv => StagesSound
  BY DEF AskInv, PumpInv, MotionInv, StagesSound
<1> QED
  BY <1>1, <1>2

\* Two pumps and the network thread share the queue, and no request is lost; the heap is
\* searched until templates are found or the tries used; direct spawns wait and are
\* limited; and the server was sent where the own character is.
THEOREM StagesKeepFaith == OsSpec => []StagesSound
  BY StagesSuffice, StagesInvariant, PTL

\* Requests, timers and positions stay in their ranges.
THEOREM StagesAreTyped == OsSpec => []OsTypeOK
  BY StagesSuffice, StagesInvariant, PTL

-----------------------------------------------------------------------------
(* The teleport.                                                           *)

TeleportTypes ==
    /\ online \in BOOLEAN /\ tpDone \in BOOLEAN /\ hostHere \in BOOLEAN /\ late \in BOOLEAN
    /\ point \in -1 .. Farthest /\ setting \in -1 .. Farthest
    /\ tpTimer \in -1 .. TpWait /\ since \in -1 .. TpWait
    /\ remoteAt \subseteq 0 .. Farthest
    /\ greetings \in 0 .. HtBound /\ toldIn \in 0 .. HtBound /\ landings \in Nat

\* The point is noted once, and its age counted from then on; the timer starts later.
PointAges ==
    /\ setting # -1 => point = -1
    /\ tpDone \/ tpTimer # -1 => point # -1
    /\ point # -1 => since # -1
    /\ tpTimer <= since

\* What is noted outside of a session was overtaken by its end.
NotedInTime ==
    /\ ~online /\ ~late => point = -1 /\ setting = -1
    /\ online /\ ~late /\ setting # -1 => toldIn = greetings

LandsOnce == ~tpDone => landings = 0

TeleportInv == TeleportTypes /\ PointAges /\ NotedInTime /\ LandsOnce /\ TeleportSound

LEMMA TeleportStep ==
    ASSUME TeleportInv, [HtNext]_<<osVars, htVars>> PROVE TeleportInv'
<1> USE DEF TeleportInv
<1> DEFINE Rest == PointAges /\ NotedInTime /\ LandsOnce /\ TeleportSound
<1>0. TpWait \in Nat \ {0} /\ HtBound \in Nat /\ Farthest \in Nat
  BY TeleportAssumption, StagesAssumption
<1>1. ASSUME UNCHANGED htVars PROVE TeleportInv'
  BY <1>1 DEF htVars, TeleportTypes, PointAges, NotedInTime, LandsOnce, TeleportSound
<1>2. CASE HandleHostTeleport
  <2>1. /\ online /\ UNCHANGED <<online, point, hostHere, remoteAt, setting, greetings, toldIn, since, late>>
        /\ tpTimer' = IF Waits THEN Timed ELSE tpTimer
        /\ \/ UNCHANGED <<tpDone, landings>>
           \/ Waits /\ Timed >= TpWait /\ tpDone' = TRUE /\ landings' = landings + 1
    BY <1>2 DEF HandleHostTeleport
  <2>2. tpTimer' \in -1 .. TpWait /\ tpTimer' <= since /\ (tpTimer' # -1 => point # -1)
    <3>1. CASE ~Waits
      BY <2>1, <3>1 DEF TeleportTypes, PointAges
    <3>2. CASE Waits
      <4>1. point # -1 /\ since # -1 /\ since \in -1 .. TpWait
        BY <3>2 DEF Waits, PointAges, TeleportTypes
      <4> QED
        BY <1>0, <2>1, <3>2, <4>1 DEF Timed, TeleportTypes, PointAges
    <3> QED
      BY <3>1, <3>2
  <2>3. CASE UNCHANGED <<tpDone, landings>>
    <3>1. TeleportTypes'
      BY <2>1, <2>2, <2>3 DEF TeleportTypes
    <3>2. Rest'
      BY <2>1, <2>2, <2>3 DEF PointAges, NotedInTime, LandsOnce, TeleportSound
    <3> QED
      BY <3>1, <3>2
  <2>4. CASE Waits /\ Timed >= TpWait /\ tpDone' = TRUE /\ landings' = landings + 1
    <3>1. ~tpDone /\ point # -1 /\ landings' = 1
      BY <2>4 DEF Waits, LandsOnce
    <3>2. since = TpWait
      BY <1>0, <2>4 DEF Timed, PointAges, TeleportTypes
    <3>3. TeleportTypes'
      BY <2>1, <2>2, <2>4, <3>1 DEF TeleportTypes
    <3>4. Rest'
      BY <2>1, <2>2, <2>4, <3>1, <3>2 DEF PointAges, NotedInTime, LandsOnce, TeleportSound
    <3> QED
      BY <3>3, <3>4
  <2> QED
    BY <2>1, <2>3, <2>4
<1>3. CASE Disconnected
  <2>1. /\ online' = FALSE /\ tpDone' = FALSE /\ hostHere' = FALSE /\ point' = -1 /\ tpTimer' = -1
        /\ remoteAt' = {} /\ since' = -1 /\ landings' = 0 /\ late' = (setting # -1)
        /\ UNCHANGED <<setting, greetings, toldIn>>
    BY <1>3 DEF Disconnected, ForgetHost
  <2>2. -1 \in -1 .. Farthest /\ -1 \in -1 .. TpWait
    BY <1>0
  <2>3. TeleportTypes'
    BY <2>1, <2>2 DEF TeleportTypes
  <2>4. Rest'
    BY <2>1 DEF PointAges, NotedInTime, LandsOnce, TeleportSound, TeleportTypes
  <2> QED
    BY <2>3, <2>4
<1>4. CASE WorldReloads
  <2>1. /\ tpDone' = FALSE /\ landings' = 0 /\ remoteAt' = {}
        /\ UNCHANGED <<online, point, tpTimer, hostHere, setting, greetings, toldIn, since, late>>
    BY <1>4 DEF WorldReloads
  <2>2. TeleportTypes'
    BY <2>1 DEF TeleportTypes
  <2>3. Rest'
    BY <2>1 DEF PointAges, NotedInTime, LandsOnce, TeleportSound
  <2> QED
    BY <2>2, <2>3
<1>5. CASE Handshake
  <2>1. /\ ~online /\ greetings < HtBound /\ setting = -1 /\ online' = TRUE /\ greetings' = greetings + 1
        /\ UNCHANGED <<point, tpDone, tpTimer, hostHere, remoteAt, setting, toldIn, since, landings, late>>
    BY <1>5 DEF Handshake
  <2>2. greetings' \in 0 .. HtBound
    BY <1>0, <2>1 DEF TeleportTypes
  <2>3. TeleportTypes'
    BY <2>1, <2>2 DEF TeleportTypes
  <2>4. Rest'
    BY <2>1 DEF PointAges, NotedInTime, LandsOnce, TeleportSound
  <2> QED
    BY <2>3, <2>4
<1>6. CASE HostAssignment
  <2>1. /\ hostHere' = ~hostHere
        /\ UNCHANGED <<online, point, tpDone, tpTimer, remoteAt, setting, greetings, toldIn, since, landings, late>>
    BY <1>6 DEF HostAssignment
  <2> QED
    BY <2>1 DEF TeleportTypes, PointAges, NotedInTime, LandsOnce, TeleportSound
<1>7. CASE SpawnTold
  <2>1. PICK p \in 0 .. Farthest :
          IF point = -1 /\ p # 0
          THEN setting' = p /\ toldIn' = greetings /\ UNCHANGED remoteAt
          ELSE remoteAt' = remoteAt \cup {p} /\ UNCHANGED <<setting, toldIn>>
    BY <1>7 DEF SpawnTold
  <2>2. /\ online /\ setting = -1
        /\ UNCHANGED <<online, point, tpDone, tpTimer, hostHere, greetings, since, landings, late>>
    BY <1>7 DEF SpawnTold
  <2>3. CASE point = -1 /\ p # 0
    <3>1. p \in -1 .. Farthest
      BY <1>0
    <3>2. TeleportTypes'
      BY <2>1, <2>2, <2>3, <3>1 DEF TeleportTypes
    <3>3. Rest'
      BY <2>1, <2>2, <2>3 DEF PointAges, NotedInTime, LandsOnce, TeleportSound
    <3> QED
      BY <3>2, <3>3
  <2>4. CASE ~(point = -1 /\ p # 0)
    <3>1. TeleportTypes'
      BY <2>1, <2>2, <2>4 DEF TeleportTypes
    <3>2. Rest'
      BY <2>1, <2>2, <2>4 DEF PointAges, NotedInTime, LandsOnce, TeleportSound
    <3> QED
      BY <3>1, <3>2
  <2> QED
    BY <2>3, <2>4
<1>8. CASE SetHostSpawnPoint
  <2>1. /\ setting # -1 /\ setting' = -1 /\ point' = setting /\ remoteAt' = remoteAt \cup {setting}
        /\ since' = 0 /\ UNCHANGED <<online, tpDone, tpTimer, hostHere, greetings, toldIn, landings, late>>
    BY <1>8 DEF SetHostSpawnPoint
  <2>2. /\ setting \in 0 .. Farthest /\ -1 \in -1 .. Farthest /\ 0 \in -1 .. TpWait
        /\ point = -1 /\ ~tpDone /\ tpTimer = -1
    <3>1. setting \in -1 .. Farthest /\ setting # -1
      BY <2>1 DEF TeleportTypes
    <3>2. point = -1 /\ ~tpDone /\ tpTimer = -1
      BY <2>1 DEF PointAges
    <3> QED
      BY <1>0, <3>1, <3>2
  <2>3. TeleportTypes'
    BY <2>1, <2>2 DEF TeleportTypes
  <2>4. Rest'
    BY <2>1, <2>2 DEF PointAges, NotedInTime, LandsOnce, TeleportSound
  <2> QED
    BY <2>3, <2>4
<1>9. CASE HtTime
  <2>1. /\ tpTimer' = IF tpTimer = -1 THEN -1 ELSE Bounded(tpTimer, TpWait)
        /\ since' = IF since = -1 THEN -1 ELSE Bounded(since, TpWait)
        /\ UNCHANGED <<online, point, tpDone, hostHere, remoteAt, setting, greetings, toldIn, landings, late>>
    BY <1>9 DEF HtTime
  <2>2. /\ tpTimer' \in -1 .. TpWait /\ since' \in -1 .. TpWait /\ tpTimer' <= since'
        /\ (tpTimer' = -1 <=> tpTimer = -1) /\ (since' = -1 <=> since = -1)
        /\ (since = TpWait => since' = TpWait)
    BY <1>0, <2>1 DEF Bounded, TeleportTypes, PointAges
  <2>3. TeleportTypes'
    BY <2>1, <2>2 DEF TeleportTypes
  <2>4. Rest'
    BY <2>1, <2>2 DEF PointAges, NotedInTime, LandsOnce, TeleportSound
  <2> QED
    BY <2>3, <2>4
<1> QED
  BY <1>1, <1>2, <1>3, <1>4, <1>5, <1>6, <1>7, <1>8, <1>9
     DEF HtNext, PollLocalPositions, TeleportToNearestRemotePlayer, TeleportToNamed, OwnRegistered,
         HtMotion, htVars

LEMMA TeleportStart == HtInit => TeleportInv
<1> SUFFICES ASSUME HtInit PROVE TeleportInv
  OBVIOUS
<1>1. TpWait \in Nat \ {0} /\ HtBound \in Nat /\ Farthest \in Nat
  BY TeleportAssumption, StagesAssumption
<1>2. -1 \in -1 .. Farthest /\ -1 \in -1 .. TpWait /\ 0 \in 0 .. HtBound
  BY <1>1
<1>3. TeleportTypes
  BY <1>2 DEF HtInit, TeleportTypes
<1>4. PointAges /\ NotedInTime /\ LandsOnce /\ TeleportSound
  BY DEF HtInit, PointAges, NotedInTime, LandsOnce, TeleportSound
<1> QED
  BY <1>3, <1>4 DEF TeleportInv

LEMMA TeleportInvariant == HtSpec => []TeleportInv
  BY TeleportStart, TeleportStep, PTL DEF HtSpec

LEMMA TeleportSuffices == TeleportInv => TeleportSound /\ HtTypeOK
  BY DEF TeleportInv, TeleportTypes, HtTypeOK

\* A join moves the own characters once in a session and a world, after the full wait from
\* the moment this session's point was set and never to the point of an earlier session,
\* but for a note that the end of its session overtook.
THEOREM TeleportIsSound == HtSpec => []TeleportSound
  BY TeleportSuffices, TeleportInvariant, PTL

\* The point is a position or unset, and its timer within the wait.
THEOREM TeleportIsTyped == HtSpec => []HtTypeOK
  BY TeleportSuffices, TeleportInvariant, PTL

\* Neither does a teleport set the server wrong for longer: the position noted as last one
\* is where the character stands, and what was sent of it either on its way or lost.
LEMMA TeleportKeepsMotion ==
    ASSUME TeleportInv, MotionInv, [HtNext]_<<osVars, htVars>> PROVE MotionInv'
<1>0. Threshold \in Nat \ {0} /\ Farthest \in Nat
  BY StagesAssumption
<1>1. ASSUME UNCHANGED motion PROVE MotionInv'
  BY <1>1 DEF motion, MotionInv, MotionTypes, NewestIsSent, PositionHeard, Distance
<1>2. ASSUME NEW p \in 0 .. Farthest, Land(p), UNCHANGED <<own, sent, heard>> PROVE MotionInv'
  <2>1. /\ at' = p /\ last' = p /\ lost' = TRUE /\ moved' = FALSE
        /\ UNCHANGED <<own, sent, heard>>
    BY <1>2 DEF Land
  <2>2. MotionTypes'
    BY <2>1 DEF MotionInv, MotionTypes
  <2>3. Distance(at', last') = p - p
    BY <2>1 DEF Distance
  <2>4. Distance(at', last') < Threshold
    BY <1>0, <2>3
  <2>5. NewestIsSent' /\ PositionHeard'
    BY <2>1, <2>4 DEF NewestIsSent, PositionHeard
  <2> QED
    BY <2>2, <2>5 DEF MotionInv
<1>3. CASE PollLocalPositions
  BY <1>1, <1>3, PollKeepsFaith DEF PollLocalPositions
<1>4. CASE HandleHostTeleport
  <2>1. CASE UNCHANGED motion
    BY <1>1, <2>1
  <2>2. CASE Waits /\ Land(point) /\ UNCHANGED <<own, sent, heard>>
    <3>1. point \in -1 .. Farthest /\ point # -1
      BY <2>2 DEF Waits, TeleportInv, TeleportTypes
    <3>2. point \in 0 .. Farthest
      BY <1>0, <3>1
    <3> QED
      BY <1>2, <2>2, <3>2
  <2> QED
    BY <1>4, <2>1, <2>2 DEF HandleHostTeleport
<1>5. CASE TeleportToNearestRemotePlayer \/ TeleportToNamed
  <2>1. PICK p \in Visible : Land(p)
    BY <1>5 DEF TeleportToNearestRemotePlayer, TeleportToNamed
  <2>2. p \in 0 .. Farthest
    BY <2>1 DEF Visible, TeleportInv, TeleportTypes
  <2>3. UNCHANGED <<own, sent, heard>>
    BY <1>5 DEF TeleportToNearestRemotePlayer, TeleportToNamed
  <2> QED
    BY <1>2, <2>1, <2>2, <2>3
<1>6. CASE OwnRegistered
  <2>1. /\ own' = TRUE /\ at' = at /\ last' = at /\ heard' = at /\ sent' = -1
        /\ lost' = FALSE /\ moved' = FALSE
    BY <1>6 DEF OwnRegistered
  <2>2. at \in 0 .. Farthest /\ -1 \in -1 .. Farthest
    BY <1>0 DEF MotionInv, MotionTypes
  <2>3. MotionTypes'
    BY <2>1, <2>2 DEF MotionTypes
  <2>4. Distance(at', last') = at - at
    BY <2>1 DEF Distance
  <2>5. Distance(at', last') < Threshold
    BY <1>0, <2>2, <2>4
  <2>6. NewestIsSent' /\ PositionHeard'
    BY <2>1, <2>5 DEF NewestIsSent, PositionHeard
  <2> QED
    BY <2>3, <2>6 DEF MotionInv
<1>7. CASE Disconnected
  <2>1. /\ sent' = -1 /\ lost' = (lost \/ sent # -1) /\ UNCHANGED <<at, own, last, heard, moved>>
    BY <1>7 DEF Disconnected
  <2>2. -1 \in -1 .. Farthest /\ lost' \in BOOLEAN
    BY <1>0, <2>1
  <2>3. MotionTypes'
    BY <2>1, <2>2 DEF MotionInv, MotionTypes
  <2>4. NewestIsSent' /\ PositionHeard'
    BY <2>1 DEF MotionInv, NewestIsSent, PositionHeard, Distance
  <2> QED
    BY <2>3, <2>4 DEF MotionInv
<1>8. CASE WorldReloads
  BY <1>8 DEF WorldReloads, MotionInv, MotionTypes, NewestIsSent, PositionHeard, Distance
<1>9. CASE HtMotion
  BY <1>9, MotionStep DEF HtMotion, OsNext
<1>10. CASE UNCHANGED <<osVars, htVars>>
  BY <1>1, <1>10 DEF osVars
<1> QED
  BY <1>1, <1>3, <1>4, <1>5, <1>6, <1>7, <1>8, <1>9, <1>10
     DEF HtNext, Handshake, HostAssignment, SpawnTold, SetHostSpawnPoint, HtTime

\* Where the own character is put, and where he walks from there, is what the registry
\* compares with: the server hears of it as PositionHeard says, as without teleports.
THEOREM TeleportsAreNoted == HtSpec => []PositionHeard
<1>1. OsInit => MotionInv
  BY StagesStart
<1>2. MotionInv => PositionHeard
  BY DEF MotionInv
<1> QED
  BY <1>1, <1>2, TeleportInvariant, TeleportKeepsMotion, PTL DEF HtSpec

-----------------------------------------------------------------------------
(* The engines: who is here.                                               *)

EngineMail == [kind : {"ack", "joined", "left"}, id : Nat]
                \cup [kind : {"spawns"}, id : {0}, ids : SUBSET DOMAIN Placed]

\* The ids the server gave out so far.
Known1 == 1 .. nextPlayer - 1

\* A session: away is who was silent for the whole timeout.
SessionKept(r) ==
    /\ r \in [state : {"InGame", "AFK", "Disconnected"}, idle : 0 .. AfkTimeout]
    /\ r.state = "AFK" => r.idle = AfkTimeout

AreSessions(f) == f = [p \in DOMAIN f |-> f[p]] /\ \A p \in DOMAIN f : SessionKept(f[p])

\* Whom sessions f show as present.
Shown(f) == {p \in DOMAIN f : f[p].state \in {"InGame", "AFK"}}

ServerTypes ==
    /\ nextPlayer \in 1 .. IdLimit + 1 /\ mine \in 0 .. nextPlayer - 1
    /\ others \subseteq Known1 /\ mine \notin others
    /\ down \in Seq(EngineMail) /\ up \in Seq(Grid)

PeopleTypes ==
    /\ handler \in {Idle} \cup [pc : {"ack", "joined"}, id : Nat]
    /\ orch \in [active : BOOLEAN, id : 0 .. IdLimit, tick : 0 .. AfkEvery - 1, wired : BOOLEAN]
    /\ AreSessions(people) /\ DOMAIN people \subseteq Known1

GroundTypes ==
    /\ place \in Grid /\ zone \in Grid /\ nearby \subseteq DOMAIN Placed
    /\ known \subseteq DOMAIN Placed /\ unasked \in BOOLEAN /\ self \in [id : Nat, zone : Grid]

EngineTypes == ServerTypes /\ PeopleTypes /\ GroundTypes

\* Whose id the messages, the handler and the orchestrator have.
WhoIsWho ==
    /\ \A i \in 1 .. Len(down) : down[i].kind \in {"joined", "left"} =>
          down[i].id \in Known1 /\ down[i].id # mine
    /\ \A i \in 1 .. Len(down) : down[i].kind = "ack" => down[i].id = mine
    /\ handler.pc = "joined" => handler.id \in Known1 /\ handler.id # mine
    /\ mine = Invalid => down = << >> /\ ~orch.active
    /\ orch.active => orch.id = mine
    /\ ~orch.active => orch.id = Invalid
    /\ mine \notin DOMAIN people
    /\ ~orch.active => DOMAIN people \subseteq overtaken

\* Messages about a player.
About(x, p) == x.kind \in {"joined", "left"} /\ x.id = p
Silent(q, p) == \A i \in 1 .. Len(q) : ~About(q[i], p)
LastSays(q, p, S) == \A i \in 1 .. Len(q) :
                        About(q[i], p) /\ (\A j \in i + 1 .. Len(q) : ~About(q[j], p))
                           => (q[i].kind = "joined" <=> p \in S)

\* A player is shown as he is on the server, or a message is on its way that puts it right.
Settled(p) ==
    /\ LastSays(down, p, others)
    /\ Silent(down, p) => IF handler = [pc |-> "joined", id |-> p] THEN p \in others
                          ELSE (p \in Shown(people) <=> p \in others)

RosterInv == mine # Invalid => \A p \in PlayerIds : p \notin overtaken => Settled(p)

LEMMA EngineConstants ==
    /\ {IdLimit, ZoneMax, Radius, WireLimit} \subseteq Nat /\ {AfkTimeout, AfkEvery} \subseteq Nat \ {0}
    /\ Grid \subseteq Int \X Int /\ Origin \in Grid /\ Nowhere \notin Grid
  BY EnginesAssumption DEF Origin

\* One more message at the end.
LEMMA MailArrives ==
    ASSUME NEW T, NEW q \in Seq(T), NEW x \in T, NEW p, NEW S
    PROVE  /\ ~About(x, p) => /\ Silent(Append(q, x), p) <=> Silent(q, p)
                              /\ LastSays(q, p, S) => LastSays(Append(q, x), p, S)
           /\ About(x, p) => /\ ~Silent(Append(q, x), p)
                             /\ (x.kind = "joined" <=> p \in S) => LastSays(Append(q, x), p, S)
<1> DEFINE n == Len(q)
           a == Append(q, x)
<1>1. /\ n \in Nat /\ Len(a) = n + 1 /\ a[n + 1] = x
      /\ \A i \in 1 .. n : a[i] = q[i]
      /\ \A i \in 1 .. n + 1 : i = n + 1 \/ i \in 1 .. n
      /\ n + 1 \in 1 .. n + 1 /\ 1 .. n \subseteq 1 .. n + 1
  OBVIOUS
<1>2. Silent(q, p) <=> \A i \in 1 .. n : ~About(q[i], p)
  BY DEF Silent
<1>3. Silent(a, p) <=> \A i \in 1 .. n + 1 : ~About(a[i], p)
  BY <1>1 DEF Silent
<1>4. LastSays(a, p, S) <=> \A i \in 1 .. n + 1 :
          About(a[i], p) /\ (\A j \in i + 1 .. n + 1 : ~About(a[j], p))
             => (a[i].kind = "joined" <=> p \in S)
  BY <1>1 DEF LastSays
<1>5. ASSUME ~About(x, p), LastSays(q, p, S) PROVE LastSays(a, p, S)
  <2>1. ASSUME NEW i \in 1 .. n + 1, About(a[i], p), \A j \in i + 1 .. n + 1 : ~About(a[j], p)
        PROVE  a[i].kind = "joined" <=> p \in S
    <3>1. i \in 1 .. n /\ a[i] = q[i]
      BY <1>1, <1>5, <2>1
    <3>2. \A j \in i + 1 .. n : ~About(q[j], p)
      <4>1. ASSUME NEW j \in i + 1 .. n PROVE j \in i + 1 .. n + 1 /\ j \in 1 .. n
        BY <1>1, <3>1
      <4> QED
        BY <1>1, <2>1, <4>1
    <3> QED
      BY <1>5, <2>1, <3>1, <3>2 DEF LastSays
  <2> QED
    BY <1>4, <2>1
<1>6. ASSUME About(x, p), x.kind = "joined" <=> p \in S PROVE LastSays(a, p, S)
  <2>1. ASSUME NEW i \in 1 .. n + 1, About(a[i], p), \A j \in i + 1 .. n + 1 : ~About(a[j], p)
        PROVE  a[i].kind = "joined" <=> p \in S
    <3>1. i \in 1 .. n => n + 1 \in i + 1 .. n + 1
      BY <1>1
    <3>2. i = n + 1
      BY <1>1, <1>6, <2>1, <3>1
    <3> QED
      BY <1>1, <1>6, <3>2
  <2> QED
    BY <1>4, <2>1
<1> HIDE DEF n, a
<1>7. ~About(x, p) => (Silent(a, p) <=> Silent(q, p))
  BY <1>1, <1>2, <1>3
<1>8. About(x, p) => ~Silent(a, p)
  BY <1>1, <1>3
<1> QED
  BY <1>5, <1>6, <1>7, <1>8 DEF a

\* The first message goes.
LEMMA MailTaken ==
    ASSUME NEW T, NEW q \in Seq(T), q # << >>, NEW p, NEW S
    PROVE  /\ LastSays(q, p, S) => LastSays(Tail(q), p, S)
           /\ ~About(Head(q), p) => (Silent(Tail(q), p) => Silent(q, p))
           /\ LastSays(q, p, S) /\ About(Head(q), p) /\ Silent(Tail(q), p)
                 => (Head(q).kind = "joined" <=> p \in S)
<1> DEFINE n == Len(q)
           a == Tail(q)
<1>1. /\ n \in Nat /\ n > 0 /\ Len(a) = n - 1 /\ Head(q) = q[1]
      /\ \A i \in 1 .. n - 1 : a[i] = q[i + 1]
  OBVIOUS
<1>2. \A i \in 1 .. n : i = 1 \/ (i - 1 \in 1 .. n - 1 /\ q[i] = a[i - 1])
  BY <1>1
<1> HIDE DEF a, n
<1>3. ASSUME LastSays(q, p, S) PROVE LastSays(a, p, S)
  <2>1. ASSUME NEW i \in 1 .. n - 1, About(a[i], p), \A j \in i + 1 .. n - 1 : ~About(a[j], p)
        PROVE  a[i].kind = "joined" <=> p \in S
    <3>1. i + 1 \in 1 .. n /\ About(q[i + 1], p)
      BY <1>1, <2>1
    <3>2. \A j \in i + 1 + 1 .. n : ~About(q[j], p)
      <4>1. ASSUME NEW j \in i + 1 + 1 .. n
            PROVE  j \in 1 .. n /\ j # 1 /\ j - 1 \in i + 1 .. n - 1
        BY <1>1
      <4> QED
        BY <1>2, <2>1, <4>1
    <3> QED
      BY <1>1, <1>3, <2>1, <3>1, <3>2 DEF LastSays, n
  <2> QED
    BY <1>1, <2>1 DEF LastSays
<1>4. ASSUME ~About(q[1], p), Silent(a, p) PROVE Silent(q, p)
  BY <1>1, <1>2, <1>4 DEF Silent, n
<1>5. ASSUME LastSays(q, p, S), About(q[1], p), Silent(a, p) PROVE q[1].kind = "joined" <=> p \in S
  <2>1. ASSUME NEW j \in 1 + 1 .. n PROVE ~About(q[j], p)
    <3>1. j \in 1 .. n /\ j # 1
      BY <1>1
    <3> QED
      BY <1>1, <1>2, <1>5, <3>1 DEF Silent
  <2>2. 1 \in 1 .. n
    BY <1>1
  <2> QED
    BY <1>5, <2>1, <2>2 DEF LastSays, n
<1> QED
  BY <1>1, <1>3, <1>4, <1>5 DEF a

\* What the server says, for the client or for nobody.
LEMMA TellOne ==
    ASSUME EngineTypes, NEW x \in EngineMail, Tell(<<x>>)
    PROVE  /\ down' \in Seq(EngineMail)
           /\ mine # Invalid => down' = Append(down, x)
           /\ mine = Invalid => down' = down
<1>1. down \in Seq(EngineMail)
  BY DEF EngineTypes, ServerTypes
<1>2. down \o <<x>> = Append(down, x) /\ Append(down, x) \in Seq(EngineMail)
  BY <1>1
<1> QED
  BY <1>1, <1>2 DEF Tell

\* The acknowledgement, and a join of everybody who is there.
LEMMA AcceptedMail ==
    ASSUME EngineTypes, AcceptLocal
    PROVE  /\ down' \in Seq(EngineMail)
           /\ \A i \in 1 .. Len(down') :
                 \/ down'[i].kind = "ack" /\ down'[i].id = nextPlayer
                 \/ down'[i].kind = "joined" /\ down'[i].id \in others
           /\ \A p \in others : \E i \in 1 .. Len(down') : About(down'[i], p)
<1>0. nextPlayer \in Nat /\ others \subseteq 1 .. nextPlayer - 1
  BY EngineConstants DEF EngineTypes, ServerTypes, Known1
<1>1. IsFiniteSet(others) /\ Cardinality(others) \in Nat
  <2>1. IsFiniteSet(1 .. nextPlayer - 1)
    BY <1>0, FS_Interval
  <2> QED
    BY <1>0, <2>1, FS_Subset, FS_CardinalityType
<1> DEFINE n == Cardinality(others)
<1>2. PICK order \in [1 .. n -> others] :
        /\ \A i, j \in DOMAIN order : i # j => order[i] # order[j]
        /\ down' = <<[kind |-> "ack", id |-> nextPlayer]>>
                     \o [i \in DOMAIN order |-> [kind |-> "joined", id |-> order[i]]]
  BY DEF AcceptLocal
<1>3. \A p \in others : \E i \in 1 .. n : order[i] = p
  <2>1. IsFiniteSet(1 .. n) /\ Cardinality(1 .. n) = n
    BY <1>1, FS_Interval
  <2>2. order \in Injection(1 .. n, others)
    BY <1>2 DEF Injection, IsInjective
  <2>3. order \in Surjection(1 .. n, others)
    BY <1>1, <2>1, <2>2, FS_Injection
  <2> QED
    BY <2>3 DEF Surjection
<1> DEFINE t == [i \in 1 .. n |-> [kind |-> "joined", id |-> order[i]]]
           a == [kind |-> "ack", id |-> nextPlayer]
<1>4. n \in Nat
  BY <1>1
<1> HIDE DEF n
<1>5. a \in EngineMail /\ t \in Seq(EngineMail) /\ Len(t) = n
  <2>1. a \in EngineMail
    BY <1>0 DEF EngineMail
  <2>2. \A i \in 1 .. n : order[i] \in Nat
    <3>1. \A i \in 1 .. n : order[i] \in others
      BY <1>2
    <3>2. others \subseteq Nat
      BY <1>0
    <3> QED
      BY <3>1, <3>2, Zenon
  <2>20. \A m \in Nat : [kind |-> "joined", id |-> m] \in EngineMail
    <3>1. \A m \in Nat : [kind |-> "joined", id |-> m] \in [kind : {"ack", "joined", "left"}, id : Nat]
      OBVIOUS
    <3> QED
      BY <3>1, Zenon DEF EngineMail
  <2>3. t \in [1 .. n -> EngineMail]
    BY <2>2, <2>20
  <2> HIDE DEF t
  <2> QED
    BY <1>4, <2>1, <2>3
<1>6. \A i \in 1 .. n : t[i].kind = "joined" /\ t[i].id = order[i] /\ order[i] \in others
  BY <1>2
<1>7. down' = <<a>> \o t
  BY <1>2
<1>8. a.kind = "ack" /\ a.id = nextPlayer
  OBVIOUS
<1> HIDE DEF t, a
<1>9. /\ down' \in Seq(EngineMail) /\ Len(down') = n + 1 /\ down'[1] = a
      /\ \A i \in 2 .. n + 1 : down'[i] = t[i - 1]
  <2> DEFINE o == <<a>>
  <2>1. o \in Seq(EngineMail) /\ Len(o) = 1 /\ o[1] = a
    BY <1>5
  <2> HIDE DEF o
  <2>2. down' \in Seq(EngineMail) /\ Len(down') = n + 1
    BY <1>4, <1>5, <1>7, <2>1 DEF o
  <2>3. \A i \in 1 .. n + 1 : down'[i] = IF i <= 1 THEN o[i] ELSE t[i - 1]
    BY <1>4, <1>5, <1>7, <2>1 DEF o
  <2> QED
    BY <1>4, <2>1, <2>2, <2>3
<1>10. \A i \in 1 .. n + 1 : i = 1 \/ (i \in 2 .. n + 1 /\ i - 1 \in 1 .. n)
  BY <1>4
<1>11. \A i \in 1 .. n : i + 1 \in 2 .. n + 1 /\ i + 1 \in 1 .. n + 1 /\ (i + 1) - 1 = i
  BY <1>4
<1>12. \A i \in 1 .. n : down'[i + 1] = t[i]
  BY <1>9, <1>11
<1>13. \A i \in 1 .. Len(down') : \/ down'[i].kind = "ack" /\ down'[i].id = nextPlayer
                                  \/ down'[i].kind = "joined" /\ down'[i].id \in others
  BY <1>6, <1>8, <1>9, <1>10
<1>14. ASSUME NEW p \in others PROVE \E i \in 1 .. Len(down') : About(down'[i], p)
  <2>1. PICK i \in 1 .. n : order[i] = p
    BY <1>3
  <2>2. i + 1 \in 1 .. Len(down') /\ About(down'[i + 1], p)
    BY <1>6, <1>9, <1>11, <1>12, <2>1 DEF About
  <2> QED
    BY <2>2
<1> QED
  BY <1>9, <1>13, <1>14

\* The next message of the channel.
LEMMA Received ==
    ASSUME EngineTypes, WhoIsWho, NEW k, Receive(k)
    PROVE  /\ handler = Idle /\ mine # Invalid /\ down # << >>
           /\ Next1 \in EngineMail /\ Next1.kind = k
           /\ 1 \in 1 .. Len(down) /\ Next1 = down[1]
           /\ down' \in Seq(EngineMail) /\ down' = Tail(down)
           /\ \A i \in 1 .. Len(down') : i + 1 \in 1 .. Len(down) /\ down'[i] = down[i + 1]
<1>1. down \in Seq(EngineMail) /\ down # << >>
  BY DEF EngineTypes, ServerTypes, Receive
<1>2. mine # Invalid
  BY <1>1 DEF WhoIsWho
<1>3. Head(down) \in EngineMail /\ Tail(down) \in Seq(EngineMail)
  BY <1>1
<1>4. /\ Head(down) = down[1] /\ 1 \in 1 .. Len(down)
      /\ \A i \in 1 .. Len(Tail(down)) : i + 1 \in 1 .. Len(down) /\ Tail(down)[i] = down[i + 1]
  BY <1>1
<1> QED
  BY <1>1, <1>2, <1>3, <1>4 DEF Receive, Next1

\* The server's side.
LEMMA ServerSteps ==
    ASSUME EngineTypes, WhoIsWho,
           AcceptLocal \/ PlayerJoins \/ PlayerLeaves \/ HandleZoneRequest
    PROVE  EngineTypes' /\ WhoIsWho'
<1>0. /\ IdLimit \in Nat /\ nextPlayer \in 1 .. IdLimit + 1 /\ mine \in 0 .. nextPlayer - 1
      /\ others \subseteq 1 .. nextPlayer - 1 /\ mine \notin others
      /\ down \in Seq(EngineMail) /\ up \in Seq(Grid)
  BY EngineConstants DEF EngineTypes, ServerTypes, Known1
<1>1. UNCHANGED <<handler, orch, people, self, place, zone, nearby, known, unasked, overtaken>>
  BY DEF AcceptLocal, PlayerJoins, PlayerLeaves, HandleZoneRequest, ground
<1>2. GroundTypes'
  BY <1>1 DEF EngineTypes, GroundTypes
<1>30. nextPlayer' \in {nextPlayer, nextPlayer + 1} => Known1 \subseteq Known1'
  <2>1. nextPlayer \in Nat /\ 1 .. nextPlayer - 1 \subseteq 1 .. (nextPlayer + 1) - 1
    BY <1>0
  <2> QED
    BY <2>1 DEF Known1
<1>3. ASSUME nextPlayer' \in {nextPlayer, nextPlayer + 1} PROVE PeopleTypes'
  <2>1. Known1 \subseteq Known1'
    BY <1>3, <1>30
  <2> QED
    BY <1>1, <2>1 DEF EngineTypes, PeopleTypes
<1>4. CASE AcceptLocal
  <2>1. /\ mine = Invalid /\ ~orch.active /\ handler = Idle /\ nextPlayer <= IdLimit
        /\ mine' = nextPlayer /\ nextPlayer' = nextPlayer + 1 /\ UNCHANGED <<others, up>>
    BY <1>4 DEF AcceptLocal
  <2>2. /\ nextPlayer' \in 1 .. IdLimit + 1 /\ mine' \in 0 .. nextPlayer' - 1
        /\ 1 .. nextPlayer - 1 \subseteq 1 .. nextPlayer' - 1 /\ mine' \notin 1 .. nextPlayer - 1
        /\ mine' # Invalid
    BY <1>0, <2>1 DEF Invalid
  <2>3. ServerTypes'
    BY <1>0, <1>4, <2>1, <2>2, AcceptedMail DEF ServerTypes, Known1
  <2>4. PeopleTypes'
    BY <1>3, <2>1
  <2>5. WhoIsWho'
    <3>1. \A i \in 1 .. Len(down') :
             \/ down'[i].kind = "ack" /\ down'[i].id = mine'
             \/ down'[i].kind = "joined" /\ down'[i].id \in Known1' /\ down'[i].id # mine'
      BY <1>0, <1>4, <2>1, <2>2, AcceptedMail DEF Known1
    <3>2. mine' \notin DOMAIN people'
      BY <1>1, <2>2 DEF EngineTypes, PeopleTypes, Known1
    <3>3. handler'.pc # "joined"
      BY <1>1, <2>1 DEF Idle
    <3> QED
      BY <1>1, <2>1, <2>2, <3>1, <3>2, <3>3 DEF WhoIsWho
  <2> QED
    BY <1>2, <2>3, <2>4, <2>5 DEF EngineTypes
<1>5. ASSUME NEW x \in EngineMail, Tell(<<x>>), mine' = mine, nextPlayer' \in {nextPlayer, nextPlayer + 1},
             x.kind \in {"joined", "left"} => x.id \in 1 .. nextPlayer' - 1 /\ x.id # mine,
             x.kind # "ack"
      PROVE  down' \in Seq(EngineMail) /\ WhoIsWho'
  <2>1. /\ down' \in Seq(EngineMail)
        /\ mine # Invalid => down' = Append(down, x)
        /\ mine = Invalid => down' = down
    BY <1>5, TellOne
  <2>2. Known1 \subseteq Known1'
    BY <1>5, <1>30
  <2>3. CASE mine = Invalid
    BY <1>1, <1>5, <2>1, <2>2, <2>3 DEF WhoIsWho
  <2>4. CASE mine # Invalid
    <3>1. /\ Len(down') = Len(down) + 1 /\ down'[Len(down) + 1] = x
          /\ \A i \in 1 .. Len(down) : down'[i] = down[i]
          /\ \A i \in 1 .. Len(down) + 1 : i = Len(down) + 1 \/ i \in 1 .. Len(down)
      BY <1>0, <2>1, <2>4
    <3>2. \A i \in 1 .. Len(down') : down'[i] = x \/ \E j \in 1 .. Len(down) : down'[i] = down[j]
      BY <3>1
    <3>3. \A i \in 1 .. Len(down') : /\ down'[i].kind \in {"joined", "left"} =>
                                          down'[i].id \in Known1' /\ down'[i].id # mine
                                     /\ down'[i].kind = "ack" => down'[i].id = mine
      BY <1>5, <2>2, <3>2 DEF WhoIsWho, Known1
    <3>4. /\ handler'.pc = "joined" => handler'.id \in Known1' /\ handler'.id # mine'
          /\ mine' # Invalid
          /\ orch'.active => orch'.id = mine'
          /\ ~orch'.active => orch'.id = Invalid
          /\ mine' \notin DOMAIN people'
          /\ ~orch'.active => DOMAIN people' \subseteq overtaken'
      BY <1>1, <1>5, <2>2, <2>4 DEF WhoIsWho
    <3>5. /\ \A i \in 1 .. Len(down') : down'[i].kind \in {"joined", "left"} =>
                                              down'[i].id \in Known1' /\ down'[i].id # mine'
          /\ \A i \in 1 .. Len(down') : down'[i].kind = "ack" => down'[i].id = mine'
      BY <1>5, <3>3
    <3>6. mine' = Invalid => down' = << >> /\ ~orch'.active
      BY <3>4
    <3> QED
      BY <2>1, <3>4, <3>5, <3>6, Zenon DEF WhoIsWho
  <2> QED
    BY <2>1, <2>3, <2>4
<1>6. CASE PlayerJoins
  <2> DEFINE x == [kind |-> "joined", id |-> nextPlayer]
  <2>1. /\ nextPlayer <= IdLimit /\ others' = others \cup {nextPlayer} /\ nextPlayer' = nextPlayer + 1
        /\ Tell(<<x>>) /\ UNCHANGED <<mine, up>>
    BY <1>6 DEF PlayerJoins
  <2>2. x \in EngineMail /\ x.kind = "joined" /\ x.id = nextPlayer
    BY <1>0 DEF EngineMail
  <2> HIDE DEF x
  <2>3. /\ nextPlayer' \in 1 .. IdLimit + 1 /\ mine \in 0 .. nextPlayer' - 1 /\ nextPlayer # mine
        /\ others' \subseteq 1 .. nextPlayer' - 1 /\ nextPlayer \in 1 .. nextPlayer' - 1
    BY <1>0, <2>1
  <2>4. down' \in Seq(EngineMail) /\ WhoIsWho'
    BY <1>5, <2>1, <2>2, <2>3
  <2>5. ServerTypes'
    BY <1>0, <2>1, <2>3, <2>4 DEF ServerTypes, Known1
  <2> QED
    BY <1>2, <1>3, <2>1, <2>4, <2>5 DEF EngineTypes
<1>7. CASE PlayerLeaves
  <2>1. PICK p \in others : others' = others \ {p} /\ Tell(<<[kind |-> "left", id |-> p]>>)
    BY <1>7 DEF PlayerLeaves
  <2>2. UNCHANGED <<nextPlayer, mine, up>>
    BY <1>7 DEF PlayerLeaves
  <2> DEFINE x == [kind |-> "left", id |-> p]
  <2>3. x \in EngineMail /\ x.kind = "left" /\ x.id = p
    BY <1>0 DEF EngineMail
  <2> HIDE DEF x
  <2>4. Tell(<<x>>)
    BY <2>1 DEF x
  <2>5. down' \in Seq(EngineMail) /\ WhoIsWho'
    BY <1>0, <1>5, <2>2, <2>3, <2>4
  <2>6. ServerTypes'
    BY <1>0, <2>1, <2>2, <2>5 DEF ServerTypes, Known1
  <2> QED
    BY <1>2, <1>3, <2>2, <2>5, <2>6 DEF EngineTypes
<1>8. CASE HandleZoneRequest
  <2> DEFINE x == [kind |-> "spawns", id |-> 0, ids |-> ZoneAnswer(Head(up))]
  <2>1. up # << >> /\ Tell(<<x>>) /\ up' = Tail(up) /\ UNCHANGED <<others, nextPlayer, mine>>
    BY <1>8 DEF HandleZoneRequest, server
  <2>2. ZoneAnswer(Head(up)) \subseteq DOMAIN Placed
    BY DEF ZoneAnswer
  <2>3. x \in EngineMail /\ x.kind = "spawns"
    BY <2>2 DEF EngineMail
  <2> HIDE DEF x
  <2>4. down' \in Seq(EngineMail) /\ WhoIsWho'
    BY <1>5, <2>1, <2>3
  <2>5. Tail(up) \in Seq(Grid)
    BY <1>0, <2>1
  <2>6. ServerTypes'
    BY <1>0, <2>1, <2>4, <2>5 DEF ServerTypes, Known1
  <2> QED
    BY <1>2, <1>3, <2>1, <2>4, <2>6 DEF EngineTypes
<1> QED
  BY <1>4, <1>6, <1>7, <1>8

\* What becomes of one session.
LEMMA OneSession ==
    ASSUME NEW r, SessionKept(r)
    PROVE  /\ [r EXCEPT !.state = "Disconnected"] = [state |-> "Disconnected", idle |-> r.idle]
           /\ SessionKept([state |-> "Disconnected", idle |-> r.idle])
           /\ [r EXCEPT !.state = "AFK"] = [state |-> "AFK", idle |-> r.idle]
           /\ r.idle >= AfkTimeout => SessionKept([state |-> "AFK", idle |-> r.idle])
           /\ [r EXCEPT !.idle = Older(@)] = [state |-> r.state, idle |-> Older(r.idle)]
           /\ SessionKept([state |-> r.state, idle |-> Older(r.idle)])
           /\ SessionKept([state |-> "InGame", idle |-> 0])
<1>1. /\ r.state \in {"InGame", "AFK", "Disconnected"} /\ r.idle \in 0 .. AfkTimeout
      /\ r = [state |-> r.state, idle |-> r.idle]
      /\ r.state = "AFK" => r.idle = AfkTimeout
  <2>1. r \in [state : {"InGame", "AFK", "Disconnected"}, idle : 0 .. AfkTimeout]
    BY DEF SessionKept
  <2>2. r = [state |-> r.state, idle |-> r.idle]
    BY <2>1, Zenon
  <2>3. r.state \in {"InGame", "AFK", "Disconnected"} /\ r.idle \in 0 .. AfkTimeout
    BY <2>1
  <2> QED
    BY <2>2, <2>3 DEF SessionKept
<1>2. AfkTimeout \in Nat \ {0}
  BY EngineConstants
<1>3. /\ Older(r.idle) \in 0 .. AfkTimeout
      /\ r.idle = AfkTimeout => Older(r.idle) = AfkTimeout
      /\ r.idle >= AfkTimeout => r.idle = AfkTimeout
      /\ 0 \in 0 .. AfkTimeout
  BY <1>1, <1>2 DEF Older
<1>4. \A s \in {"InGame", "AFK", "Disconnected"}, i \in 0 .. AfkTimeout :
         (s = "AFK" => i = AfkTimeout) => SessionKept([state |-> s, idle |-> i])
  BY DEF SessionKept
<1>5. [r EXCEPT !.state = "Disconnected"] = [state |-> "Disconnected", idle |-> r.idle]
  BY <1>1
<1>6. [r EXCEPT !.state = "AFK"] = [state |-> "AFK", idle |-> r.idle]
  BY <1>1
<1>7. [r EXCEPT !.idle = Older(@)] = [state |-> r.state, idle |-> Older(r.idle)]
  BY <1>1
<1>8. SessionKept([state |-> "Disconnected", idle |-> r.idle])
  BY <1>1, <1>4
<1>9. r.idle >= AfkTimeout => SessionKept([state |-> "AFK", idle |-> r.idle])
  BY <1>1, <1>3, <1>4
<1>10. SessionKept([state |-> r.state, idle |-> Older(r.idle)])
  BY <1>1, <1>3, <1>4
<1>11. SessionKept([state |-> "InGame", idle |-> 0])
  BY <1>3, <1>4
<1> QED
  BY <1>5, <1>6, <1>7, <1>8, <1>9, <1>10, <1>11

\* What the engine's operations do to the sessions.
LEMMA Joining ==
    ASSUME AreSessions(people), NEW p
    PROVE  LET f == OnRemotePlayerJoined(p)
           IN  AreSessions(f) /\ DOMAIN f = DOMAIN people \cup {p} /\ Shown(f) = Shown(people) \cup {p}
<1> DEFINE f == OnRemotePlayerJoined(p)
<1>1. /\ DOMAIN f = DOMAIN people \cup {p} /\ f = [q \in DOMAIN f |-> f[q]]
      /\ f[p] = [state |-> "InGame", idle |-> 0]
      /\ \A q \in DOMAIN people : q # p => f[q] = people[q]
  BY DEF OnRemotePlayerJoined
<1>2. f[p].state = "InGame"
  BY <1>1
<1>3. \A q \in DOMAIN f : q = p \/ (q \in DOMAIN people /\ q # p)
  BY <1>1
<1> HIDE DEF f
<1>4. SessionKept(f[p])
  <2>1. 0 \in 0 .. AfkTimeout
    BY EngineConstants
  <2> QED
    BY <1>1, <2>1 DEF SessionKept
<1>5. \A q \in DOMAIN f : SessionKept(f[q])
  BY <1>1, <1>3, <1>4 DEF AreSessions
<1>6. Shown(f) = Shown(people) \cup {p}
  BY <1>1, <1>2, <1>3 DEF Shown
<1> QED
  BY <1>1, <1>5, <1>6 DEF AreSessions, f

LEMMA Leaving ==
    ASSUME AreSessions(people), NEW p
    PROVE  LET f == OnRemotePlayerLeft(p)
           IN  AreSessions(f) /\ DOMAIN f = DOMAIN people /\ Shown(f) = Shown(people) \ {p}
<1> DEFINE f == OnRemotePlayerLeft(p)
<1>1. CASE p \notin DOMAIN people
  BY <1>1 DEF OnRemotePlayerLeft, Shown
<1>2. CASE p \in DOMAIN people
  <2>1. /\ DOMAIN f = DOMAIN people /\ f = [q \in DOMAIN f |-> f[q]]
        /\ f[p] = [people[p] EXCEPT !.state = "Disconnected"]
        /\ \A q \in DOMAIN people : q # p => f[q] = people[q]
    <3>1. f = [people EXCEPT ![p] = [people[p] EXCEPT !.state = "Disconnected"]]
      BY <1>2 DEF OnRemotePlayerLeft
    <3>2. people = [q \in DOMAIN people |-> people[q]]
      BY DEF AreSessions
    <3> DEFINE r == [people[p] EXCEPT !.state = "Disconnected"]
    <3> HIDE DEF r
    <3>3. f = [people EXCEPT ![p] = r]
      BY <3>1 DEF r
    <3> HIDE DEF f
    <3>4. f = [q \in DOMAIN people |-> IF q = p THEN r ELSE people[q]]
      BY <3>2, <3>3
    <3> QED
      BY <1>2, <3>4 DEF r
  <2> HIDE DEF f
  <2>2. SessionKept(people[p])
    BY <1>2 DEF AreSessions
  <2>3. f[p] = [state |-> "Disconnected", idle |-> people[p].idle] /\ SessionKept(f[p])
    <3>1. /\ [people[p] EXCEPT !.state = "Disconnected"] = [state |-> "Disconnected", idle |-> people[p].idle]
          /\ SessionKept([state |-> "Disconnected", idle |-> people[p].idle])
      BY <2>2, OneSession, Zenon
    <3> QED
      BY <2>1, <3>1, Zenon
  <2>4. f[p].state = "Disconnected"
    BY <2>3
  <2>5. \A q \in DOMAIN f : SessionKept(f[q])
    BY <2>1, <2>3 DEF AreSessions
  <2>6. Shown(f) = Shown(people) \ {p}
    BY <2>1, <2>4 DEF Shown
  <2> QED
    BY <2>1, <2>5, <2>6 DEF AreSessions, f
<1> QED
  BY <1>1, <1>2

LEMMA Checking ==
    ASSUME AreSessions(people)
    PROVE  AreSessions(CheckAFK) /\ DOMAIN CheckAFK = DOMAIN people /\ Shown(CheckAFK) = Shown(people)
<1>1. DOMAIN CheckAFK = DOMAIN people /\ CheckAFK = [q \in DOMAIN CheckAFK |-> CheckAFK[q]]
  BY DEF CheckAFK
<1>2. ASSUME NEW q \in DOMAIN people
      PROVE  /\ SessionKept(CheckAFK[q])
             /\ CheckAFK[q].state \in {"InGame", "AFK"} <=> people[q].state \in {"InGame", "AFK"}
  <2>1. SessionKept(people[q])
    BY DEF AreSessions
  <2>2. CASE people[q].state = "InGame" /\ people[q].idle >= AfkTimeout
    <3>1. CheckAFK[q] = [people[q] EXCEPT !.state = "AFK"]
      BY <2>2 DEF CheckAFK
    <3>2. CheckAFK[q] = [state |-> "AFK", idle |-> people[q].idle] /\ SessionKept(CheckAFK[q])
      <4>1. /\ [people[q] EXCEPT !.state = "AFK"] = [state |-> "AFK", idle |-> people[q].idle]
            /\ SessionKept([state |-> "AFK", idle |-> people[q].idle])
        BY <2>1, <2>2, OneSession, Zenon
      <4> QED
        BY <3>1, <4>1, Zenon
    <3>3. CheckAFK[q].state = "AFK"
      BY <3>2
    <3> QED
      BY <2>2, <3>2, <3>3
  <2>3. CASE ~(people[q].state = "InGame" /\ people[q].idle >= AfkTimeout)
    <3>1. CheckAFK[q] = people[q]
      BY <2>3 DEF CheckAFK
    <3> QED
      BY <2>1, <3>1
  <2> QED
    BY <2>2, <2>3
<1> QED
  BY <1>1, <1>2 DEF AreSessions, Shown

Aged == [p \in DOMAIN people |-> [people[p] EXCEPT !.idle = Older(@)]]

LEMMA Ageing ==
    ASSUME AreSessions(people)
    PROVE  AreSessions(Aged) /\ DOMAIN Aged = DOMAIN people /\ Shown(Aged) = Shown(people)
<1>1. DOMAIN Aged = DOMAIN people /\ Aged = [q \in DOMAIN Aged |-> Aged[q]]
  BY DEF Aged
<1>2. ASSUME NEW q \in DOMAIN people
      PROVE  SessionKept(Aged[q]) /\ Aged[q].state = people[q].state
  <2>1. SessionKept(people[q])
    BY DEF AreSessions
  <2>2. Aged[q] = [people[q] EXCEPT !.idle = Older(@)]
    BY DEF Aged
  <2>3. Aged[q] = [state |-> people[q].state, idle |-> Older(people[q].idle)] /\ SessionKept(Aged[q])
    <3>1. /\ [people[q] EXCEPT !.idle = Older(@)] = [state |-> people[q].state, idle |-> Older(people[q].idle)]
          /\ SessionKept([state |-> people[q].state, idle |-> Older(people[q].idle)])
      BY <2>1, OneSession, Zenon
    <3> QED
      BY <2>2, <3>1, Zenon
  <2> QED
    BY <2>3
<1> QED
  BY <1>1, <1>2 DEF AreSessions, Shown

ClientStep ==
    \/ BeginInitialize \/ EndInitialize \/ BeginPlayerJoined \/ EndPlayerJoined
    \/ HandlePlayerLeft \/ HandleEntitySpawn \/ HandlePositionUpdate
    \/ BroadcastPositions \/ Tick \/ Reset \/ Walk \/ TimePasses

\* What the client's steps do to the sessions: all but three leave alone who is shown.
LEMMA PeopleSteps ==
    ASSUME EngineTypes, WhoIsWho, ClientStep
    PROVE  /\ AreSessions(people') /\ DOMAIN people' \subseteq Known1 /\ mine \notin DOMAIN people'
           /\ \/ /\ EndPlayerJoined
                 /\ DOMAIN people' = DOMAIN people \cup {handler.id}
                 /\ Shown(people') = Shown(people) \cup {handler.id}
              \/ /\ HandlePlayerLeft
                 /\ DOMAIN people' = DOMAIN people
                 /\ Shown(people') = Shown(people) \ {Next1.id}
              \/ Reset /\ people' = << >>
              \/ DOMAIN people' = DOMAIN people /\ Shown(people') = Shown(people)
<1>1. AreSessions(people) /\ DOMAIN people \subseteq Known1 /\ mine \notin DOMAIN people
  BY DEF EngineTypes, PeopleTypes, WhoIsWho
<1>2. CASE BeginInitialize \/ EndInitialize \/ BeginPlayerJoined \/ HandleEntitySpawn \/ BroadcastPositions \/ Walk
  <2>1. people' = people
    BY <1>2 DEF BeginInitialize, EndInitialize, BeginPlayerJoined, HandleEntitySpawn, BroadcastPositions, Walk
  <2> QED
    BY <1>1, <2>1
<1>3. CASE EndPlayerJoined
  <2>1. people' = OnRemotePlayerJoined(handler.id) /\ handler.pc = "joined"
    BY <1>3 DEF EndPlayerJoined
  <2>2. handler.id \in Known1 /\ handler.id # mine
    BY <2>1 DEF WhoIsWho
  <2>3. /\ AreSessions(people') /\ DOMAIN people' = DOMAIN people \cup {handler.id}
        /\ Shown(people') = Shown(people) \cup {handler.id}
    BY <1>1, <2>1, Joining
  <2>4. DOMAIN people' \subseteq Known1 /\ mine \notin DOMAIN people'
    BY <1>1, <2>2, <2>3
  <2> QED
    BY <1>3, <2>3, <2>4
<1>4. CASE HandlePlayerLeft
  <2>1. people' = OnRemotePlayerLeft(Next1.id)
    BY <1>4 DEF HandlePlayerLeft
  <2> QED
    BY <1>1, <1>4, <2>1, Leaving
<1>5. CASE HandlePositionUpdate
  <2>1. people' = people
    <3>1. 0 \notin Known1
      BY DEF Known1
    <3> QED
      BY <1>1, <1>5, <3>1 DEF HandlePositionUpdate, RecordActivity, PositionSource, Invalid
  <2> QED
    BY <1>1, <2>1
<1>6. CASE Tick
  <2>1. people' = CheckAFK \/ people' = people
    BY <1>6 DEF Tick, StageUpdatePlayers
  <2> QED
    BY <1>1, <2>1, Checking
<1>7. CASE Reset
  <2>1. people' = << >>
    BY <1>7 DEF Reset, PlayerEngineReset
  <2>2. AreSessions(<< >>) /\ DOMAIN << >> = {}
    BY DEF AreSessions
  <2> QED
    BY <1>7, <2>1, <2>2
<1>8. CASE TimePasses
  <2>1. people' = Aged
    BY <1>8 DEF TimePasses, Aged
  <2> QED
    BY <1>1, <2>1, Ageing
<1> QED
  BY <1>2, <1>3, <1>4, <1>5, <1>6, <1>7, <1>8 DEF ClientStep

\* What they do to the ground.
LEMMA GroundSteps ==
    ASSUME EngineTypes, WhoIsWho, IndexAround, ClientStep
    PROVE  GroundTypes' /\ IndexAround' /\ up' \in Seq(Grid)
<1>0. GroundTypes /\ up \in Seq(Grid) /\ Origin \in Grid
  BY EngineConstants DEF EngineTypes, ServerTypes
<1>1. CASE BeginInitialize \/ BeginPlayerJoined \/ EndPlayerJoined \/ HandlePlayerLeft
           \/ HandlePositionUpdate \/ BroadcastPositions \/ TimePasses
  <2>1. UNCHANGED <<place, zone, nearby, known, unasked, self, up>>
    BY <1>1 DEF BeginInitialize, BeginPlayerJoined, EndPlayerJoined, HandlePlayerLeft,
                HandlePositionUpdate, BroadcastPositions, TimePasses, ground
  <2> QED
    BY <1>0, <2>1 DEF GroundTypes, IndexAround
<1>2. CASE EndInitialize
  <2>1. UNCHANGED <<place, zone, nearby, known, unasked, up>> /\ self' = [self EXCEPT !.id = handler.id]
        /\ handler.pc = "ack"
    BY <1>2 DEF EndInitialize, OnHandshakeAck, ground
  <2>2. handler.id \in Nat
    BY <2>1 DEF EngineTypes, PeopleTypes, Idle
  <2>3. self' \in [id : Nat, zone : Grid] /\ self'.zone = self.zone
    BY <1>0, <2>1, <2>2 DEF GroundTypes
  <2> QED
    BY <1>0, <2>1, <2>3 DEF GroundTypes, IndexAround
<1>3. CASE HandleEntitySpawn
  <2>1. UNCHANGED <<place, zone, nearby, unasked, self, up>> /\ known' = known \cup Next1.ids
        /\ Receive("spawns")
    BY <1>3 DEF HandleEntitySpawn, ground
  <2>2. Next1.ids \subseteq DOMAIN Placed
    <3>1. Next1 \in EngineMail /\ Next1.kind = "spawns"
      BY <2>1, Received
    <3>2. Next1 \in [kind : {"spawns"}, id : {0}, ids : SUBSET DOMAIN Placed]
      BY <3>1 DEF EngineMail
    <3> QED
      BY <3>2
  <2> QED
    BY <1>0, <2>1, <2>2 DEF GroundTypes, IndexAround
<1>4. CASE Walk
  <2>1. UNCHANGED <<zone, nearby, known, unasked, self, up>> /\ place' \in Grid
    BY <1>4 DEF Walk, ground
  <2> QED
    BY <1>0, <2>1 DEF GroundTypes, IndexAround
<1>5. CASE Reset
  <2>1. /\ zone' = Origin /\ nearby' = {} /\ unasked' = FALSE /\ known' = {} /\ place' = place
        /\ up' = << >> /\ self' = [id |-> 0, zone |-> Origin]
    BY <1>5 DEF Reset, ZoneEngineReset, PlayerEngineReset, Invalid
  <2>2. self' \in [id : Nat, zone : Grid] /\ self'.zone = Origin
    BY <1>0, <2>1
  <2>3. << >> \in Seq(Grid)
    OBVIOUS
  <2> QED
    BY <1>0, <2>1, <2>2, <2>3 DEF GroundTypes, IndexAround
<1>6. CASE Tick
  <2>1. UNCHANGED <<known, place>> /\ StageUpdateZones
    BY <1>6 DEF Tick
  <2>2. CASE UNCHANGED <<ground, self, up>>
    BY <1>0, <2>1, <2>2 DEF GroundTypes, IndexAround, ground
  <2>3. CASE \E elapsed \in BOOLEAN :
               /\ UpdateLocalPlayerZone(place)
               /\ self' = IF place # zone THEN [self EXCEPT !.zone = place] ELSE self
               /\ nearby' = IF RebuildDue(elapsed, place # zone) THEN RebuildZoneIndex(place) ELSE nearby
    <3>1. PICK elapsed \in BOOLEAN :
               /\ UpdateLocalPlayerZone(place)
               /\ self' = IF place # zone THEN [self EXCEPT !.zone = place] ELSE self
               /\ nearby' = IF RebuildDue(elapsed, place # zone) THEN RebuildZoneIndex(place) ELSE nearby
      BY <2>3
    <3>2. place \in Grid /\ zone' = place
      BY <1>0, <3>1 DEF GroundTypes, UpdateLocalPlayerZone
    <3>3. up' \in Seq(Grid) /\ unasked' \in BOOLEAN
      <4>1. Append(up, place) \in Seq(Grid)
        BY <1>0, <3>2
      <4>2. up' \in {up, Append(up, place)} /\ unasked' \in {unasked, ~orch.wired}
        BY <3>1 DEF UpdateLocalPlayerZone, NotifyZoneChange
      <4>3. orch.wired \in BOOLEAN /\ unasked \in BOOLEAN
        BY DEF EngineTypes, PeopleTypes, GroundTypes
      <4> QED
        BY <1>0, <4>1, <4>2, <4>3
    <3>4. self' \in [id : Nat, zone : Grid] /\ self'.zone = place
      BY <1>0, <3>1, <3>2 DEF GroundTypes, IndexAround
    <3>5. \A e \in RebuildZoneIndex(place) : e \in known /\ Placed[e] \in GetInterestZones(place)
      BY DEF RebuildZoneIndex, GetEntitiesInZone
    <3>6. \A e \in nearby' : e \in known /\ Placed[e] \in GetInterestZones(place)
      BY <3>1, <3>5 DEF RebuildDue, IndexAround
    <3>7. known \subseteq DOMAIN Placed
      BY <1>0 DEF GroundTypes
    <3> QED
      BY <2>1, <3>2, <3>3, <3>4, <3>6, <3>7 DEF GroundTypes, IndexAround
  <2> QED
    BY <2>1, <2>2, <2>3, EngineConstants DEF StageUpdateZones, GetPosition
<1> QED
  BY <1>1, <1>2, <1>3, <1>4, <1>5, <1>6 DEF ClientStep

\* Messages, handler and orchestrator after a client's step.
LEMMA ClientSteps ==
    ASSUME EngineTypes, WhoIsWho, IndexAround, ClientStep
    PROVE  EngineTypes' /\ WhoIsWho' /\ IndexAround'
<1>0. /\ IdLimit \in Nat /\ AfkEvery \in Nat \ {0} /\ nextPlayer \in 1 .. IdLimit + 1
      /\ mine \in 0 .. nextPlayer - 1 /\ down \in Seq(EngineMail)
      /\ handler \in {Idle} \cup [pc : {"ack", "joined"}, id : Nat]
      /\ orch \in [active : BOOLEAN, id : 0 .. IdLimit, tick : 0 .. AfkEvery - 1, wired : BOOLEAN]
  BY EngineConstants DEF EngineTypes, ServerTypes, PeopleTypes
<1>1. mine \in 0 .. IdLimit /\ UNCHANGED <<nextPlayer, others>> /\ mine' \in {mine, Invalid}
  <2>1. UNCHANGED <<nextPlayer, others>> /\ mine' \in {mine, Invalid}
    BY DEF ClientStep, BeginInitialize, EndInitialize, BeginPlayerJoined, EndPlayerJoined, HandlePlayerLeft,
           HandleEntitySpawn, HandlePositionUpdate, BroadcastPositions, Tick, Reset, Walk, TimePasses, server
  <2> QED
    BY <1>0, <2>1
<1>2. UNCHANGED Known1
  BY <1>1 DEF Known1
<1>3. GroundTypes' /\ IndexAround' /\ up' \in Seq(Grid)
  BY GroundSteps
<1>4. AreSessions(people') /\ DOMAIN people' \subseteq Known1' /\ mine \notin DOMAIN people'
  BY <1>2, PeopleSteps
<1>5. \/ down' = down /\ mine' = mine
      \/ /\ mine' = mine /\ down' = Tail(down)
         /\ Receive("ack") \/ Receive("joined") \/ Receive("left") \/ Receive("spawns")
      \/ down' = << >> /\ mine' = Invalid
  BY DEF ClientStep, BeginInitialize, EndInitialize, BeginPlayerJoined, EndPlayerJoined, HandlePlayerLeft,
         HandleEntitySpawn, HandlePositionUpdate, BroadcastPositions, Tick, Reset, Walk, TimePasses, server, Receive
<1>6. /\ down' \in Seq(EngineMail)
      /\ mine' = Invalid => down' = << >>
      /\ \A i \in 1 .. Len(down') : down'[i].kind \in {"joined", "left"} =>
            down'[i].id \in Known1 /\ down'[i].id # mine'
      /\ \A i \in 1 .. Len(down') : down'[i].kind = "ack" => down'[i].id = mine'
  <2>1. CASE down' = down /\ mine' = mine
    BY <1>0, <2>1 DEF WhoIsWho
  <2>2. CASE down' = << >> /\ mine' = Invalid
    <3>1. << >> \in Seq(EngineMail) /\ ~ \E i \in 1 .. Len(<< >>) : TRUE
      OBVIOUS
    <3> QED
      BY <2>2, <3>1
  <2>3. ASSUME NEW k, Receive(k), mine' = mine
        PROVE  /\ down' \in Seq(EngineMail) /\ mine # Invalid
               /\ \A i \in 1 .. Len(down') : down'[i].kind \in {"joined", "left"} =>
                     down'[i].id \in Known1 /\ down'[i].id # mine
               /\ \A i \in 1 .. Len(down') : down'[i].kind = "ack" => down'[i].id = mine
    <3>1. /\ down' \in Seq(EngineMail) /\ mine # Invalid
          /\ \A i \in 1 .. Len(down') : i + 1 \in 1 .. Len(down) /\ down'[i] = down[i + 1]
      BY <2>3, Received
    <3> QED
      BY <3>1 DEF WhoIsWho
  <2>4. CASE /\ mine' = mine /\ down' = Tail(down)
             /\ Receive("ack") \/ Receive("joined") \/ Receive("left") \/ Receive("spawns")
    BY <2>3, <2>4
  <2> QED
    BY <1>5, <2>1, <2>2, <2>4
<1>7. /\ handler' \in {Idle} \cup [pc : {"ack", "joined"}, id : Nat]
      /\ handler'.pc = "joined" => handler'.id \in Known1 /\ handler'.id # mine'
  <2>0. Idle.pc = "idle" /\ \A m \in Known1 : m \in Nat /\ m # Invalid
    BY <1>0 DEF Idle, Known1, Invalid
  <2>1. CASE handler' = handler \/ handler' = Idle
    BY <1>0, <1>1, <2>0, <2>1 DEF WhoIsWho
  <2>2. CASE BeginInitialize
    <3>1. handler' = [pc |-> "ack", id |-> Next1.id] /\ Receive("ack")
      BY <2>2 DEF BeginInitialize
    <3>2. Next1.id = mine
      BY <3>1, Received DEF WhoIsWho
    <3> QED
      BY <1>0, <3>1, <3>2
  <2>3. CASE BeginPlayerJoined
    <3>1. handler' \in {Idle, [pc |-> "joined", id |-> Next1.id]} /\ Receive("joined") /\ mine' = mine
      BY <2>3 DEF BeginPlayerJoined, server
    <3>2. Next1.id \in Known1 /\ Next1.id # mine
      BY <3>1, Received DEF WhoIsWho
    <3> QED
      BY <2>0, <3>1, <3>2
  <2> QED
    BY <2>1, <2>2, <2>3
    DEF ClientStep, EndInitialize, EndPlayerJoined, HandlePlayerLeft, HandleEntitySpawn,
        HandlePositionUpdate, BroadcastPositions, Tick, Reset, Walk, TimePasses
<1>8. /\ orch' \in [active : BOOLEAN, id : 0 .. IdLimit, tick : 0 .. AfkEvery - 1, wired : BOOLEAN]
      /\ mine' = Invalid => ~orch'.active
      /\ orch'.active => orch'.id = mine'
      /\ ~orch'.active => orch'.id = Invalid
      /\ ~orch'.active => DOMAIN people' \subseteq overtaken'
  <2>1. PICK a \in BOOLEAN, m \in 0 .. IdLimit, t \in 0 .. AfkEvery - 1, w \in BOOLEAN :
            orch = [active |-> a, id |-> m, tick |-> t, wired |-> w]
    <3>1. orch = [active |-> orch.active, id |-> orch.id, tick |-> orch.tick, wired |-> orch.wired]
      BY <1>0, Zenon
    <3> QED
      BY <1>0, <3>1
  <2>2. /\ mine = Invalid => ~a
        /\ a => m = mine
        /\ ~a => m = Invalid
        /\ ~a => DOMAIN people \subseteq overtaken
    BY <2>1 DEF WhoIsWho
  <2>3. 0 \in 0 .. AfkEvery - 1 /\ 0 \in 0 .. IdLimit /\ (t + 1) % AfkEvery \in 0 .. AfkEvery - 1
    BY <1>0
  <2>4. CASE BeginInitialize
    <3>1. /\ orch' = [orch EXCEPT !.active = TRUE, !.id = Next1.id, !.tick = 0] /\ Receive("ack")
          /\ mine' = mine
      BY <2>4 DEF BeginInitialize, server
    <3>2. Next1.id = mine /\ mine # Invalid
      BY <3>1, Received DEF WhoIsWho
    <3>3. orch' = [active |-> TRUE, id |-> mine, tick |-> 0, wired |-> w]
      BY <2>1, <3>1, <3>2
    <3>4. orch'.active /\ orch'.id = mine'
      <4>1. orch'.active = TRUE /\ orch'.id = mine
        BY <3>3, Zenon
      <4> QED
        BY <3>1, <4>1
    <3>5. orch' \in [active : BOOLEAN, id : 0 .. IdLimit, tick : 0 .. AfkEvery - 1, wired : BOOLEAN]
      BY <1>1, <2>3, <3>3
    <3> QED
      BY <3>1, <3>2, <3>4, <3>5, Zenon
  <2>5. CASE EndInitialize
    <3>1. orch' = [orch EXCEPT !.wired = TRUE] /\ UNCHANGED <<mine, people, overtaken>>
      BY <2>5 DEF EndInitialize, server
    <3>2. orch' = [active |-> a, id |-> m, tick |-> t, wired |-> TRUE]
      BY <2>1, <3>1
    <3> QED
      BY <2>1, <2>2, <3>1, <3>2
  <2>6. CASE Tick
    <3>1. orch' = [orch EXCEPT !.tick = (@ + 1) % AfkEvery] /\ orch.active /\ mine' = mine
      BY <2>6 DEF Tick, server
    <3>2. orch' = [active |-> a, id |-> m, tick |-> (t + 1) % AfkEvery, wired |-> w]
      BY <2>1, <3>1
    <3>3. a
      BY <2>1, <3>1
    <3> QED
      BY <2>1, <2>2, <2>3, <3>1, <3>2, <3>3
  <2>7. CASE Reset
    <3>1. orch' = [active |-> FALSE, id |-> 0, tick |-> 0, wired |-> w] /\ people' = << >> /\ overtaken' = {}
      BY <2>1, <2>7 DEF Reset, Off, Invalid, PlayerEngineReset
    <3>2. DOMAIN << >> = {} /\ Invalid = 0
      BY DEF Invalid
    <3> QED
      BY <2>1, <2>3, <3>1, <3>2
  <2>8. CASE EndPlayerJoined
    <3>1. orch' = orch /\ mine' = mine /\ overtaken' = (IF orch.active THEN overtaken ELSE overtaken \cup {handler.id})
      BY <2>8 DEF EndPlayerJoined, server
    <3>2. DOMAIN people' = DOMAIN people \cup {handler.id}
      BY <2>8, Joining DEF EndPlayerJoined, EngineTypes, PeopleTypes
    <3> QED
      BY <1>0, <3>1, <3>2 DEF WhoIsWho
  <2>9. CASE /\ ~EndPlayerJoined /\ ~Reset
             /\ \/ BeginPlayerJoined \/ HandlePlayerLeft \/ HandleEntitySpawn \/ HandlePositionUpdate
                \/ BroadcastPositions \/ Walk \/ TimePasses
    <3>1. orch' = orch /\ mine' = mine /\ overtaken' = overtaken
      BY <2>9 DEF BeginPlayerJoined, HandlePlayerLeft, HandleEntitySpawn, HandlePositionUpdate,
                  BroadcastPositions, Walk, TimePasses, server
    <3>2. DOMAIN people' = DOMAIN people
      BY <2>9, PeopleSteps
    <3> QED
      BY <1>0, <3>1, <3>2 DEF WhoIsWho
  <2> QED
    BY <2>4, <2>5, <2>6, <2>7, <2>8, <2>9 DEF ClientStep
<1>9. mine' \in 0 .. nextPlayer' - 1 /\ mine' \notin others' /\ mine' \notin DOMAIN people'
  <2>1. 0 \notin others /\ 0 \notin Known1 /\ 0 \in 0 .. nextPlayer - 1
    BY <1>0 DEF EngineTypes, ServerTypes, Known1
  <2> QED
    BY <1>0, <1>1, <1>2, <1>4, <2>1 DEF EngineTypes, ServerTypes, Invalid
<1>10. ServerTypes'
  <2>1. nextPlayer' \in 1 .. IdLimit + 1 /\ others' \subseteq Known1'
    BY <1>0, <1>1, <1>2 DEF EngineTypes, ServerTypes
  <2> QED
    BY <1>3, <1>6, <1>9, <2>1 DEF ServerTypes
<1>11. PeopleTypes'
  BY <1>4, <1>7, <1>8 DEF PeopleTypes
<1>12. WhoIsWho'
  <2>1. /\ \A i \in 1 .. Len(down') : down'[i].kind \in {"joined", "left"} =>
               down'[i].id \in Known1' /\ down'[i].id # mine'
        /\ handler'.pc = "joined" => handler'.id \in Known1' /\ handler'.id # mine'
        /\ mine' = Invalid => down' = << >> /\ ~orch'.active
    BY <1>2, <1>6, <1>7, <1>8
  <2> QED
    BY <1>6, <1>8, <1>9, <2>1, Zenon DEF WhoIsWho
<1> QED
  BY <1>3, <1>10, <1>11, <1>12 DEF EngineTypes

LEMMA NewsArrives ==
    ASSUME EngineTypes, NEW x \in EngineMail, NEW p, Settled(p),
           down' = Append(down, x), handler' = handler, people' = people,
           About(x, p) => (x.kind = "joined" <=> p \in others'),
           ~About(x, p) => (p \in others' <=> p \in others)
    PROVE  Settled(p)'
<1>1. down \in Seq(EngineMail)
  BY DEF EngineTypes, ServerTypes
<1>2. CASE About(x, p)
  <2>1. LastSays(down', p, others') /\ ~Silent(down', p)
    <3> DEFINE S == others'
    <3>1. S = others'
      OBVIOUS
    <3> HIDE DEF S
    <3>2. LastSays(down, p, others)
      BY DEF Settled
    <3> QED
      BY <1>1, <1>2, <3>1, MailArrives
  <2> QED
    BY <2>1 DEF Settled
<1>3. CASE ~About(x, p)
  <2>1. /\ LastSays(Append(down, x), p, others)
        /\ Silent(Append(down, x), p) <=> Silent(down, p)
    BY <1>1, <1>3, MailArrives DEF Settled
  <2>2. LastSays(down', p, others')
    BY <1>3, <2>1 DEF LastSays
  <2> QED
    BY <1>3, <2>1, <2>2 DEF Settled
<1> QED
  BY <1>2, <1>3

LEMMA RosterOnServer ==
    ASSUME EngineTypes, WhoIsWho, RosterInv,
           AcceptLocal \/ PlayerJoins \/ PlayerLeaves \/ HandleZoneRequest
    PROVE  RosterInv'
<1>1. UNCHANGED <<handler, people, overtaken>>
  BY DEF AcceptLocal, PlayerJoins, PlayerLeaves, HandleZoneRequest
<1>2. CASE AcceptLocal
  <2>1. ~orch.active /\ handler = Idle /\ others' = others
    BY <1>2 DEF AcceptLocal
  <2>2. /\ \A i \in 1 .. Len(down') :
              \/ down'[i].kind = "ack" /\ down'[i].id = nextPlayer
              \/ down'[i].kind = "joined" /\ down'[i].id \in others
        /\ \A p \in others : \E i \in 1 .. Len(down') : About(down'[i], p)
    BY <1>2, AcceptedMail
  <2>3. ASSUME NEW p \in PlayerIds, p \notin overtaken' PROVE Settled(p)'
    <3>1. p \notin Shown(people')
      BY <1>1, <2>1, <2>3 DEF WhoIsWho, Shown
    <3>2. handler' # [pc |-> "joined", id |-> p]
      BY <1>1, <2>1 DEF Idle
    <3>3. LastSays(down', p, others')
      BY <2>1, <2>2 DEF LastSays, About
    <3>4. Silent(down', p) => p \notin others'
      BY <2>1, <2>2 DEF Silent
    <3> QED
      BY <3>1, <3>2, <3>3, <3>4 DEF Settled
  <2> QED
    BY <2>3 DEF RosterInv
<1>3. ASSUME NEW x \in EngineMail, Tell(<<x>>), mine' = mine,
             \A p \in PlayerIds : /\ About(x, p) => (x.kind = "joined" <=> p \in others')
                                  /\ ~About(x, p) => (p \in others' <=> p \in others)
      PROVE  RosterInv'
  <2>1. ASSUME mine # Invalid, NEW p \in PlayerIds, p \notin overtaken PROVE Settled(p)'
    <3>1. down' = Append(down, x) /\ Settled(p)
      BY <1>3, <2>1, TellOne DEF RosterInv
    <3> QED
      BY <1>1, <1>3, <3>1, NewsArrives
  <2> QED
    BY <1>1, <1>3, <2>1 DEF RosterInv
<1>4. CASE PlayerJoins
  <2> DEFINE x == [kind |-> "joined", id |-> nextPlayer]
  <2>1. others' = others \cup {nextPlayer} /\ Tell(<<x>>) /\ mine' = mine
    BY <1>4 DEF PlayerJoins
  <2>2. x \in [kind : {"ack", "joined", "left"}, id : Nat] /\ x.kind = "joined" /\ x.id = nextPlayer
    BY EngineConstants DEF EngineTypes, ServerTypes
  <2> HIDE DEF x
  <2>3. x \in EngineMail
    BY <2>2 DEF EngineMail
  <2> QED
    BY <1>3, <2>1, <2>2, <2>3 DEF About
<1>5. CASE PlayerLeaves
  <2>1. PICK q \in others : others' = others \ {q} /\ Tell(<<[kind |-> "left", id |-> q]>>)
    BY <1>5 DEF PlayerLeaves
  <2> DEFINE x == [kind |-> "left", id |-> q]
  <2>2. Tell(<<x>>) /\ mine' = mine
    BY <1>5, <2>1 DEF PlayerLeaves
  <2>3. q \in Nat
    BY EngineConstants DEF EngineTypes, ServerTypes, Known1
  <2>4. x \in [kind : {"ack", "joined", "left"}, id : Nat] /\ x.kind = "left" /\ x.id = q
    BY <2>3
  <2> HIDE DEF x
  <2>5. x \in EngineMail
    BY <2>4 DEF EngineMail
  <2> QED
    BY <1>3, <2>1, <2>2, <2>4, <2>5 DEF About
<1>6. CASE HandleZoneRequest
  <2> DEFINE x == [kind |-> "spawns", id |-> 0, ids |-> ZoneAnswer(Head(up))]
  <2>1. Tell(<<x>>) /\ UNCHANGED <<others, mine>>
    BY <1>6 DEF HandleZoneRequest, server
  <2>2. ZoneAnswer(Head(up)) \subseteq DOMAIN Placed
    BY DEF ZoneAnswer
  <2>3. x \in EngineMail /\ x.kind = "spawns"
    BY <2>2 DEF EngineMail
  <2> HIDE DEF x
  <2> QED
    BY <1>3, <2>1, <2>3 DEF About
<1> QED
  BY <1>2, <1>4, <1>5, <1>6

LEMMA RosterOnClient ==
    ASSUME EngineTypes, WhoIsWho, RosterInv, ClientStep
    PROVE  RosterInv'
<1> SUFFICES ASSUME mine' # Invalid, NEW p \in PlayerIds, p \notin overtaken'
             PROVE  Settled(p)'
  BY DEF RosterInv
<1>1. ~Reset
  BY DEF Reset
<1>2. UNCHANGED <<mine, others>> /\ overtaken \subseteq overtaken'
  BY <1>1 DEF ClientStep, BeginInitialize, EndInitialize, BeginPlayerJoined, EndPlayerJoined, HandlePlayerLeft,
         HandleEntitySpawn, HandlePositionUpdate, BroadcastPositions, Tick, Walk, TimePasses, server
<1>3. Settled(p)
  BY <1>2 DEF RosterInv
<1>4. down \in Seq(EngineMail)
  BY DEF EngineTypes, ServerTypes
<1> DEFINE joining == [pc |-> "joined", id |-> p]
<1>5. joining.pc = "joined" /\ joining.id = p
  OBVIOUS
<1> HIDE DEF joining
<1>6. /\ LastSays(down, p, others)
      /\ Silent(down, p) => IF handler = joining THEN p \in others
                            ELSE (p \in Shown(people) <=> p \in others)
  BY <1>3 DEF Settled, joining
<1>7. SUFFICES /\ LastSays(down', p, others)
               /\ Silent(down', p) => IF handler' = joining THEN p \in others
                                      ELSE (p \in Shown(people') <=> p \in others)
  BY <1>2 DEF Settled, joining
<1>8. ASSUME NEW k, Receive(k)
      PROVE  /\ handler # joining /\ Next1.kind = k
             /\ LastSays(down', p, others)
             /\ ~About(Next1, p) => (Silent(down', p) => Silent(down, p))
             /\ About(Next1, p) /\ Silent(down', p) => (k = "joined" <=> p \in others)
  <2>1. handler = Idle /\ down # << >> /\ Next1.kind = k /\ down' = Tail(down) /\ Next1 = Head(down)
    BY <1>8 DEF Receive, Next1
  <2>2. handler # joining
    BY <1>5, <2>1 DEF Idle
  <2> QED
    BY <1>4, <1>6, <2>1, <2>2, MailTaken
<1>9. CASE EndPlayerJoined
  <2>1. handler.pc = "joined" /\ handler' = Idle /\ down' = down
    BY <1>9 DEF EndPlayerJoined
  <2>2. handler' # joining
    BY <1>5, <2>1 DEF Idle
  <2>3. Shown(people') = Shown(people) \cup {handler.id}
    BY <1>9, Joining DEF EndPlayerJoined, EngineTypes, PeopleTypes
  <2>4. handler = joining <=> handler.id = p
    <3>1. handler \in [pc : {"ack", "joined"}, id : Nat]
      BY <2>1 DEF EngineTypes, PeopleTypes, Idle
    <3>2. handler = [pc |-> handler.pc, id |-> handler.id]
      BY <3>1, Zenon
    <3> QED
      BY <1>5, <2>1, <3>2 DEF joining
  <2> QED
    BY <1>6, <2>1, <2>2, <2>3, <2>4
<1>10. CASE HandlePlayerLeft
  <2>1. Receive("left") /\ handler' = handler
    BY <1>10 DEF HandlePlayerLeft
  <2>2. Shown(people') = Shown(people) \ {Next1.id}
    BY <1>10, Leaving DEF HandlePlayerLeft, EngineTypes, PeopleTypes
  <2>3. About(Next1, p) <=> Next1.id = p
    BY <1>8, <2>1 DEF About
  <2> QED
    BY <1>6, <1>8, <2>1, <2>2, <2>3
<1>11. CASE BeginPlayerJoined
  <2>1. Receive("joined") /\ people' = people
        /\ handler' = (IF Next1.id = orch.id THEN Idle ELSE [pc |-> "joined", id |-> Next1.id])
    BY <1>11 DEF BeginPlayerJoined
  <2>2. Next1.id \in Known1 /\ Next1.id # mine
    BY <2>1, Received DEF WhoIsWho
  <2>3. Next1.id # orch.id
    <3>1. 0 \notin Known1
      BY DEF Known1
    <3> QED
      BY <2>2, <3>1 DEF WhoIsWho, Invalid
  <2>4. handler' = joining <=> Next1.id = p
    BY <1>5, <2>1, <2>3 DEF joining
  <2>5. About(Next1, p) <=> Next1.id = p
    BY <1>8, <2>1 DEF About
  <2> QED
    BY <1>6, <1>8, <2>1, <2>4, <2>5
<1>12. CASE BeginInitialize
  <2>1. Receive("ack") /\ people' = people /\ handler' = [pc |-> "ack", id |-> Next1.id]
    BY <1>12 DEF BeginInitialize
  <2>2. handler' # joining
    BY <1>5, <2>1
  <2>3. ~About(Next1, p)
    BY <1>8, <2>1 DEF About
  <2> QED
    BY <1>6, <1>8, <2>1, <2>2, <2>3
<1>13. CASE HandleEntitySpawn
  <2>1. Receive("spawns") /\ people' = people /\ handler' = handler
    BY <1>13 DEF HandleEntitySpawn
  <2>2. ~About(Next1, p)
    BY <1>8, <2>1 DEF About
  <2> QED
    BY <1>6, <1>8, <2>1, <2>2
<1>14. CASE EndInitialize
  <2>1. handler.pc = "ack" /\ handler' = Idle /\ down' = down /\ people' = people
    BY <1>14 DEF EndInitialize
  <2>2. handler # joining /\ handler' # joining
    BY <1>5, <2>1 DEF Idle
  <2> QED
    BY <1>6, <2>1, <2>2
<1>15. CASE ~EndPlayerJoined /\ ~HandlePlayerLeft
            /\ (HandlePositionUpdate \/ BroadcastPositions \/ Tick \/ Walk \/ TimePasses)
  <2>1. down' = down /\ handler' = handler
    BY <1>15 DEF HandlePositionUpdate, BroadcastPositions, Tick, Walk, TimePasses
  <2>2. Shown(people') = Shown(people)
    BY <1>1, <1>15, PeopleSteps
  <2> QED
    BY <1>6, <2>1, <2>2
<1> QED
  BY <1>1, <1>9, <1>10, <1>11, <1>12, <1>13, <1>14, <1>15 DEF ClientStep

\* The zone that was entered was asked for, or an answer is on its way, or it is known; no
\* zone is entered without a session.
Asked ==
    /\ zone # Origin /\ ~unasked =>
          \/ \E i \in 1 .. Len(up) : up[i] = zone
          \/ \E i \in 1 .. Len(down) : down[i].kind = "spawns" /\ down[i].ids = ZoneAnswer(zone)
          \/ ZoneAnswer(zone) \subseteq known
    /\ ~orch.active => zone = Origin

LEMMA AskedOnServer ==
    ASSUME EngineTypes, WhoIsWho, Asked,
           AcceptLocal \/ PlayerJoins \/ PlayerLeaves \/ HandleZoneRequest
    PROVE  Asked'
<1>1. UNCHANGED <<orch, zone, known, unasked>>
  BY DEF AcceptLocal, PlayerJoins, PlayerLeaves, HandleZoneRequest, ground
<1>2. (ZoneAnswer(zone))' = ZoneAnswer(zone)
  BY <1>1 DEF ZoneAnswer, IsAdjacent
<1>3. CASE AcceptLocal
  BY <1>1, <1>3 DEF AcceptLocal, Asked
<1>4. down \in Seq(EngineMail) /\ up \in Seq(Grid)
  BY DEF EngineTypes, ServerTypes
<1>5. ASSUME NEW x \in EngineMail, Tell(<<x>>)
      PROVE  \A i \in 1 .. Len(down) : i \in 1 .. Len(down') /\ down'[i] = down[i]
  <2>1. \A i \in 1 .. Len(down) : i \in 1 .. Len(Append(down, x)) /\ Append(down, x)[i] = down[i]
    BY <1>4
  <2> QED
    BY <1>5, <2>1, TellOne
<1>6. ASSUME NEW x \in EngineMail, Tell(<<x>>), up' = up PROVE Asked'
  BY <1>1, <1>2, <1>5, <1>6 DEF Asked
<1>7. CASE PlayerJoins
  <2>1. Tell(<<[kind |-> "joined", id |-> nextPlayer]>>) /\ up' = up
    BY <1>7 DEF PlayerJoins
  <2>2. [kind |-> "joined", id |-> nextPlayer] \in EngineMail
    <3>1. [kind |-> "joined", id |-> nextPlayer] \in [kind : {"ack", "joined", "left"}, id : Nat]
      BY EngineConstants DEF EngineTypes, ServerTypes
    <3> QED
      BY <3>1, Zenon DEF EngineMail
  <2> QED
    BY <1>6, <2>1, <2>2
<1>8. CASE PlayerLeaves
  <2>1. PICK q \in others : Tell(<<[kind |-> "left", id |-> q]>>) /\ up' = up
    BY <1>8 DEF PlayerLeaves
  <2>2. [kind |-> "left", id |-> q] \in EngineMail
    <3>1. q \in Nat
      BY EngineConstants DEF EngineTypes, ServerTypes, Known1
    <3>2. [kind |-> "left", id |-> q] \in [kind : {"ack", "joined", "left"}, id : Nat]
      BY <3>1
    <3> QED
      BY <3>2, Zenon DEF EngineMail
  <2> QED
    BY <1>6, <2>1, <2>2
<1>9. CASE HandleZoneRequest
  <2> DEFINE x == [kind |-> "spawns", id |-> 0, ids |-> ZoneAnswer(Head(up))]
  <2>1. Tell(<<x>>) /\ mine # Invalid /\ up # << >> /\ up' = Tail(up)
    BY <1>9 DEF HandleZoneRequest
  <2>2. ZoneAnswer(Head(up)) \subseteq DOMAIN Placed
    BY DEF ZoneAnswer
  <2>3. x \in EngineMail /\ x.kind = "spawns" /\ x.ids = ZoneAnswer(Head(up))
    BY <2>2 DEF EngineMail
  <2> HIDE DEF x
  <2>4. down' = Append(down, x)
    BY <2>1, <2>3, TellOne
  <2>5. Len(down) + 1 \in 1 .. Len(down') /\ down'[Len(down) + 1] = x
    BY <1>4, <2>3, <2>4
  <2>6. \A i \in 1 .. Len(up) : up[i] = Head(up) \/ \E j \in 1 .. Len(up') : up'[j] = up[i]
    <3>1. /\ Head(up) = up[1] /\ Len(up') = Len(up) - 1
          /\ \A j \in 1 .. Len(up) - 1 : up'[j] = up[j + 1]
          /\ \A i \in 1 .. Len(up) : i = 1 \/ (i - 1 \in 1 .. Len(up) - 1 /\ (i - 1) + 1 = i)
      BY <1>4, <2>1
    <3> QED
      BY <3>1
  <2>7. ASSUME zone # Origin, ~unasked
        PROVE  \/ \E i \in 1 .. Len(up') : up'[i] = zone
               \/ \E i \in 1 .. Len(down') : down'[i].kind = "spawns" /\ down'[i].ids = ZoneAnswer(zone)
               \/ ZoneAnswer(zone) \subseteq known
    <3>1. CASE \E i \in 1 .. Len(up) : up[i] = zone
      BY <2>3, <2>5, <2>6, <3>1
    <3>2. CASE \E i \in 1 .. Len(down) : down[i].kind = "spawns" /\ down[i].ids = ZoneAnswer(zone)
      BY <1>5, <2>1, <2>3, <3>2
    <3> QED
      BY <2>7, <3>1, <3>2 DEF Asked
  <2> QED
    BY <1>1, <1>2, <2>7 DEF Asked
<1> QED
  BY <1>3, <1>7, <1>8, <1>9

LEMMA AskedOnClient ==
    ASSUME EngineTypes, WhoIsWho, Asked, ClientStep
    PROVE  Asked'
<1>0. down \in Seq(EngineMail) /\ up \in Seq(Grid)
  BY DEF EngineTypes, ServerTypes
<1>1. CASE Reset
  BY <1>1 DEF Reset, ZoneEngineReset, Asked
<1>2. CASE EndInitialize \/ EndPlayerJoined \/ HandlePositionUpdate \/ BroadcastPositions \/ Walk \/ TimePasses
  <2>1. UNCHANGED <<zone, unasked, known, down, up>>
    BY <1>2 DEF EndInitialize, EndPlayerJoined, HandlePositionUpdate, BroadcastPositions, Walk, TimePasses, ground
  <2>2. orch'.active = orch.active
    <3>1. orch' = orch \/ orch' = [orch EXCEPT !.wired = TRUE]
      BY <1>2 DEF EndInitialize, EndPlayerJoined, HandlePositionUpdate, BroadcastPositions, Walk, TimePasses
    <3>2. orch \in [active : BOOLEAN, id : 0 .. IdLimit, tick : 0 .. AfkEvery - 1, wired : BOOLEAN]
      BY DEF EngineTypes, PeopleTypes
    <3>3. [orch EXCEPT !.wired = TRUE].active = orch.active
      BY <3>2, Zenon
    <3> QED
      BY <3>1, <3>3, Zenon
  <2>3. (ZoneAnswer(zone))' = ZoneAnswer(zone)
    BY <2>1 DEF ZoneAnswer, IsAdjacent
  <2> QED
    BY <2>1, <2>2, <2>3 DEF Asked
<1>3. ASSUME NEW k, Receive(k), UNCHANGED <<zone, unasked, up>>, known \subseteq known',
             k = "spawns" => Next1.ids \subseteq known',
             orch' = orch \/ orch'.active
      PROVE  Asked'
  <2>1. (ZoneAnswer(zone))' = ZoneAnswer(zone)
    BY <1>3 DEF ZoneAnswer, IsAdjacent
  <2>2. /\ Next1 = down[1] /\ Next1.kind = k
        /\ \A i \in 1 .. Len(down) : i = 1 \/ \E j \in 1 .. Len(down') : down'[j] = down[i]
    <3>1. down # << >> /\ down' = Tail(down) /\ Next1 = Head(down) /\ Next1.kind = k
      BY <1>3 DEF Receive, Next1
    <3>2. /\ Head(down) = down[1] /\ Len(Tail(down)) = Len(down) - 1
          /\ \A j \in 1 .. Len(down) - 1 : Tail(down)[j] = down[j + 1]
          /\ \A i \in 1 .. Len(down) : i = 1 \/ (i - 1 \in 1 .. Len(down) - 1 /\ (i - 1) + 1 = i)
      BY <1>0, <3>1
    <3> QED
      BY <3>1, <3>2
  <2>3. ASSUME zone # Origin, ~unasked
        PROVE  \/ \E i \in 1 .. Len(up) : up[i] = zone
               \/ \E i \in 1 .. Len(down') : down'[i].kind = "spawns" /\ down'[i].ids = ZoneAnswer(zone)
               \/ ZoneAnswer(zone) \subseteq known'
    <3>1. CASE \E i \in 1 .. Len(down) : down[i].kind = "spawns" /\ down[i].ids = ZoneAnswer(zone)
      BY <1>3, <2>2, <3>1
    <3> QED
      BY <1>3, <2>3, <3>1 DEF Asked
  <2>4. ~orch'.active => zone' = Origin
    BY <1>3 DEF Asked
  <2> QED
    BY <1>3, <2>1, <2>3, <2>4 DEF Asked
<1>4. CASE BeginInitialize
  <2>1. Receive("ack") /\ UNCHANGED <<zone, unasked, up, known>> /\ orch' = [orch EXCEPT !.active = TRUE, !.id = Next1.id, !.tick = 0]
    BY <1>4 DEF BeginInitialize, ground
  <2>2. orch'.active
    <3>1. orch \in [active : BOOLEAN, id : 0 .. IdLimit, tick : 0 .. AfkEvery - 1, wired : BOOLEAN]
      BY DEF EngineTypes, PeopleTypes
    <3> QED
      BY <2>1, <3>1
  <2> QED
    BY <1>3, <2>1, <2>2
<1>5. CASE BeginPlayerJoined \/ HandlePlayerLeft
  <2>1. Receive("joined") \/ Receive("left")
    BY <1>5 DEF BeginPlayerJoined, HandlePlayerLeft
  <2>2. UNCHANGED <<zone, unasked, up, known, orch>>
    BY <1>5 DEF BeginPlayerJoined, HandlePlayerLeft, ground
  <2> QED
    BY <1>3, <2>1, <2>2
<1>6. CASE HandleEntitySpawn
  <2>1. Receive("spawns") /\ UNCHANGED <<zone, unasked, up, orch>> /\ known' = known \cup Next1.ids
    BY <1>6 DEF HandleEntitySpawn, ground
  <2> QED
    BY <1>3, <2>1
<1>7. CASE Tick
  <2>1. /\ orch.active /\ UNCHANGED <<down, known>> /\ StageUpdateZones
        /\ orch' = [orch EXCEPT !.tick = (@ + 1) % AfkEvery]
    BY <1>7 DEF Tick
  <2>2. orch'.active
    <3>1. orch \in [active : BOOLEAN, id : 0 .. IdLimit, tick : 0 .. AfkEvery - 1, wired : BOOLEAN]
      BY DEF EngineTypes, PeopleTypes
    <3>2. orch'.active = orch.active
      BY <2>1, <3>1, Zenon
    <3> QED
      BY <2>1, <3>2, Zenon
  <2>3. CASE UNCHANGED <<zone, unasked, up>>
    <3>1. (ZoneAnswer(zone))' = ZoneAnswer(zone)
      BY <2>3 DEF ZoneAnswer, IsAdjacent
    <3> QED
      BY <2>1, <2>2, <2>3, <3>1 DEF Asked
  <2>4. CASE zone' = place /\ place # zone /\ NotifyZoneChange(place) /\ unasked' = ~orch.wired
    <3>1. ~unasked' => up' = Append(up, zone')
      BY <2>4 DEF NotifyZoneChange
    <3>2. Len(Append(up, zone')) = Len(up) + 1 /\ Append(up, zone')[Len(up) + 1] = zone'
          /\ Len(up) + 1 \in 1 .. Len(up) + 1
      <4>1. place \in Grid
        BY DEF EngineTypes, GroundTypes
      <4> QED
        BY <1>0, <2>4, <4>1
    <3>3. ~unasked' => \E i \in 1 .. Len(up') : up'[i] = zone'
      BY <3>1, <3>2
    <3> QED
      BY <2>2, <3>3 DEF Asked
  <2> QED
    BY <2>1, <2>3, <2>4
    DEF StageUpdateZones, GetPosition, UpdateLocalPlayerZone, ground
<1> QED
  BY <1>1, <1>2, <1>4, <1>5, <1>6, <1>7 DEF ClientStep

EnginesInv == EngineTypes /\ WhoIsWho /\ IndexAround /\ RosterInv /\ Asked

LEMMA EnginesStart == SeInit => EnginesInv
<1> SUFFICES ASSUME SeInit PROVE EnginesInv
  OBVIOUS
<1>0. /\ others = {} /\ nextPlayer = 1 /\ mine = 0 /\ down = << >> /\ up = << >> /\ handler = Idle
      /\ orch = [active |-> FALSE, id |-> 0, tick |-> 0, wired |-> FALSE]
      /\ people = << >> /\ self = [id |-> 0, zone |-> Origin]
      /\ place \in Grid /\ zone = Origin /\ nearby = {} /\ known = {} /\ unasked = FALSE /\ overtaken = {}
  BY DEF SeInit, Off, Invalid
<1>1. /\ IdLimit \in Nat /\ AfkEvery \in Nat \ {0} /\ Origin \in Grid
      /\ << >> \in Seq(EngineMail) /\ << >> \in Seq(Grid) /\ Len(<< >>) = 0 /\ DOMAIN << >> = {}
  BY EngineConstants
<1>2. ServerTypes
  <2>1. 1 \in 1 .. IdLimit + 1 /\ 0 \in 0 .. 1 - 1
    BY <1>1
  <2> QED
    BY <1>0, <1>1, <2>1 DEF ServerTypes
<1>3. PeopleTypes
  <2>1. 0 \in 0 .. IdLimit /\ 0 \in 0 .. AfkEvery - 1
    BY <1>1
  <2>2. orch \in [active : BOOLEAN, id : 0 .. IdLimit, tick : 0 .. AfkEvery - 1, wired : BOOLEAN]
    BY <1>0, <2>1
  <2>3. AreSessions(<< >>)
    BY <1>1 DEF AreSessions
  <2> QED
    BY <1>0, <1>1, <2>2, <2>3 DEF PeopleTypes
<1>4. self \in [id : Nat, zone : Grid] /\ self.zone = Origin
  BY <1>0, <1>1
<1>5. GroundTypes /\ IndexAround
  BY <1>0, <1>1, <1>4 DEF GroundTypes, IndexAround
<1>6. orch.active = FALSE /\ orch.id = 0 /\ handler.pc = "idle"
  BY <1>0 DEF Idle
<1>7. \A i \in 1 .. Len(down) : FALSE
  BY <1>0
<1>8. WhoIsWho
  BY <1>0, <1>1, <1>6, <1>7 DEF WhoIsWho, Invalid
<1>9. RosterInv /\ Asked
  BY <1>0 DEF RosterInv, Asked, Invalid
<1> QED
  BY <1>2, <1>3, <1>5, <1>8, <1>9 DEF EnginesInv, EngineTypes

LEMMA EnginesStep == EnginesInv /\ [SeNext]_seVars => EnginesInv'
<1> SUFFICES ASSUME EnginesInv, [SeNext]_seVars PROVE EnginesInv'
  OBVIOUS
<1>0. EngineTypes /\ WhoIsWho /\ IndexAround /\ RosterInv /\ Asked
  BY DEF EnginesInv
<1>1. CASE AcceptLocal \/ PlayerJoins \/ PlayerLeaves \/ HandleZoneRequest
  <2>1. EngineTypes' /\ WhoIsWho' /\ RosterInv' /\ Asked'
    BY <1>0, <1>1, ServerSteps, RosterOnServer, AskedOnServer
  <2>2. UNCHANGED <<self, zone, nearby, known>>
    BY <1>1 DEF AcceptLocal, PlayerJoins, PlayerLeaves, HandleZoneRequest, ground
  <2>3. IndexAround'
    BY <1>0, <2>2 DEF IndexAround, GetInterestZones
  <2> QED
    BY <2>1, <2>3 DEF EnginesInv
<1>2. CASE ClientStep
  BY <1>0, <1>2, ClientSteps, RosterOnClient, AskedOnClient DEF EnginesInv
<1>3. CASE UNCHANGED seVars
  <2>1. UNCHANGED <<others, nextPlayer, mine, down, up, handler, orch, people, self, place,
                    zone, nearby, known, unasked, overtaken>>
    BY <1>3 DEF seVars
  <2>2. UNCHANGED Known1
    BY <2>1 DEF Known1
  <2>3. EngineTypes'
    BY <1>0, <2>1, <2>2 DEF EngineTypes, ServerTypes, PeopleTypes, GroundTypes
  <2>4. WhoIsWho'
    BY <1>0, <2>1, <2>2 DEF WhoIsWho
  <2>5. IndexAround'
    BY <1>0, <2>1 DEF IndexAround, GetInterestZones
  <2>6. RosterInv'
    BY <1>0, <2>1 DEF RosterInv, Settled, LastSays, Silent
  <2>7. Asked'
    BY <1>0, <2>1 DEF Asked, ZoneAnswer
  <2> QED
    BY <2>3, <2>4, <2>5, <2>6, <2>7 DEF EnginesInv
<1> QED
  BY <1>1, <1>2, <1>3 DEF SeNext, ClientStep

LEMMA EnginesHold == SeSpec => []EnginesInv
<1>1. SeInit => EnginesInv
  BY EnginesStart
<1>2. EnginesInv /\ [SeNext]_seVars => EnginesInv'
  BY EnginesStep
<1> QED
  BY <1>1, <1>2, PTL DEF SeSpec

\* An answer holds what is of interest, while the server's idea of what is next to a zone
\* takes in the client's, and the zone is one the server believes in.
LEMMA AnswersSuffice ==
    ASSUME Radius \in {0, 1}, Grid \subseteq (-ZoneMax .. ZoneMax) \X (-ZoneMax .. ZoneMax),
           NEW z \in Grid, NEW e \in DOMAIN Placed \ Mine, Placed[e] \in GetInterestZones(z)
    PROVE  e \in ZoneAnswer(z)
<1>1. ZoneMax \in Nat
  BY EngineConstants
<1>2. z[1] \in -ZoneMax .. ZoneMax /\ z[2] \in -ZoneMax .. ZoneMax
  OBVIOUS
<1>3. PICK dx \in -Radius .. Radius, dy \in -Radius .. Radius : Placed[e] = <<z[1] + dx, z[2] + dy>>
  BY DEF GetInterestZones
<1>4. z[1] \in Int /\ z[2] \in Int /\ dx \in -1 .. 1 /\ dy \in -1 .. 1
  BY <1>1, <1>2, <1>3
<1>5. z[1] - (z[1] + dx) \in -1 .. 1 /\ z[2] - (z[2] + dy) \in -1 .. 1
  BY <1>4
<1>6. Placed[e][1] = z[1] + dx /\ Placed[e][2] = z[2] + dy
  BY <1>3
<1>7. IsAdjacent(z, Placed[e])
  BY <1>5, <1>6 DEF IsAdjacent
<1>8. \A i \in {1, 2} : z[i] \in -ZoneMax .. ZoneMax
  BY <1>2
<1> QED
  BY <1>7, <1>8 DEF ZoneAnswer

\* Types of the engines and of what passes between them and the server (player_engine.cpp,
\* zone_engine.cpp, sync_orchestrator.cpp).
THEOREM EnginesAreTyped == SeSpec => []SeTypeOK
<1>1. EnginesInv => SeTypeOK
  <2> SUFFICES ASSUME EnginesInv PROVE SeTypeOK
    OBVIOUS
  <2>1. ServerTypes /\ PeopleTypes /\ GroundTypes
    BY DEF EnginesInv, EngineTypes
  <2>2. IdLimit \in Nat /\ Known1 \subseteq PlayerIds /\ mine \in 0 .. IdLimit
    <3>1. IdLimit \in Nat /\ nextPlayer \in 1 .. IdLimit + 1 /\ mine \in 0 .. nextPlayer - 1
      BY <2>1, EngineConstants DEF ServerTypes
    <3> QED
      BY <3>1 DEF Known1, PlayerIds
  <2> QED
    BY <2>1, <2>2 DEF ServerTypes, PeopleTypes, GroundTypes, SeTypeOK
<1> QED
  BY <1>1, EnginesHold, PTL

\* Whoever comes and goes, and whatever falls between the halves of the handlers: with the
\* messages through, the PlayerEngine shows who is on the server; away is who was silent;
\* the ZoneEngine was told what is around the zone it was told of; and its index stays in
\* the interest of the zone both engines have.  The radius is KMP_INTEREST_RADIUS (1), and
\* the player stays within ZONE_MAX, beyond which the server answers nothing.
THEOREM EnginesAreSound ==
    ASSUME Radius \in {0, 1}, Grid \subseteq (-ZoneMax .. ZoneMax) \X (-ZoneMax .. ZoneMax)
    PROVE  SeSpec => []EnginesSound
<1>1. EnginesInv => EnginesSound
  <2> SUFFICES ASSUME EnginesInv PROVE EnginesSound
    OBVIOUS
  <2>0. ServerTypes /\ PeopleTypes /\ GroundTypes /\ WhoIsWho /\ IndexAround /\ RosterInv /\ Asked
    BY DEF EnginesInv, EngineTypes
  <2>1. RosterAgrees
    <3>1. orch.active => orch.id \notin DOMAIN people
      BY <2>0 DEF WhoIsWho
    <3>2. ASSUME Quiet PROVE Present \ overtaken = others \ overtaken
      <4>1. mine # Invalid /\ down = << >> /\ handler = Idle
        BY <2>0, <3>2 DEF Quiet, WhoIsWho
      <4>2. Present = Shown(people)
        BY DEF Present, Shown
      <4>3. Known1 \subseteq PlayerIds
        BY <2>0, EngineConstants DEF ServerTypes, Known1, PlayerIds
      <4>4. Present \subseteq PlayerIds /\ others \subseteq PlayerIds
        BY <2>0, <4>2, <4>3 DEF ServerTypes, PeopleTypes, Shown
      <4>5. ASSUME NEW p \in PlayerIds, p \notin overtaken PROVE p \in Present <=> p \in others
        <5>1. Settled(p)
          BY <2>0, <4>1, <4>5 DEF RosterInv
        <5>2. Silent(down, p)
          <6>1. Len(<< >>) = 0 /\ 1 .. 0 = {}
            OBVIOUS
          <6> QED
            BY <4>1, <6>1 DEF Silent
        <5>3. handler # [pc |-> "joined", id |-> p]
          BY <4>1 DEF Idle
        <5> QED
          BY <4>2, <5>1, <5>2, <5>3 DEF Settled
      <4> QED
        BY <4>4, <4>5
    <3> QED
      BY <3>1, <3>2 DEF RosterAgrees
  <2>2. AwayIsSilent
    BY <2>0 DEF AwayIsSilent, PeopleTypes, AreSessions, SessionKept
  <2>3. AroundKnown
    <3>1. ASSUME Quiet, zone # Origin, ~unasked, NEW e \in DOMAIN Placed \ Mine,
                 Placed[e] \in GetInterestZones(zone)
          PROVE  e \in known
      <4>1. ZoneAnswer(zone) \subseteq known
        BY <2>0, <3>1 DEF Asked, Quiet
      <4>2. e \in ZoneAnswer(zone)
        BY <2>0, <3>1, AnswersSuffice DEF GroundTypes
      <4> QED
        BY <4>1, <4>2
    <3> QED
      BY <3>1 DEF AroundKnown
  <2> QED
    BY <2>0, <2>1, <2>2, <2>3 DEF EnginesSound
<1> QED
  BY <1>1, EnginesHold, PTL

-----------------------------------------------------------------------------
(* The templates.                                                          *)

\* An entry is called as it was loaded, or as the player whose body it made.
NamesKept ==
    /\ named \in [EntrySet -> Names]
    /\ \A d \in EntrySet : named[d] = EntryName[d] \/ \E o \in Owners : named[d] = DisplayName[o]

\* The members of a SpawnManager, no more and no less.
IsManager(m) ==
    m = [factory |-> m.factory, preCall |-> m.preCall, manager |-> m.manager,
         templates |-> m.templates, captured |-> m.captured, sourced |-> m.sourced,
         candidates |-> m.candidates, slots |-> m.slots, count |-> m.count]

Learned(m) ==
    /\ IsManager(m)
    /\ m.factory \in BOOLEAN /\ m.sourced \in BOOLEAN /\ m.manager \in Managers \cup {Nothing}
    /\ m.templates \in [Names -> EntrySet \cup {Nothing}] /\ m.captured \subseteq EntrySet
    /\ m.slots \in [ModSlots -> EntrySet \cup {Nothing}]

\* The first character teaches the manager, and the others are compared with it.
OneManager(m) ==
    /\ m.manager # Nothing \/ m.captured # {} => m.sourced
    /\ m.manager # Nothing => \A d \in m.captured : EntryManager[d] = m.manager

CandidatesKept(m) ==
    \A c \in m.candidates :
        /\ c.at \in DOMAIN Entries /\ c.name = EntryName[Entries[c.at]]
        /\ \E s \in ModSlots : c.name = SlotName[s]

SlotsKept(m) ==
    /\ m.count = Cardinality({s \in ModSlots : m.slots[s] # Nothing})
    /\ \A s \in ModSlots : m.slots[s] # Nothing => EntryName[m.slots[s]] = SlotName[s]

ManagerInv(m) == Learned(m) /\ OneManager(m) /\ CandidatesKept(m) /\ SlotsKept(m)

\* The choice is made as soon as there is one.
ChosenAtOnce(m) == m.count = 0 => m.candidates = {}

CharactersChosen(m, among) ==
    \A s \in ModSlots, d \in among :
        IsCharacter(d) /\ EntryName[d] = SlotName[s] => m.slots[s] = d

ScanKept ==
    /\ scan = [done |-> scan.done, attempts |-> scan.attempts, cooling |-> scan.cooling,
               reset |-> scan.reset]
    /\ scan.attempts \in 0 .. ScanLimit
    /\ ~scan.done => scan.attempts = 0

MadeRight ==
    /\ made.owner \in 1 .. sm.count /\ made.from \in EntrySet =>
         EntryName[made.from] = SlotName[made.owner]
    /\ made.by = "queue" /\ made.faction # made.born => made.born = "freed"

TemplatesInv ==
    NamesKept /\ ManagerInv(sm) /\ ChosenAtOnce(sm) /\ CharactersChosen(sm, offered) /\ ScanKept /\ MadeRight

\* In kenshi-online.mod a player's character has the highest id of the entries of his name.
CharactersOnTop ==
    \A d, e \in EntrySet, s \in ModSlots :
        IsCharacter(d) /\ EntryName[d] = SlotName[s] /\ EntryName[e] = SlotName[s] /\ e # d
            => EntryId[e] < EntryId[d]

LEMMA TemplateConstants ==
    /\ Entries \in Seq(EntrySet) /\ \A p \in Pointers : p \in Seq(EntrySet)
    /\ EntryName \in [EntrySet -> Names]
    /\ MaxId \in Nat /\ \A d \in EntrySet : EntryManager[d] \in Managers /\ EntryId[d] \in 0..MaxId
    /\ Nothing \notin EntrySet /\ Unlike \notin EntrySet /\ Nothing \notin Managers
    /\ IsFiniteSet(ModSlots) /\ ModSlots = 1..Cardinality(ModSlots) /\ Owners \subseteq Nat
    /\ Cardinality(ModSlots) \in Nat
    /\ ScanLimit \in Nat \ {0}
    /\ \A o \in Owners, s \in ModSlots : DisplayName[o] # SlotName[s]
  BY TemplatesAssumption, FS_CardinalityType

\* The first of some places is one of them.
LEMMA FirstOf ==
    ASSUME NEW I \in SUBSET Nat, I # {}
    PROVE  First(I) \in I
<1>1. \E i \in I : \A j \in I : i <= j
  BY LeastExists
<1> QED
  BY <1>1 DEF First

\* The best of some places is one of them with the highest id.
LEMMA BestOf ==
    ASSUME NEW I \in SUBSET DOMAIN Entries, I # {}
    PROVE  \E i \in I : /\ BestCandidate(I) = Entries[i]
                        /\ \A j \in I : EntryId[Entries[j]] <= EntryId[Entries[i]]
<1> DEFINE id(i) == EntryId[Entries[i]]
           Beats(i) == \A j \in I : id(j) < id(i) \/ (id(j) = id(i) /\ i <= j)
<1>1. I \subseteq Nat /\ MaxId \in Nat /\ \A i \in I : Entries[i] \in EntrySet /\ id(i) \in 0 .. MaxId
  <2>1. Entries \in Seq(EntrySet) /\ DOMAIN Entries \subseteq Nat
    BY TemplateConstants
  <2>2. \A i \in I : Entries[i] \in EntrySet
    BY <2>1
  <2> QED
    BY <2>1, <2>2, TemplateConstants
<1> HIDE DEF id
<1> DEFINE Lacks == {MaxId - id(i) : i \in I}
<1>2. PICK l \in Lacks : \A k \in Lacks : l <= k
  <2>1. Lacks \subseteq Nat /\ Lacks # {}
    BY <1>1
  <2> HIDE DEF Lacks
  <2> QED
    BY <2>1, LeastExists
<1> DEFINE Highest == {i \in I : MaxId - id(i) = l}
<1>3. PICK i \in Highest : \A j \in Highest : i <= j
  <2>1. Highest \subseteq Nat /\ Highest # {}
    BY <1>1, <1>2
  <2> HIDE DEF Highest
  <2> QED
    BY <2>1, LeastExists
<1>4. i \in I /\ MaxId - id(i) = l
  BY <1>3
<1>5. ASSUME NEW j \in I PROVE id(j) < id(i) \/ (id(j) = id(i) /\ i <= j)
  <2>1. l <= MaxId - id(j)
    BY <1>2
  <2>2. id(j) <= id(i) /\ id(i) \in Int /\ id(j) \in Int
    BY <1>1, <1>4, <2>1
  <2>3. CASE id(j) = id(i)
    <3>1. j \in Highest
      BY <1>4, <2>3
    <3> QED
      BY <1>3, <2>3, <3>1
  <2> QED
    BY <2>2, <2>3
<1>6. Beats(i)
  BY <1>5
<1> DEFINE best == CHOOSE k \in I : Beats(k)
<1>7. best \in I /\ Beats(best)
  BY <1>4, <1>6
<1>8. BestCandidate(I) = Entries[best]
  BY DEF BestCandidate, id
<1>9. \A j \in I : id(j) <= id(best)
  <2> HIDE DEF best
  <2>1. \A j \in I : id(j) < id(best) \/ id(j) = id(best)
    BY <1>7
  <2>2. id(best) \in Int /\ \A j \in I : id(j) \in Int
    BY <1>1, <1>7
  <2> QED
    BY <2>1, <2>2
<1> QED
  BY <1>7, <1>8, <1>9 DEF id

\* The name of an entry is one of the names, and a player's slot name only if it was loaded so.
LEMMA NamesMean ==
    ASSUME NamesKept, NEW d \in EntrySet
    PROVE  /\ named[d] \in Names
           /\ \A s \in ModSlots : named[d] = SlotName[s] => EntryName[d] = SlotName[s]
<1>1. \A o \in Owners, s \in ModSlots : DisplayName[o] # SlotName[s]
  BY TemplateConstants
<1> QED
  BY <1>1 DEF NamesKept

\* The factory and the request struct are noted beside the rest.
LEMMA NotedOnly ==
    ASSUME NEW m, ManagerInv(m)
    PROVE  /\ ManagerInv(SetFactory(m)) /\ ManagerInv(SetPreCallData(m))
           /\ \A x \in {SetFactory(m), SetPreCallData(m)} :
                x.slots = m.slots /\ x.count = m.count /\ x.candidates = m.candidates
<1>1. IsManager(m)
  BY DEF ManagerInv, Learned
<1>2. ASSUME NEW x, x = SetFactory(m) \/ x = SetPreCallData(m)
      PROVE  ManagerInv(x) /\ x.slots = m.slots /\ x.count = m.count /\ x.candidates = m.candidates
  <2>1. IsManager(x)
    <3>1. CASE x = [m EXCEPT !.factory = TRUE]
      BY <1>1, <3>1, Zenon DEF IsManager
    <3>2. CASE x = [m EXCEPT !.preCall = TRUE]
      BY <1>1, <3>2, Zenon DEF IsManager
    <3> QED
      BY <1>2, <3>1, <3>2 DEF SetFactory, SetPreCallData
  <2>2. /\ x.manager = m.manager /\ x.templates = m.templates
        /\ x.captured = m.captured /\ x.sourced = m.sourced /\ x.candidates = m.candidates
        /\ x.slots = m.slots /\ x.count = m.count
    BY <1>1, <1>2 DEF IsManager, SetFactory, SetPreCallData
  <2>3. x.factory = TRUE \/ x.factory = m.factory
    BY <1>1, <1>2 DEF IsManager, SetFactory, SetPreCallData
  <2>4. Learned(x)
    BY <2>1, <2>2, <2>3 DEF ManagerInv, Learned
  <2>5. OneManager(x) /\ CandidatesKept(x) /\ SlotsKept(x)
    BY <2>2 DEF ManagerInv, OneManager, CandidatesKept, SlotsKept
  <2> QED
    BY <2>2, <2>4, <2>5 DEF ManagerInv
<1> QED
  BY <1>2

\* What a character's pointers teach.
LEMMA CharacterTeaches ==
    ASSUME NamesKept, NEW m, ManagerInv(m), NEW p \in Pointers
    PROVE  /\ ManagerInv(OnGameCharacterCreated(m, p))
           /\ OnGameCharacterCreated(m, p).slots = m.slots
           /\ OnGameCharacterCreated(m, p).count = m.count
           /\ OnGameCharacterCreated(m, p).candidates = m.candidates
<1> DEFINE valid == {i \in DOMAIN p : ValidBackpointer(m, p[i])}
           d == p[First(valid)]
           x == OnGameCharacterCreated(m, p)
<1>1. CASE valid = {}
  <2>1. x = SetFactory(m)
    BY <1>1 DEF OnGameCharacterCreated
  <2> QED
    BY <2>1, NotedOnly
<1>2. CASE valid # {}
  <2>1. p \in Seq(EntrySet) /\ valid \subseteq DOMAIN p /\ DOMAIN p \subseteq Nat
    <3>1. p \in Seq(EntrySet)
      BY TemplateConstants
    <3> QED
      BY <3>1
  <2>2. First(valid) \in valid
    <3> HIDE DEF valid
    <3> QED
      BY <1>2, <2>1, FirstOf
  <2>3. d \in EntrySet /\ ValidBackpointer(m, d)
    BY <2>1, <2>2
  <2>4. x = [SetFactory(m) EXCEPT !.templates[named[d]] = d, !.captured = @ \cup {d}, !.sourced = TRUE,
                                  !.manager = IF m.sourced THEN @ ELSE EntryManager[d]]
    BY <1>2 DEF OnGameCharacterCreated
  <2> HIDE DEF d, valid, x
  <2>5. IsManager(m)
    BY DEF ManagerInv, Learned
  <2>6. IsManager(x)
    BY <2>4, <2>5 DEF IsManager, SetFactory
  <2>7. /\ x.factory = TRUE
        /\ x.manager = (IF m.sourced THEN m.manager ELSE EntryManager[d])
        /\ x.templates = [m.templates EXCEPT ![named[d]] = d] /\ x.captured = m.captured \cup {d}
        /\ x.sourced = TRUE /\ x.candidates = m.candidates /\ x.slots = m.slots /\ x.count = m.count
    BY <2>4, <2>5 DEF IsManager, SetFactory
  <2>8. Learned(x)
    <3>2. EntryManager[d] \in Managers /\ named[d] \in Names
      BY <2>3, NamesMean, TemplateConstants
    <3>3. x.templates \in [Names -> EntrySet \cup {Nothing}]
      BY <2>3, <2>7, <3>2 DEF ManagerInv, Learned
    <3>4. x.manager \in Managers \cup {Nothing}
      BY <2>7, <3>2 DEF ManagerInv, Learned
    <3> QED
      BY <2>3, <2>6, <2>7, <3>3, <3>4 DEF ManagerInv, Learned
  <2>9. OneManager(x)
    <3>1. CASE m.sourced
      BY <2>3, <2>7, <3>1 DEF ManagerInv, OneManager, ValidBackpointer
    <3>2. CASE ~m.sourced
      <4>1. m.captured = {}
        BY <3>2 DEF ManagerInv, OneManager
      <4> QED
        BY <2>7, <3>2, <4>1 DEF OneManager
    <3>3. m.sourced \in BOOLEAN
      BY DEF ManagerInv, Learned
    <3> QED
      BY <3>1, <3>2
  <2>10. CandidatesKept(x) /\ SlotsKept(x)
    BY <2>7 DEF ManagerInv, CandidatesKept, SlotsKept
  <2> QED
    BY <2>7, <2>8, <2>9, <2>10 DEF ManagerInv, x
<1> QED
  BY <1>1, <1>2

\* The entries a scan met become templates and candidates.
LEMMA ScanRecords ==
    ASSUME NamesKept, NEW m, ManagerInv(m), NEW seen \in SUBSET DOMAIN Entries,
           NEW x \in {Record(m, seen), SetFallback(Record(m, seen))}
    PROVE  ManagerInv(x) /\ x.slots = m.slots /\ x.count = m.count
<1> DEFINE players == {i \in seen : \E s \in ModSlots : named[Entries[i]] = SlotName[s]}
           news == {[name |-> named[Entries[i]], at |-> i] : i \in players}
           tpl == [n \in Names |-> IF m.templates[n] # Nothing THEN m.templates[n] ELSE FirstNamed(seen, n)]
           r == Record(m, seen)
<1>1. IsManager(m)
  BY DEF ManagerInv, Learned
<1>2. r = [m EXCEPT !.templates = [n \in Names |-> IF @[n] # Nothing THEN @[n] ELSE FirstNamed(seen, n)],
                    !.candidates = @ \cup news]
  BY DEF Record
<1>3. \A i \in seen : Entries[i] \in EntrySet /\ i \in Nat
  <2>1. Entries \in Seq(EntrySet)
    BY TemplateConstants
  <2> QED
    BY <2>1
<1>4. \A n \in Names : FirstNamed(seen, n) \in EntrySet \cup {Nothing}
  <2>1. ASSUME NEW n \in Names PROVE FirstNamed(seen, n) \in EntrySet \cup {Nothing}
    <3> DEFINE hits == {i \in seen : named[Entries[i]] = n}
    <3>1. FirstNamed(seen, n) = IF hits = {} THEN Nothing ELSE Entries[First(hits)]
      BY DEF FirstNamed
    <3>2. hits \subseteq Nat /\ hits \subseteq seen
      BY <1>3
    <3> HIDE DEF hits
    <3>3. hits # {} => Entries[First(hits)] \in EntrySet
      BY <1>3, <3>2, FirstOf
    <3> QED
      BY <3>1, <3>3
  <2> QED
    BY <2>1
<1>5. /\ r.templates = tpl /\ r.candidates = m.candidates \cup news /\ r.factory = m.factory
      /\ r.manager = m.manager /\ r.captured = m.captured /\ r.sourced = m.sourced
      /\ r.slots = m.slots /\ r.count = m.count
  <2> HIDE DEF news, r
  <2> QED
    BY <1>1, <1>2 DEF IsManager
<1>6. IsManager(r)
  <2> HIDE DEF news, r
  <2> QED
    BY <1>1, <1>2 DEF IsManager
<1>7. r.templates \in [Names -> EntrySet \cup {Nothing}]
  <2>1. m.templates \in [Names -> EntrySet \cup {Nothing}]
    BY DEF ManagerInv, Learned
  <2>2. tpl \in [Names -> EntrySet \cup {Nothing}]
    BY <1>4, <2>1
  <2> QED
    BY <1>5, <2>2
<1>8. CandidatesKept(r)
  <2>1. ASSUME NEW i \in players
        PROVE  /\ i \in DOMAIN Entries /\ named[Entries[i]] = EntryName[Entries[i]]
               /\ \E s \in ModSlots : named[Entries[i]] = SlotName[s]
    BY <1>3, NamesMean
  <2>2. ASSUME NEW c \in news
        PROVE  /\ c.at \in DOMAIN Entries /\ c.name = EntryName[Entries[c.at]]
               /\ \E s \in ModSlots : c.name = SlotName[s]
    <3>1. PICK i \in players : c = [name |-> named[Entries[i]], at |-> i]
      OBVIOUS
    <3>2. c.name = named[Entries[i]] /\ c.at = i
      BY <3>1
    <3> QED
      BY <2>1, <3>2
  <2> HIDE DEF news
  <2> QED
    BY <1>5, <2>2 DEF CandidatesKept, ManagerInv
<1> HIDE DEF r, tpl, news
<1>9. ASSUME NEW y, IsManager(y), y.sourced \in {r.sourced, r.sourced \/ Known(r) # {}},
             y.templates = r.templates, y.candidates = r.candidates, y.factory = r.factory,
             y.manager = r.manager, y.captured = r.captured, y.slots = r.slots, y.count = r.count
      PROVE  ManagerInv(y) /\ y.slots = m.slots /\ y.count = m.count
  <2>1. y.sourced \in BOOLEAN /\ (m.sourced => y.sourced)
    BY <1>5, <1>9 DEF ManagerInv, Learned
  <2>2. Learned(y)
    BY <1>5, <1>7, <1>9, <2>1 DEF ManagerInv, Learned
  <2>3. OneManager(y)
    BY <1>5, <1>9, <2>1 DEF ManagerInv, OneManager
  <2>4. CandidatesKept(y)
    BY <1>8, <1>9 DEF CandidatesKept
  <2>5. SlotsKept(y)
    BY <1>5, <1>9 DEF ManagerInv, SlotsKept
  <2> QED
    BY <1>5, <1>9, <2>2, <2>3, <2>4, <2>5 DEF ManagerInv
<1>10. CASE x = r
  BY <1>6, <1>9, <1>10
<1>11. CASE x = SetFallback(r)
  <2>1. x = [r EXCEPT !.sourced = r.sourced \/ Known(r) # {}]
    BY <1>11 DEF SetFallback
  <2>2. IsManager(x)
    BY <1>6, <2>1, Zenon DEF IsManager
  <2>3. /\ x.sourced = (r.sourced \/ Known(r) # {})
        /\ x.templates = r.templates /\ x.candidates = r.candidates /\ x.factory = r.factory
        /\ x.manager = r.manager /\ x.captured = r.captured /\ x.slots = r.slots /\ x.count = r.count
    BY <1>6, <2>1 DEF IsManager
  <2> QED
    BY <1>9, <2>2, <2>3
<1> QED
  BY <1>10, <1>11 DEF r

\* The choice among the candidates.
LEMMA SlotsChosen ==
    ASSUME NEW m, ManagerInv(m), NEW x, x = FindModTemplates(m)
    PROVE  /\ ManagerInv(x) /\ ChosenAtOnce(x) /\ x.candidates = m.candidates
           /\ m.count > 0 \/ x.count = 0 => x.slots = m.slots /\ x.count = m.count
           /\ CharactersOnTop /\ m.count = 0 /\ x.count > 0
                => CharactersChosen(x, {Entries[c.at] : c \in m.candidates})
<1>0. m.count \in Nat
  <2>1. IsFiniteSet({s \in ModSlots : m.slots[s] # Nothing})
    BY TemplateConstants, FS_Subset
  <2> QED
    BY <2>1, FS_CardinalityType DEF ManagerInv, SlotsKept
<1>1. CASE m.count > 0
  <2>1. x = m
    BY <1>1 DEF FindModTemplates
  <2> QED
    BY <1>0, <1>1, <2>1 DEF ChosenAtOnce
<1>2. CASE m.candidates = {} /\ ~(m.count > 0)
  <2>1. x = m
    BY <1>2 DEF FindModTemplates
  <2> QED
    BY <1>0, <1>2, <2>1 DEF ChosenAtOnce
<1>3. CASE m.candidates # {} /\ ~(m.count > 0)
  <2> DEFINE of(s) == {c.at : c \in {z \in m.candidates : z.name = SlotName[s]}}
             chosen == [s \in ModSlots |-> BestCandidate(of(s))]
             full == {s \in ModSlots : chosen[s] # Nothing}
  <2>1. x = [m EXCEPT !.slots = chosen, !.count = Cardinality(full)]
    BY <1>3 DEF FindModTemplates
  <2>2. \A s \in ModSlots : of(s) \subseteq DOMAIN Entries
    BY DEF ManagerInv, CandidatesKept
  <2>3. ASSUME NEW s \in ModSlots, NEW i \in of(s) PROVE EntryName[Entries[i]] = SlotName[s]
    BY DEF ManagerInv, CandidatesKept
  <2>4. ASSUME NEW c \in m.candidates, NEW s \in ModSlots, EntryName[Entries[c.at]] = SlotName[s]
        PROVE  c.at \in of(s)
    BY <2>4 DEF ManagerInv, CandidatesKept
  <2> HIDE DEF of
  <2>5. ASSUME NEW s \in ModSlots, of(s) # {}
        PROVE  /\ \E i \in of(s) : /\ BestCandidate(of(s)) = Entries[i]
                                   /\ \A j \in of(s) : EntryId[Entries[j]] <= EntryId[Entries[i]]
               /\ BestCandidate(of(s)) \in EntrySet
               /\ EntryName[BestCandidate(of(s))] = SlotName[s]
    <3>1. PICK i \in of(s) : /\ BestCandidate(of(s)) = Entries[i]
                             /\ \A j \in of(s) : EntryId[Entries[j]] <= EntryId[Entries[i]]
      BY <2>2, <2>5, BestOf
    <3>2. i \in DOMAIN Entries /\ EntryName[Entries[i]] = SlotName[s]
      BY <2>2, <2>3, <3>1
    <3>3. Entries[i] \in EntrySet
      BY <3>2 DEF EntrySet
    <3> QED
      BY <3>1, <3>2, <3>3
  <2>6. ASSUME NEW s \in ModSlots, of(s) = {} PROVE BestCandidate(of(s)) = Nothing
    BY <2>6 DEF BestCandidate
  <2>7. chosen \in [ModSlots -> EntrySet \cup {Nothing}]
    BY <2>5, <2>6
  <2>8. \A s \in ModSlots : /\ chosen[s] = BestCandidate(of(s))
                            /\ chosen[s] # Nothing <=> of(s) # {}
    BY <2>5, <2>6, TemplateConstants
  <2> HIDE DEF chosen
  <2>9. /\ x.slots = chosen /\ x.count = Cardinality(full) /\ x.candidates = m.candidates
        /\ x.templates = m.templates /\ x.factory = m.factory /\ x.manager = m.manager
        /\ x.captured = m.captured /\ x.sourced = m.sourced /\ IsManager(x)
    <3>1. IsManager(m)
      BY DEF ManagerInv, Learned
    <3> HIDE DEF full
    <3>2. IsManager(x)
      BY <2>1, <3>1, Zenon DEF IsManager
    <3> QED
      BY <2>1, <3>1, <3>2 DEF IsManager
  <2>10. full # {}
    <3>1. PICK c \in m.candidates : TRUE
      BY <1>3
    <3>2. PICK s \in ModSlots : c.name = SlotName[s]
      BY DEF ManagerInv, CandidatesKept
    <3>3. c.at \in of(s)
      BY <2>4, <3>2 DEF ManagerInv, CandidatesKept
    <3> QED
      BY <2>8, <3>3
  <2>11. IsFiniteSet(full) /\ Cardinality(full) \in Nat
    BY TemplateConstants, FS_Subset, FS_CardinalityType
  <2>12. x.count > 0
    <3>1. Cardinality(full) # 0
      BY <2>10, <2>11, FS_EmptySet
    <3> QED
      BY <2>9, <2>11, <3>1
  <2>13. ManagerInv(x)
    <3>1. Learned(x)
      BY <2>7, <2>9 DEF ManagerInv, Learned
    <3>2. OneManager(x) /\ CandidatesKept(x)
      BY <2>9 DEF ManagerInv, OneManager, CandidatesKept
    <3>3. SlotsKept(x)
      BY <2>5, <2>8, <2>9 DEF SlotsKept
    <3> QED
      BY <3>1, <3>2, <3>3 DEF ManagerInv
  <2>14. ASSUME CharactersOnTop, NEW s \in ModSlots, NEW c \in m.candidates,
                IsCharacter(Entries[c.at]), EntryName[Entries[c.at]] = SlotName[s]
         PROVE  x.slots[s] = Entries[c.at]
    <3>1. c.at \in of(s)
      BY <2>4, <2>14
    <3>2. PICK i \in of(s) : /\ BestCandidate(of(s)) = Entries[i]
                             /\ \A j \in of(s) : EntryId[Entries[j]] <= EntryId[Entries[i]]
      BY <2>5, <3>1
    <3>3. EntryId[Entries[c.at]] <= EntryId[Entries[i]] /\ EntryName[Entries[i]] = SlotName[s]
      BY <2>3, <3>1, <3>2
    <3>4. Entries[c.at] \in EntrySet /\ Entries[i] \in EntrySet
      BY <2>2, <3>1, <3>2 DEF EntrySet
    <3>5. EntryId[Entries[c.at]] \in Nat /\ EntryId[Entries[i]] \in Nat
      BY <3>4, TemplateConstants
    <3>6. Entries[i] # Entries[c.at] => EntryId[Entries[i]] < EntryId[Entries[c.at]]
      BY <2>14, <3>3, <3>4 DEF CharactersOnTop
    <3>7. Entries[i] = Entries[c.at]
      BY <3>3, <3>5, <3>6
    <3> QED
      BY <2>8, <2>9, <3>2, <3>7
  <2>15. CharactersOnTop => CharactersChosen(x, {Entries[c.at] : c \in m.candidates})
    BY <2>14 DEF CharactersChosen
  <2> QED
    BY <1>3, <2>9, <2>12, <2>13, <2>15 DEF ChosenAtOnce
<1> QED
  BY <1>1, <1>2, <1>3

\* A search keeps what is known, and chooses once.
LEMMA SearchKeeps ==
    ASSUME NamesKept, ManagerInv(sm), ChosenAtOnce(sm), CharactersChosen(sm, offered), CharactersOnTop,
           NEW x \in Searched(sm), Offer(sm, x)
    PROVE  ManagerInv(x) /\ ChosenAtOnce(x) /\ CharactersChosen(x, offered')
<1>1. PICK k \in ScanGameDataHeap(sm) : x = FindModTemplates(k)
  BY DEF Searched
<1>2. ManagerInv(k) /\ k.slots = sm.slots /\ k.count = sm.count
  <2>1. CASE k = sm
    BY <2>1
  <2>2. CASE k # sm
    <3>1. PICK g \in GameDataManagers(sm) :
             k \in IF g = Nothing THEN {sm}
                   ELSE UNION {{SetFallback(Record(sm, seen)), Record(sm, seen)} : seen \in SUBSET Matches(g)}
      BY <1>1 DEF ScanGameDataHeap
    <3>2. PICK seen \in SUBSET Matches(g) : k \in {SetFallback(Record(sm, seen)), Record(sm, seen)}
      BY <2>2, <3>1
    <3>3. seen \in SUBSET DOMAIN Entries
      BY <3>2 DEF Matches
    <3> QED
      BY <3>2, <3>3, ScanRecords
  <2> QED
    BY <2>1, <2>2
<1>3. /\ ManagerInv(x) /\ ChosenAtOnce(x) /\ x.candidates = k.candidates
      /\ k.count > 0 \/ x.count = 0 => x.slots = k.slots /\ x.count = k.count
      /\ k.count = 0 /\ x.count > 0 => CharactersChosen(x, {Entries[c.at] : c \in k.candidates})
  BY <1>1, <1>2, SlotsChosen
<1>4. sm.count \in Nat /\ x.count \in Nat
  <2>1. ASSUME NEW m, ManagerInv(m) PROVE m.count \in Nat
    <3>1. IsFiniteSet({s \in ModSlots : m.slots[s] # Nothing})
      BY TemplateConstants, FS_Subset
    <3> QED
      BY <2>1, <3>1, FS_CardinalityType DEF ManagerInv, SlotsKept
  <2> QED
    BY <1>3, <2>1
<1>5. CASE sm.count = 0 /\ x.count > 0
  <2>1. offered' = {Entries[c.at] : c \in k.candidates}
    BY <1>3, <1>5 DEF Offer
  <2> QED
    BY <1>2, <1>3, <1>5, <2>1
<1>6. CASE ~(sm.count = 0 /\ x.count > 0)
  <2>1. offered' = offered /\ x.slots = sm.slots
    BY <1>2, <1>3, <1>4, <1>6 DEF Offer
  <2> QED
    BY <1>3, <2>1 DEF CharactersChosen
<1> QED
  BY <1>5, <1>6

\* Slots are there up to the number of templates.
LEMMA SlotOfOwner ==
    ASSUME NEW m, ManagerInv(m), NEW o \in 1 .. m.count
    PROVE  SlotFor(m, o) = o /\ o \in ModSlots
<1>1. m.count \in Nat /\ m.count <= Cardinality(ModSlots)
  <2> DEFINE S == {s \in ModSlots : m.slots[s] # Nothing}
  <2>1. IsFiniteSet(S) /\ Cardinality(S) <= Cardinality(ModSlots)
    BY TemplateConstants, FS_Subset
  <2>2. Cardinality(S) \in Nat
    BY <2>1, FS_CardinalityType
  <2>3. m.count = Cardinality(S)
    BY DEF ManagerInv, SlotsKept
  <2> QED
    BY <2>1, <2>2, <2>3
<1>2. o \in 1 .. Cardinality(ModSlots)
  BY <1>1, TemplateConstants
<1>3. (o - 1) % m.count = o - 1
  BY <1>1
<1> QED
  BY <1>1, <1>2, <1>3, TemplateConstants DEF SlotFor

\* A body from an entry is made from the template of its owner's slot.
LEMMA FromItsSlot ==
    ASSUME NEW m, ManagerInv(m), NEW o, NEW d \in Results(m, o), d \in EntrySet, o \in 1 .. m.count
    PROVE  EntryName[d] = SlotName[o]
<1>1. d # Unlike /\ d # Nothing
  BY TemplateConstants
<1>2. d \in DirectResults(m, o)
  BY <1>1 DEF Results, RandomResults
<1>3. d = m.slots[SlotFor(m, o)]
  BY <1>1, <1>2 DEF DirectResults
<1>4. d = m.slots[o] /\ o \in ModSlots
  BY <1>3, SlotOfOwner
<1> QED
  BY <1>1, <1>4 DEF ManagerInv, SlotsKept

\* Only an entry's name is written, and a player's.
LEMMA NameWritten ==
    ASSUME NamesKept, NEW d \in EntrySet, NEW o \in Owners, WriteName(d, o)
    PROVE  NamesKept'
<1>1. named' = [named EXCEPT ![d] = DisplayName[o]] /\ named \in [EntrySet -> Names]
  BY DEF WriteName, NamesKept
<1>2. DisplayName[o] \in Names
  BY DEF Names
<1>3. named' \in [EntrySet -> Names]
  BY <1>1, <1>2
<1>4. \A e \in EntrySet : named'[e] = IF e = d THEN DisplayName[o] ELSE named[e]
  BY <1>1
<1> QED
  BY <1>3, <1>4 DEF NamesKept

\* A request served.
LEMMA BodyMade ==
    ASSUME NamesKept, made = NoBody, ManagerInv(sm'), NEW o \in Owners, Spawn(sm', o)
    PROVE  NamesKept' /\ MadeRight'
<1>1. PICK d \in Results(sm', o) :
        \/ d = Nothing /\ UNCHANGED <<named, made>>
        \/ d = Unlike /\ made' \in QueueBodies(o, d) /\ UNCHANGED named
        \/ d \in EntrySet /\ made' \in QueueBodies(o, d) /\ (WriteName(d, o) \/ UNCHANGED named)
  BY DEF Spawn
<1>2. NamesKept'
  <2>1. ASSUME UNCHANGED named PROVE NamesKept'
    BY <2>1 DEF NamesKept
  <2> QED
    BY <1>1, <2>1, NameWritten
<1>3. ASSUME UNCHANGED made PROVE MadeRight'
  BY <1>3, TemplateConstants DEF MadeRight, NoBody
<1>4. ASSUME made' \in QueueBodies(o, d), d = Unlike \/ d \in EntrySet PROVE MadeRight'
  <2>1. PICK f \in Factions(d), r \in FixUps :
          made' = [owner |-> o, from |-> d, by |-> "queue", born |-> f,
                   faction |-> IF d = Unlike THEN FixUpFaction(f, r) ELSE f]
    BY <1>4 DEF QueueBodies
  <2>2. /\ made'.owner = o /\ made'.from = d /\ made'.born = f
        /\ made'.faction = IF d = Unlike THEN FixUpFaction(f, r) ELSE f
    BY <2>1
  <2>3. made'.faction # made'.born => made'.born = "freed"
    BY <2>2 DEF FixUpFaction
  <2>4. o \in 1 .. sm.count' /\ d \in EntrySet => EntryName[d] = SlotName[o]
    <3>1. \A m : m = sm' /\ o \in 1 .. m.count /\ d \in EntrySet => EntryName[d] = SlotName[o]
      BY FromItsSlot
    <3> QED
      BY <3>1
  <2> QED
    BY <2>2, <2>3, <2>4 DEF MadeRight
<1> QED
  BY <1>1, <1>2, <1>3, <1>4

\* A body made by command.
LEMMA CommandedBody ==
    ASSUME ManagerInv(sm), NEW o \in Owners, ForceSpawn(o)
    PROVE  MadeRight'
<1>1. PICK d \in Results(sm, o) \ {Nothing} :
        \E f \in Factions(d), r \in Forced :
            made' = [owner |-> o, from |-> d, by |-> "command", born |-> f,
                     faction |-> IF r = "none" THEN f ELSE r]
  BY DEF ForceSpawn
<1>2. made'.owner = o /\ made'.from = d /\ made'.by = "command"
  BY <1>1
<1>3. o \in 1 .. sm.count /\ d \in EntrySet => EntryName[d] = SlotName[o]
  BY FromItsSlot
<1>4. sm' = sm
  BY DEF ForceSpawn
<1> QED
  BY <1>2, <1>3, <1>4 DEF MadeRight

\* The statics of HandleSpawnQueue over a tick.
LEMMA ScanTick ==
    ASSUME ScanKept, NEW s, s = Refreshed,
           \/ scan' = s
           \/ /\ NeedsScan(s, sm)
              /\ scan' = [s EXCEPT !.done = TRUE, !.attempts = @ + 1, !.cooling = TRUE]
    PROVE  ScanKept'
<1> DEFINE IsScan(x) == x = [done |-> x.done, attempts |-> x.attempts, cooling |-> x.cooling,
                             reset |-> x.reset]
           fresh == [done |-> FALSE, attempts |-> 0, cooling |-> FALSE, reset |-> FALSE]
           Kept(x) == IsScan(x) /\ x.attempts \in 0 .. ScanLimit /\ (~x.done => x.attempts = 0)
<1>1. ScanLimit \in Nat \ {0}
  BY TemplateConstants
<1>2. Kept(fresh)
  BY <1>1
<1>3. Kept(s)
  <2>1. s = fresh \/ s = scan
    BY DEF Refreshed
  <2> HIDE DEF fresh
  <2> QED
    BY <1>2, <2>1 DEF ScanKept
<1>4. CASE scan' = s
  BY <1>3, <1>4 DEF ScanKept
<1>5. CASE /\ NeedsScan(s, sm)
           /\ scan' = [s EXCEPT !.done = TRUE, !.attempts = @ + 1, !.cooling = TRUE]
  <2>1. s.attempts < ScanLimit
    BY <1>1, <1>3, <1>5 DEF NeedsScan
  <2>2. IsScan(scan')
    BY <1>3, <1>5
  <2>3. scan'.done = TRUE /\ scan'.attempts = s.attempts + 1
    BY <1>3, <1>5
  <2> QED
    BY <1>1, <1>3, <2>1, <2>2, <2>3 DEF ScanKept
<1> QED
  BY <1>4, <1>5

\* What only one part of the state can disturb.
LEMMA TemplatesUndisturbed ==
    ASSUME TemplatesInv
    PROVE  /\ UNCHANGED named => NamesKept'
           /\ UNCHANGED scan => ScanKept'
           /\ UNCHANGED sm => ManagerInv(sm') /\ ChosenAtOnce(sm')
           /\ UNCHANGED <<sm, offered>> => CharactersChosen(sm', offered')
           /\ made' = NoBody => MadeRight'
           /\ UNCHANGED <<sm, made>> => MadeRight'
<1>1. UNCHANGED named => NamesKept'
  BY DEF TemplatesInv, NamesKept
<1>2. UNCHANGED scan => ScanKept'
  BY DEF TemplatesInv, ScanKept
<1>3. UNCHANGED sm => ManagerInv(sm') /\ ChosenAtOnce(sm')
  BY DEF TemplatesInv
<1>4. UNCHANGED <<sm, offered>> => CharactersChosen(sm', offered')
  BY DEF TemplatesInv
<1>5. made' = NoBody => MadeRight'
  BY TemplateConstants DEF MadeRight, NoBody
<1>6. UNCHANGED <<sm, made>> => MadeRight'
  BY DEF TemplatesInv, MadeRight
<1> QED
  BY <1>1, <1>2, <1>3, <1>4, <1>5, <1>6

\* Characters the game creates.
LEMMA CharactersCreated ==
    ASSUME TemplatesInv, made = NoBody,
           LoadingCreate \/ \E p \in Pointers : IdleCreate(p) \/ ConnectedCreate(p)
    PROVE  TemplatesInv'
<1>0. UNCHANGED <<named, offered, scan, made>>
  BY DEF LoadingCreate, IdleCreate, ConnectedCreate
<1> DEFINE Taught(x) == ManagerInv(x) /\ x.slots = sm.slots /\ x.count = sm.count
                          /\ x.candidates = sm.candidates
<1>1. ManagerInv(sm) /\ NamesKept
  BY DEF TemplatesInv
<1>2. ASSUME NEW x, Taught(x) PROVE Taught(SetFactory(x)) /\ Taught(SetPreCallData(x))
  BY <1>2, NotedOnly
<1>3. ASSUME NEW x, Taught(x), NEW p \in Pointers PROVE Taught(OnGameCharacterCreated(x, p))
  BY <1>1, <1>3, CharacterTeaches
<1>4. Taught(sm)
  BY <1>1
<1> HIDE DEF Taught
<1>5. Taught(SetPreCallData(sm)) /\ Taught(SetFactory(SetPreCallData(sm)))
  BY <1>2, <1>4
<1>6. Taught(sm')
  <2>1. CASE LoadingCreate
    BY <1>4, <1>5, <2>1 DEF LoadingCreate
  <2>2. ASSUME NEW p \in Pointers, IdleCreate(p) PROVE Taught(sm')
    BY <1>3, <1>5, <2>2 DEF IdleCreate
  <2>3. ASSUME NEW p \in Pointers, ConnectedCreate(p) PROVE Taught(sm')
    BY <1>3, <1>5, <2>3 DEF ConnectedCreate
  <2> QED
    BY <2>1, <2>2, <2>3
<1>7. ManagerInv(sm') /\ ChosenAtOnce(sm') /\ CharactersChosen(sm', offered')
  BY <1>0, <1>6 DEF Taught, TemplatesInv, ChosenAtOnce, CharactersChosen
<1> QED
  BY <1>0, <1>7, TemplatesUndisturbed DEF TemplatesInv

\* The end of loading, and connections.
LEMMA LoadingAndLinks ==
    ASSUME TemplatesInv, made = NoBody, CharactersOnTop,
           ScanAtLoad \/ OnConnect \/ OnDisconnect \/ CooldownEnds
    PROVE  TemplatesInv'
<1>0. UNCHANGED <<named, made>>
  BY DEF ScanAtLoad, OnConnect, OnDisconnect, CooldownEnds
<1>1. ManagerInv(sm') /\ ChosenAtOnce(sm') /\ CharactersChosen(sm', offered')
  <2>1. CASE UNCHANGED <<sm, offered>>
    BY <2>1, TemplatesUndisturbed
  <2>2. CASE ScanAtLoad
    <3>1. sm' = sm \/ sm' \in Searched(sm)
      BY <2>2 DEF ScanAtLoad
    <3>2. Offer(sm, sm')
      BY <2>2 DEF ScanAtLoad
    <3>3. CASE sm' = sm
      BY <2>1, <3>2, <3>3 DEF Offer
    <3>4. CASE sm' \in Searched(sm)
      <4>1. \A x : x \in Searched(sm) /\ Offer(sm, x)
                     => ManagerInv(x) /\ ChosenAtOnce(x) /\ CharactersChosen(x, offered')
        BY SearchKeeps DEF TemplatesInv
      <4> QED
        BY <3>2, <3>4, <4>1
    <3> QED
      BY <3>1, <3>3, <3>4
  <2> QED
    BY <2>1, <2>2 DEF OnConnect, OnDisconnect, CooldownEnds
<1>2. ScanKept'
  <2>1. CASE UNCHANGED scan
    BY <2>1, TemplatesUndisturbed
  <2>2. ASSUME scan' = [scan EXCEPT !.reset = TRUE] \/ scan' = [scan EXCEPT !.cooling = FALSE]
        PROVE  ScanKept'
    <3>1. ScanKept
      BY DEF TemplatesInv
    <3>2. scan' = [done |-> scan'.done, attempts |-> scan'.attempts, cooling |-> scan'.cooling,
                   reset |-> scan'.reset]
      <4>1. CASE scan' = [scan EXCEPT !.reset = TRUE]
        BY <3>1, <4>1, Zenon DEF ScanKept
      <4>2. CASE scan' = [scan EXCEPT !.cooling = FALSE]
        BY <3>1, <4>2, Zenon DEF ScanKept
      <4> QED
        BY <2>2, <4>1, <4>2
    <3>3. scan'.done = scan.done /\ scan'.attempts = scan.attempts
      BY <2>2, <3>1 DEF ScanKept
    <3> QED
      BY <3>1, <3>2, <3>3 DEF ScanKept
  <2> QED
    BY <2>1, <2>2 DEF ScanAtLoad, OnConnect, OnDisconnect, CooldownEnds
<1> QED
  BY <1>0, <1>1, <1>2, TemplatesUndisturbed DEF TemplatesInv

\* A tick of the queue.
LEMMA QueueTick ==
    ASSUME TemplatesInv, made = NoBody, CharactersOnTop, HandleSpawnQueue(Owners)
    PROVE  TemplatesInv'
<1> DEFINE s == Refreshed
           scans == /\ NeedsScan(s, sm) /\ sm.factory /\ ~s.cooling
                    /\ sm.manager # Nothing \/ Cardinality(Known(sm)) < FewTemplates
<1>1. /\ scan' = IF scans THEN [s EXCEPT !.done = TRUE, !.attempts = @ + 1, !.cooling = TRUE] ELSE s
      /\ sm' \in IF scans THEN Searched(sm) ELSE {sm}
      /\ Offer(sm, sm')
      /\ \/ UNCHANGED <<named, made>>
         \/ \E o \in Owners : Spawn(sm', o)
  BY DEF HandleSpawnQueue
<1>2. ManagerInv(sm') /\ ChosenAtOnce(sm') /\ CharactersChosen(sm', offered')
  <2>1. CASE sm' = sm
    <3>1. offered' = offered
      BY <1>1, <2>1 DEF Offer
    <3> QED
      BY <2>1, <3>1, TemplatesUndisturbed
  <2>2. CASE sm' \in Searched(sm)
    <3>1. \A x : x \in Searched(sm) /\ Offer(sm, x)
                   => ManagerInv(x) /\ ChosenAtOnce(x) /\ CharactersChosen(x, offered')
      BY SearchKeeps DEF TemplatesInv
    <3> QED
      BY <1>1, <2>2, <3>1
  <2> QED
    BY <1>1, <2>1, <2>2
<1>3. ScanKept'
  <2>1. \/ scan' = s
        \/ /\ NeedsScan(s, sm)
           /\ scan' = [s EXCEPT !.done = TRUE, !.attempts = @ + 1, !.cooling = TRUE]
    BY <1>1
  <2> HIDE DEF s
  <2> QED
    BY <2>1, ScanTick DEF TemplatesInv, s
<1>4. NamesKept' /\ MadeRight'
  <2>1. CASE UNCHANGED <<named, made>>
    BY <2>1, TemplatesUndisturbed
  <2>2. CASE \E o \in Owners : Spawn(sm', o)
    BY <1>2, <2>2, BodyMade DEF TemplatesInv
  <2> QED
    BY <1>1, <2>1, <2>2
<1> QED
  BY <1>2, <1>3, <1>4 DEF TemplatesInv

LEMMA TemplatesStart == StInit => TemplatesInv
<1> SUFFICES ASSUME StInit PROVE TemplatesInv
  OBVIOUS
<1> DEFINE fresh == [factory |-> FALSE, preCall |-> FALSE, manager |-> Nothing,
                     templates |-> [n \in Names |-> Nothing], captured |-> {}, sourced |-> FALSE,
                     candidates |-> {}, slots |-> [s \in ModSlots |-> Nothing], count |-> 0]
<1>1. sm = fresh /\ named = EntryName /\ offered = {} /\ made = NoBody
      /\ scan = [done |-> FALSE, attempts |-> 0, cooling |-> FALSE, reset |-> FALSE]
  BY DEF StInit
<1>2. /\ fresh.factory = FALSE /\ fresh.preCall = FALSE /\ fresh.manager = Nothing
      /\ fresh.templates = [n \in Names |-> Nothing] /\ fresh.captured = {} /\ fresh.sourced = FALSE
      /\ fresh.candidates = {} /\ fresh.slots = [s \in ModSlots |-> Nothing] /\ fresh.count = 0
  OBVIOUS
<1>3. IsManager(fresh)
  BY <1>2 DEF IsManager
<1> HIDE DEF fresh
<1>4. Learned(sm) /\ OneManager(sm) /\ CandidatesKept(sm)
  BY <1>1, <1>2, <1>3 DEF Learned, OneManager, CandidatesKept
<1>5. SlotsKept(sm)
  <2>1. {s \in ModSlots : sm.slots[s] # Nothing} = {}
    BY <1>1, <1>2
  <2> QED
    BY <1>1, <1>2, <2>1, FS_EmptySet DEF SlotsKept
<1>6. NamesKept
  BY <1>1, TemplateConstants DEF NamesKept
<1>7. ChosenAtOnce(sm) /\ CharactersChosen(sm, offered)
  BY <1>1, <1>2 DEF ChosenAtOnce, CharactersChosen
<1>8. ScanKept
  BY <1>1, TemplateConstants DEF ScanKept
<1>9. MadeRight
  BY <1>1, TemplateConstants DEF MadeRight, NoBody
<1> QED
  BY <1>4, <1>5, <1>6, <1>7, <1>8, <1>9 DEF TemplatesInv, ManagerInv

LEMMA TemplatesStep ==
    ASSUME CharactersOnTop, TemplatesInv, [StNext]_stVars PROVE TemplatesInv'
<1>1. CASE UNCHANGED stVars
  BY <1>1, TemplatesUndisturbed DEF stVars, TemplatesInv
<1>2. CASE BodyLinked
  BY <1>2, TemplatesUndisturbed DEF BodyLinked, TemplatesInv
<1>3. ASSUME NEW o \in Owners, NEW d \in EntrySet, LinkSavedCharacter(o, d) PROVE TemplatesInv'
  <2>1. NamesKept'
    BY <1>3, NameWritten DEF LinkSavedCharacter, TemplatesInv
  <2> QED
    BY <1>3, <2>1, TemplatesUndisturbed DEF LinkSavedCharacter, TemplatesInv
<1>4. ASSUME NEW o \in Owners, ForceSpawn(o) PROVE TemplatesInv'
  <2>1. MadeRight'
    BY <1>4, CommandedBody DEF TemplatesInv
  <2> QED
    BY <1>4, <2>1, TemplatesUndisturbed DEF ForceSpawn, TemplatesInv
<1>5. ASSUME made = NoBody,
             \/ LoadingCreate
             \/ \E p \in Pointers : IdleCreate(p) \/ ConnectedCreate(p)
             \/ ScanAtLoad \/ OnConnect \/ OnDisconnect \/ CooldownEnds
             \/ HandleSpawnQueue(Owners)
      PROVE  TemplatesInv'
  BY <1>5, CharactersCreated, LoadingAndLinks, QueueTick
<1> QED
  BY <1>1, <1>2, <1>3, <1>4, <1>5 DEF StNext

\* What the invariant says of bodies and types.
LEMMA TemplatesSuffice == TemplatesInv => StTypeOK /\ TemplatesRight
<1> SUFFICES ASSUME TemplatesInv PROVE StTypeOK /\ TemplatesRight
  OBVIOUS
<1>1. sm.count \in 0 .. Cardinality(ModSlots)
  <2> DEFINE S == {s \in ModSlots : sm.slots[s] # Nothing}
  <2>1. IsFiniteSet(S) /\ Cardinality(S) <= Cardinality(ModSlots)
    BY TemplateConstants, FS_Subset
  <2>2. Cardinality(S) \in Nat
    BY <2>1, FS_CardinalityType
  <2>3. sm.count = Cardinality(S)
    BY DEF TemplatesInv, ManagerInv, SlotsKept
  <2> QED
    BY <2>1, <2>2, <2>3, TemplateConstants
<1>2. StTypeOK
  BY <1>1 DEF TemplatesInv, ManagerInv, Learned, NamesKept, ScanKept, StTypeOK
<1>3. TemplatesRight
  BY DEF TemplatesInv, ManagerInv, SlotsKept, OneManager, CharactersChosen, MadeRight, TemplatesRight
<1> QED
  BY <1>2, <1>3

\* Whatever heaps, characters and scans there are, and however renames, links, reloads and
\* reconnects interleave, bodies come from the right templates: a player's character wins
\* over his other entries if it was seen at all, characters teach entries of one manager, a
\* player within the number of templates looks like himself, and no body of the queue loses
\* a live faction.
THEOREM TemplatesAreRight ==
    ASSUME CharactersOnTop
    PROVE  StInit /\ [][StNext]_stVars => [](StTypeOK /\ TemplatesRight)
<1>1. TemplatesInv /\ [StNext]_stVars => TemplatesInv'
  BY TemplatesStep
<1> QED
  BY <1>1, TemplatesStart, TemplatesSuffice, PTL

-----------------------------------------------------------------------------
(* All parts.                                                              *)

\* The stages and the teleport share the own character and the step of the tick.
JointInv == AskInv /\ PumpInv /\ MotionInv /\ TeleportInv

allVars == <<focus, vars, stVars, seVars, osVars, htVars>>

\* A teleport leaves the requests and timers to the stages.
LEMMA TeleportLeavesStages ==
    ASSUME AskInv, PumpInv, HtNext PROVE AskInv' /\ PumpInv'
<1>1. UNCHANGED idle
  BY DEF HtNext, PollLocalPositions, HandleHostTeleport, TeleportToNearestRemotePlayer, TeleportToNamed,
         OwnRegistered, Disconnected, WorldReloads, Handshake, HostAssignment, SpawnTold,
         SetHostSpawnPoint, HtTime, HtMotion, OwnMoves, PositionArrives, PositionLost, idle
<1>2. step' = step \/ {step, step'} \subseteq {"poll", "core"}
  BY DEF HtNext, PollLocalPositions, HandleHostTeleport, TeleportToNearestRemotePlayer, TeleportToNamed,
         OwnRegistered, Disconnected, WorldReloads, Handshake, HostAssignment, SpawnTold,
         SetHostSpawnPoint, HtTime, HtMotion, OwnMoves, PositionArrives, PositionLost
<1>3. UNCHANGED <<hand, packet, bodyOf, pending, dropped, waiting, heap, modFound>>
  BY <1>1 DEF idle, asks, pump
<1>4. AskInv'
  <2>1. AskTypes'
    BY <1>2, <1>3 DEF AskInv, AskTypes
  <2>2. NoRequestLost'
    BY <1>3 DEF AskInv, NoRequestLost
  <2> QED
    BY <2>1, <2>2 DEF AskInv
<1>5. PumpInv'
  BY <1>3 DEF PumpInv, PumpTypes, ScanGoesOn, ScanHonest, DirectLimited
<1> QED
  BY <1>4, <1>5

LEMMA JointStep ==
    ASSUME JointInv, [MCNext]_allVars PROVE JointInv'
<1> USE DEF JointInv
<1>1. ASSUME UNCHANGED htVars PROVE TeleportInv'
  BY <1>1 DEF htVars, TeleportInv, TeleportTypes, PointAges, NotedInTime, LandsOnce, TeleportSound
<1>2. ASSUME [OsNext]_osVars, UNCHANGED htVars PROVE JointInv'
  BY <1>1, <1>2, AskStep, PumpStep, MotionStep
<1>3. CASE HtNext
  BY <1>3, TeleportLeavesStages, TeleportStep, TeleportKeepsMotion
<1>4. \/ (OsNext \/ UNCHANGED osVars) /\ UNCHANGED htVars
      \/ HtNext
  BY DEF MCNext, allVars
<1> QED
  BY <1>2, <1>3, <1>4

LEMMA FocusedOn ==
    [MCNext]_allVars => [Next]_vars /\ [StNext]_stVars /\ [SeNext]_seVars
<1> SUFFICES ASSUME [MCNext]_allVars PROVE [Next]_vars /\ [StNext]_stVars /\ [SeNext]_seVars
  OBVIOUS
<1>1. Next \/ UNCHANGED vars
  BY DEF MCNext, allVars
<1>2. StNext \/ UNCHANGED stVars
  BY DEF MCNext, allVars
<1>3. SeNext \/ UNCHANGED seVars
  BY DEF MCNext, allVars
<1> QED
  BY <1>1, <1>2, <1>3

\* Whatever part a behaviour is about, the types of all parts hold, requests are not used
\* up, bodies come from the right templates, and the orchestrator's engines and stages and
\* the teleport agree with the server.
THEOREM BodiesAreRight ==
    ASSUME Radius \in {0, 1}, Grid \subseteq (-ZoneMax .. ZoneMax) \X (-ZoneMax .. ZoneMax),
           CharactersOnTop
    PROVE  MCSpec => []BodiesRight
<1>1. MCSpec => SpawnSpec /\ SeSpec /\ StInit /\ [][StNext]_stVars
  <2>1. MCInit => SpawnInit /\ SeInit /\ StInit
    BY DEF MCInit
  <2> QED
    BY <2>1, FocusedOn, PTL DEF MCSpec, SpawnSpec, SeSpec, allVars
<1>2. MCSpec => []JointInv
  <2>1. MCInit => JointInv
    BY StagesStart, TeleportStart DEF MCInit, JointInv
  <2> QED
    BY <2>1, JointStep, PTL DEF MCSpec, allVars
<1>3. JointInv => OsTypeOK /\ HtTypeOK /\ StagesSound /\ TeleportSound
  BY StagesSuffice, TeleportSuffices DEF JointInv
<1>4. SpawnTypeOK /\ SeTypeOK /\ EnginesSound /\ StTypeOK /\ TemplatesRight
        /\ OsTypeOK /\ HtTypeOK /\ StagesSound /\ TeleportSound => BodiesRight
  BY DEF BodiesRight
<1>5. SpawnSpec => []SpawnTypeOK
  BY SpawnIsTyped
<1>6. SeSpec => []SeTypeOK /\ []EnginesSound
  BY EnginesAreTyped, EnginesAreSound, PTL
<1>7. StInit /\ [][StNext]_stVars => [](StTypeOK /\ TemplatesRight)
  BY TemplatesAreRight
<1> QED
  BY <1>1, <1>2, <1>3, <1>4, <1>5, <1>6, <1>7, PTL
=============================================================================
