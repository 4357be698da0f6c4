------------------------ MODULE EntityRegistryProofs ------------------------
(***************************************************************************)
(* The registry's invariants, for any sets of objects, ids, players and    *)
(* zones and for callers that call any method with any argument.           *)
(***************************************************************************)
EXTENDS EntityRegistry, FiniteSetTheorems, TLAPS

\* What the methods preserve together: types, sound reverse map, counter ahead.
RegistryInv == RegistryTypeOK /\ PtrToIdSound /\ NextIdAhead /\ SpawningUnlinked

\* The counter Ahead computes is past the id and not behind the old counter.
LEMMA AheadFacts ==
    ASSUME nextId \in Ids, NEW id \in Ids
    PROVE  Ahead(id) \in Ids /\ id < Ahead(id) /\ nextId <= Ahead(id)
BY DEF Ahead, Ids

\* The empty registry of the constructor satisfies the invariant.
LEMMA InitInv == Init => RegistryInv
BY IdAssumption DEF Init, RegistryInv, RegistryTypeOK, PtrToIdSound, NextIdAhead,
                    SpawningUnlinked, Ids

\* Register draws an id that no entity has.
LEMMA RegisterInv ==
    ASSUME RegistryInv, NEW o \in Objects, NEW p \in Players, NEW z \in Zones,
           Register(o, p, z)
    PROVE  RegistryInv'
<1> DEFINE info == [object |-> o, owner |-> p, zone |-> z, remote |-> FALSE, state |-> "Active"]
<1>0. info \in EntityInfo
  BY DEF EntityInfo
<1>1. /\ DOMAIN entities' = DOMAIN entities \cup {nextId}
      /\ entities'[nextId] = info
      /\ \A x \in DOMAIN entities \ {nextId} : entities'[x] = entities[x]
  BY DEF Register, With
<1>2. /\ DOMAIN ptrToId' = DOMAIN ptrToId \cup {o}
      /\ ptrToId'[o] = nextId
      /\ \A x \in DOMAIN ptrToId \ {o} : ptrToId'[x] = ptrToId[x]
  BY DEF Register, With
<1>3. nextId' = nextId + 1 /\ nextId \in Ids /\ nextId \notin DOMAIN entities
  BY DEF Register, RegistryInv, RegistryTypeOK, NextIdAhead, Ids
<1>4. info.object = o /\ info.state = "Active"
  OBVIOUS
<1> HIDE DEF info
<1>5. RegistryTypeOK'
  BY <1>0, <1>1, <1>2, <1>3 DEF RegistryInv, RegistryTypeOK, Ids
<1>6. PtrToIdSound'
  <2>1. \A x \in DOMAIN ptrToId \ {o} :
           ptrToId[x] \in DOMAIN entities \ {nextId} /\ entities[ptrToId[x]].object = x
    BY <1>3 DEF RegistryInv, PtrToIdSound
  <2>2. nextId \in DOMAIN entities' /\ entities'[nextId].object = o
    BY <1>1, <1>4
  <2>3. \A x \in DOMAIN ptrToId' \ {o} :
           ptrToId'[x] \in DOMAIN entities' /\ entities'[ptrToId'[x]].object = x
    BY <1>1, <1>2, <2>1
  <2> QED
    BY <1>2, <2>2, <2>3 DEF PtrToIdSound
<1>7. NextIdAhead'
  BY <1>1, <1>3 DEF RegistryInv, RegistryTypeOK, NextIdAhead, Ids
<1>8. SpawningUnlinked'
  BY <1>1, <1>3, <1>4 DEF RegistryInv, SpawningUnlinked
<1> QED
  BY <1>5, <1>6, <1>7, <1>8 DEF RegistryInv

\* RegisterRemote adds an entity with no object under an id that is free.
LEMMA RegisterRemoteInv ==
    ASSUME RegistryInv, NEW id \in ServerIds, NEW p \in Players, NEW z \in Zones,
           RegisterRemote(id, p, z)
    PROVE  RegistryInv'
<1>1. CASE id \in DOMAIN entities
  BY <1>1 DEF RegisterRemote, registry, RegistryInv, RegistryTypeOK, PtrToIdSound,
              NextIdAhead, SpawningUnlinked
<1>2. CASE id \notin DOMAIN entities
  <2> DEFINE info == [object |-> NoObject, owner |-> p, zone |-> z,
                      remote |-> TRUE, state |-> "Spawning"]
  <2>0. info \in EntityInfo /\ info.object = NoObject
    BY DEF EntityInfo
  <2>1. /\ DOMAIN entities' = DOMAIN entities \cup {id}
        /\ entities'[id] = info
        /\ \A x \in DOMAIN entities \ {id} : entities'[x] = entities[x]
    BY <1>2 DEF RegisterRemote, With
  <2>2. ptrToId' = ptrToId /\ nextId' = Ahead(id)
    BY <1>2 DEF RegisterRemote
  <2>3. id \in Ids /\ nextId \in Ids
    BY IdAssumption DEF Ids, RegistryInv, RegistryTypeOK
  <2>4. nextId' \in Ids /\ id < nextId' /\ nextId <= nextId'
    BY <2>2, <2>3, AheadFacts
  <2> HIDE DEF info
  <2>5. RegistryTypeOK'
    BY <2>0, <2>1, <2>2, <2>3, <2>4 DEF RegistryInv, RegistryTypeOK
  <2>6. PtrToIdSound'
    BY <1>2, <2>1, <2>2 DEF RegistryInv, PtrToIdSound
  <2>7. NextIdAhead'
    BY <2>1, <2>3, <2>4 DEF RegistryInv, RegistryTypeOK, NextIdAhead, Ids
  <2>8. SpawningUnlinked'
    BY <2>0, <2>1 DEF RegistryInv, SpawningUnlinked
  <2> QED
    BY <2>5, <2>6, <2>7, <2>8 DEF RegistryInv
<1> QED
  BY <1>1, <1>2

\* Linking erases the entity's old pointer first, so no entry outlives its link.
LEMMA SetGameObjectInv ==
    ASSUME RegistryInv, NEW id, NEW o \in Objects \cup {NoObject}, SetGameObject(id, o)
    PROVE  RegistryInv'
<1>1. CASE id \notin DOMAIN entities
  BY <1>1 DEF SetGameObject, registry, RegistryInv, RegistryTypeOK, PtrToIdSound,
              NextIdAhead, SpawningUnlinked
<1>2. CASE id \in DOMAIN entities
  <2> DEFINE obj == IF o \in BadObjects THEN NoObject ELSE o
             kept == Without(ptrToId, ObjectsOf({id}))
             info == [entities[id] EXCEPT !.object = obj,
                          !.state = IF obj # NoObject THEN "Active" ELSE @]
  <2>0. obj \in Objects \cup {NoObject}
    BY ObjectAssumption
  <2>1. /\ entities' = [entities EXCEPT ![id].object = obj,
                            ![id].state = IF obj # NoObject THEN "Active" ELSE @]
        /\ ptrToId' = IF obj # NoObject THEN With(kept, obj, id) ELSE kept
        /\ nextId' = nextId
    BY <1>2 DEF SetGameObject
  <2>2. entities[id] \in EntityInfo
    BY <1>2 DEF RegistryInv, RegistryTypeOK
  <2>3. /\ DOMAIN entities' = DOMAIN entities
        /\ entities'[id].object = obj
        /\ entities'[id] \in EntityInfo
        /\ \A x \in DOMAIN entities \ {id} : entities'[x] = entities[x]
    BY <1>2, <2>0, <2>1, <2>2 DEF EntityInfo
  <2>4. entities'[id].state = "Spawning" => entities'[id].object = NoObject
    BY <1>2, <2>1, <2>2 DEF EntityInfo
  <2>5. ObjectsOf({id}) = {entities[id].object} \ {NoObject}
    BY DEF ObjectsOf
  <2>6. /\ DOMAIN kept = DOMAIN ptrToId \ ({entities[id].object} \ {NoObject})
        /\ \A x \in DOMAIN kept : kept[x] = ptrToId[x]
    BY <2>5 DEF Without
  <2>7. \A x \in DOMAIN kept : kept[x] \in DOMAIN entities \ {id}
                               /\ entities[kept[x]].object = x
    BY <2>6, ObjectAssumption DEF RegistryInv, PtrToIdSound, RegistryTypeOK
  <2>8. \A x \in DOMAIN ptrToId' :
           \/ x = obj /\ obj # NoObject /\ ptrToId'[x] = id
           \/ x \in DOMAIN kept /\ ptrToId'[x] = kept[x]
    <3>1. CASE obj # NoObject
      <4> HIDE DEF kept, obj
      <4>1. ptrToId' = With(kept, obj, id)
        BY <2>1, <3>1
      <4> QED
        BY <3>1, <4>1 DEF With
    <3>2. CASE obj = NoObject
      <4> HIDE DEF kept, obj
      <4>1. ptrToId' = kept
        BY <2>1, <3>2
      <4> QED
        BY <4>1
    <3> QED
      BY <3>1, <3>2
  <2> HIDE DEF kept, obj
  <2>9. RegistryTypeOK'
    <3>1. DOMAIN ptrToId' \subseteq Objects
      BY <2>0, <2>6, <2>8 DEF RegistryInv, RegistryTypeOK
    <3>2. \A x \in DOMAIN ptrToId' : ptrToId'[x] \in Ids
      BY <1>2, <2>7, <2>8 DEF RegistryInv, RegistryTypeOK
    <3> QED
      BY <2>1, <2>3, <3>1, <3>2 DEF RegistryInv, RegistryTypeOK
  <2>10. PtrToIdSound'
    BY <1>2, <2>3, <2>7, <2>8 DEF PtrToIdSound
  <2>11. NextIdAhead'
    BY <2>1, <2>3 DEF RegistryInv, NextIdAhead
  <2>12. SpawningUnlinked'
    BY <2>3, <2>4 DEF RegistryInv, SpawningUnlinked
  <2> QED
    BY <2>9, <2>10, <2>11, <2>12 DEF RegistryInv
<1> QED
  BY <1>1, <1>2

\* Position and owner are payload to the invariant.
LEMMA UpdateInv ==
    ASSUME RegistryInv, NEW id,
           (\E z \in Zones : UpdatePosition(id, z)) \/ (\E p \in Players : UpdateOwner(id, p))
    PROVE  RegistryInv'
<1>1. /\ id \in DOMAIN entities /\ DOMAIN entities' = DOMAIN entities
      /\ entities[id] \in EntityInfo
      /\ ptrToId' = ptrToId /\ nextId' = nextId
      /\ \A x \in DOMAIN entities \ {id} : entities'[x] = entities[x]
  BY DEF UpdatePosition, UpdateOwner, RegistryInv, RegistryTypeOK
<1>2. /\ entities'[id] \in EntityInfo
      /\ entities'[id].object = entities[id].object
      /\ entities'[id].state = entities[id].state
  BY <1>1 DEF UpdatePosition, UpdateOwner, EntityInfo
<1>3. RegistryTypeOK'
  BY <1>1, <1>2 DEF RegistryInv, RegistryTypeOK
<1>4. PtrToIdSound' /\ SpawningUnlinked'
  BY <1>1, <1>2 DEF RegistryInv, PtrToIdSound, SpawningUnlinked
<1>5. NextIdAhead'
  BY <1>1 DEF RegistryInv, NextIdAhead
<1> QED
  BY <1>3, <1>4, <1>5 DEF RegistryInv

\* A remap moves the entity and its pointer together.  When two entities share
\* the object, the entry moves to the remapped one, which is linked to it too.
LEMMA RemapInv ==
    ASSUME RegistryInv, NEW old, NEW new \in ServerIds, RemapEntityId(old, new)
    PROVE  RegistryInv'
<1> DEFINE rest == Without(entities, {old})
           info == entities[old]
<1>0. old \in DOMAIN entities /\ new \notin DOMAIN entities /\ info \in EntityInfo
  BY DEF RemapEntityId, RegistryInv, RegistryTypeOK
<1>1. /\ DOMAIN rest = DOMAIN entities \ {old}
      /\ \A x \in DOMAIN entities \ {old} : rest[x] = entities[x]
  BY DEF Without
<1>2. entities' = With(rest, new, info)
  BY DEF RemapEntityId
<1>3. /\ DOMAIN entities' = (DOMAIN entities \ {old}) \cup {new}
      /\ entities'[new] = info
      /\ \A x \in DOMAIN entities \ {old} : entities'[x] = entities[x]
  <2> HIDE DEF rest, info
  <2> QED
    BY <1>0, <1>1, <1>2 DEF With
<1>4. \A x \in DOMAIN ptrToId' :
         \/ x = info.object /\ x # NoObject /\ ptrToId'[x] = new
         \/ x \in DOMAIN ptrToId /\ ptrToId'[x] = ptrToId[x] /\ x # info.object
  <2>1. CASE info.object # NoObject
    <3>1. ptrToId' = With(ptrToId, info.object, new)
      BY <2>1 DEF RemapEntityId
    <3> HIDE DEF info
    <3> QED
      BY <2>1, <3>1 DEF With
  <2>2. CASE info.object = NoObject
    <3>1. ptrToId' = ptrToId
      BY <2>2 DEF RemapEntityId
    <3> QED
      BY <2>2, <3>1, ObjectAssumption DEF RegistryInv, RegistryTypeOK
  <2> QED
    BY <2>1, <2>2
<1>5. new \in Ids /\ nextId \in Ids /\ nextId' = Ahead(new)
  BY IdAssumption DEF Ids, RemapEntityId, RegistryInv, RegistryTypeOK
<1>6. nextId' \in Ids /\ new < nextId' /\ nextId <= nextId'
  BY <1>5, AheadFacts
<1>7. info.object \in Objects \cup {NoObject}
  BY <1>0 DEF EntityInfo
<1>8. info.state = "Spawning" => info.object = NoObject
  BY <1>0 DEF RegistryInv, SpawningUnlinked
<1>9. \A x \in DOMAIN ptrToId : x # info.object => ptrToId[x] \in DOMAIN entities \ {old}
  BY DEF RegistryInv, PtrToIdSound
<1> HIDE DEF info, rest
<1>10. RegistryTypeOK'
  <2>1. DOMAIN ptrToId' \subseteq Objects
    BY <1>4, <1>7 DEF RegistryInv, RegistryTypeOK
  <2>2. \A x \in DOMAIN ptrToId' : ptrToId'[x] \in Ids
    BY <1>4, <1>5 DEF RegistryInv, RegistryTypeOK
  <2>3. \A x \in DOMAIN entities' : x \in Ids /\ entities'[x] \in EntityInfo
    BY <1>0, <1>3, <1>5 DEF RegistryInv, RegistryTypeOK
  <2> QED
    BY <1>6, <2>1, <2>2, <2>3 DEF RegistryTypeOK
<1>11. PtrToIdSound'
  BY <1>3, <1>4, <1>9 DEF RegistryInv, PtrToIdSound
<1>12. NextIdAhead'
  BY <1>3, <1>5, <1>6 DEF RegistryInv, RegistryTypeOK, NextIdAhead, Ids
<1>13. SpawningUnlinked'
  BY <1>3, <1>8 DEF RegistryInv, SpawningUnlinked
<1> QED
  BY <1>10, <1>11, <1>12, <1>13 DEF RegistryInv

\* Removing entities erases every pointer of theirs.  It may erase the entry of an
\* entity that stays and shares an object, but never leaves one that dangles.
LEMMA EraseInv ==
    ASSUME RegistryInv, NEW S \in SUBSET DOMAIN entities, Erase(S)
    PROVE  RegistryInv'
<1>1. /\ DOMAIN entities' = DOMAIN entities \ S
      /\ \A x \in DOMAIN entities \ S : entities'[x] = entities[x]
  BY DEF Erase, Without
<1>2. /\ DOMAIN ptrToId' = DOMAIN ptrToId \ ObjectsOf(S)
      /\ \A x \in DOMAIN ptrToId \ ObjectsOf(S) : ptrToId'[x] = ptrToId[x]
  BY DEF Erase, Without
<1>3. nextId' = nextId
  BY DEF Erase
<1>4. \A x \in DOMAIN ptrToId' : ptrToId[x] \notin S
  <2> SUFFICES ASSUME NEW x \in DOMAIN ptrToId', ptrToId[x] \in S
               PROVE  FALSE
    OBVIOUS
  <2>1. x \in Objects /\ entities[ptrToId[x]].object = x /\ x # NoObject
    BY <1>2, ObjectAssumption DEF RegistryInv, RegistryTypeOK, PtrToIdSound
  <2>2. x \in ObjectsOf(S)
    BY <2>1 DEF ObjectsOf
  <2> QED
    BY <1>2, <2>2
<1>5. RegistryTypeOK'
  BY <1>1, <1>2, <1>3 DEF RegistryInv, RegistryTypeOK
<1>6. PtrToIdSound'
  BY <1>1, <1>2, <1>4 DEF RegistryInv, PtrToIdSound
<1>7. NextIdAhead' /\ SpawningUnlinked'
  BY <1>1, <1>3 DEF RegistryInv, NextIdAhead, SpawningUnlinked
<1> QED
  BY <1>5, <1>6, <1>7 DEF RegistryInv

\* Clear empties both maps and keeps the counter.
LEMMA ClearInv == RegistryInv /\ Clear => RegistryInv'
BY DEF Clear, RegistryInv, RegistryTypeOK, PtrToIdSound, NextIdAhead, SpawningUnlinked

\* Every call of every method preserves the invariant.
LEMMA StepInv == RegistryInv /\ [Call]_registry => RegistryInv'
<1> SUFFICES ASSUME RegistryInv, [Call]_registry
             PROVE  RegistryInv'
  OBVIOUS
<1>1. CASE \E o \in Objects, p \in Players, z \in Zones : Register(o, p, z)
  BY <1>1, RegisterInv
<1>2. CASE \E id \in ServerIds, p \in Players, z \in Zones : RegisterRemote(id, p, z)
  BY <1>2, RegisterRemoteInv
<1>3. CASE \E id \in DOMAIN entities, o \in Objects \cup {NoObject} : SetGameObject(id, o)
  BY <1>3, SetGameObjectInv
<1>4. CASE \E id \in DOMAIN entities, z \in Zones : UpdatePosition(id, z)
  BY <1>4, UpdateInv
<1>5. CASE \E id \in DOMAIN entities, p \in Players : UpdateOwner(id, p)
  BY <1>5, UpdateInv
<1>6. CASE \E old \in DOMAIN entities, new \in ServerIds : RemapEntityId(old, new)
  BY <1>6, RemapInv
<1>7. CASE \E id \in DOMAIN entities : Unregister(id)
  BY <1>7, EraseInv DEF Unregister
<1>8. CASE \E z \in Zones : RemoveEntitiesInZone(z)
  <2>1. PICK z \in Zones : RemoveEntitiesInZone(z)
    BY <1>8
  <2>2. {id \in RemoteIds : entities[id].zone = z} \in SUBSET DOMAIN entities
    BY DEF RemoteIds
  <2> QED
    BY <2>1, <2>2, EraseInv DEF RemoveEntitiesInZone
<1>9. CASE ClearRemoteEntities
  <2>1. RemoteIds \in SUBSET DOMAIN entities
    BY DEF RemoteIds
  <2> QED
    BY <1>9, <2>1, EraseInv DEF ClearRemoteEntities
<1>10. CASE Clear
  BY <1>10, ClearInv
<1>11. CASE UNCHANGED registry
  BY <1>11 DEF registry, RegistryInv, RegistryTypeOK, PtrToIdSound, NextIdAhead,
               SpawningUnlinked
<1> QED
  BY <1>1, <1>2, <1>3, <1>4, <1>5, <1>6, <1>7, <1>8, <1>9, <1>10, <1>11 DEF Call

\* The inductive invariant holds in every state.
THEOREM RegistryInvariant == Spec => []RegistryInv
BY InitInv, StepInv, PTL DEF Spec

\* GetNetId returns only ids that are registered and linked to the object asked
\* about, whatever the callers of the registry did before.
THEOREM PtrToIdIsSound == Spec => []PtrToIdSound
<1>1. RegistryInv => PtrToIdSound
  BY DEF RegistryInv
<1> QED
  BY <1>1, RegistryInvariant, PTL

\* m_nextId is past every registered id, so Register never overwrites an entity.
THEOREM NextIdIsAhead == Spec => []NextIdAhead
<1>1. RegistryInv => NextIdAhead
  BY DEF RegistryInv
<1> QED
  BY <1>1, RegistryInvariant, PTL

\* Ids found are live, ids drawn are new and what is Spawning is not in the game,
\* for all callers.
THEOREM RegistryIsSound == Spec => []RegistrySound
<1>1. RegistryInv => RegistrySound
  BY DEF RegistryInv, RegistrySound
<1> QED
  BY <1>1, RegistryInvariant, PTL

\* One call never changes whether an entity that stays registered is remote.
LEMMA StepIdentity ==
    ASSUME RegistryInv, [Call]_registry,
           NEW k \in DOMAIN entities, k \in DOMAIN entities'
    PROVE  entities'[k].remote = entities[k].remote
<1>0. k # nextId /\ entities[k] \in EntityInfo
  BY DEF RegistryInv, NextIdAhead, RegistryTypeOK, Ids
<1>1. CASE \E o \in Objects, p \in Players, z \in Zones : Register(o, p, z)
  BY <1>0, <1>1 DEF Register, With
<1>2. CASE \E id \in ServerIds, p \in Players, z \in Zones : RegisterRemote(id, p, z)
  BY <1>2 DEF RegisterRemote, With, registry
<1>3. CASE \E id \in DOMAIN entities, o \in Objects \cup {NoObject} : SetGameObject(id, o)
  <2>1. PICK id \in DOMAIN entities, o \in Objects \cup {NoObject} : SetGameObject(id, o)
    BY <1>3
  <2> DEFINE obj == IF o \in BadObjects THEN NoObject ELSE o
  <2>2. entities' = [entities EXCEPT ![id].object = obj,
                         ![id].state = IF obj # NoObject THEN "Active" ELSE @]
    BY <2>1 DEF SetGameObject
  <2> HIDE DEF obj
  <2> QED
    BY <1>0, <2>2 DEF EntityInfo
<1>4. CASE \E id \in DOMAIN entities, z \in Zones : UpdatePosition(id, z)
  BY <1>0, <1>4 DEF UpdatePosition, EntityInfo
<1>5. CASE \E id \in DOMAIN entities, p \in Players : UpdateOwner(id, p)
  BY <1>0, <1>5 DEF UpdateOwner, EntityInfo
<1>6. CASE \E old \in DOMAIN entities, new \in ServerIds : RemapEntityId(old, new)
  <2>1. PICK old \in DOMAIN entities, new \in ServerIds : RemapEntityId(old, new)
    BY <1>6
  <2>2. new \notin DOMAIN entities
    BY <2>1 DEF RemapEntityId
  <2> DEFINE rest == Without(entities, {old})
  <2>3. DOMAIN rest = DOMAIN entities \ {old} /\ \A x \in DOMAIN entities \ {old} : rest[x] = entities[x]
    BY DEF Without
  <2>4. entities' = With(rest, new, entities[old])
    BY <2>1 DEF RemapEntityId
  <2> HIDE DEF rest
  <2>5. DOMAIN entities' = DOMAIN rest \cup {new} /\ \A x \in DOMAIN rest \ {new} : entities'[x] = rest[x]
    BY <2>4 DEF With
  <2> QED
    BY <2>2, <2>3, <2>5
<1>7. CASE \E S \in SUBSET DOMAIN entities : Erase(S)
  BY <1>7 DEF Erase, Without
<1>8. CASE Clear
  <2>1. DOMAIN entities' = {}
    BY <1>8 DEF Clear
  <2> QED
    BY <2>1
<1>9. CASE UNCHANGED registry
  BY <1>9 DEF registry
<1>10. Call => \/ nextId < FirstLocal + LocalBound /\ \E o \in Objects, p \in Players, z \in Zones : Register(o, p, z)
               \/ \E id \in ServerIds, p \in Players, z \in Zones : RegisterRemote(id, p, z)
               \/ \E id \in DOMAIN entities, o \in Objects \cup {NoObject} : SetGameObject(id, o)
               \/ \E id \in DOMAIN entities, z \in Zones : UpdatePosition(id, z)
               \/ \E id \in DOMAIN entities, p \in Players : UpdateOwner(id, p)
               \/ \E old \in DOMAIN entities, new \in ServerIds : RemapEntityId(old, new)
               \/ \E S \in SUBSET DOMAIN entities : Erase(S)
               \/ Clear
  <2>1. RemoteIds \in SUBSET DOMAIN entities
    BY DEF RemoteIds
  <2>2. \A z \in Zones : {id \in RemoteIds : entities[id].zone = z} \in SUBSET DOMAIN entities
    BY <2>1
  <2>3. \A id \in DOMAIN entities : {id} \cap DOMAIN entities \in SUBSET DOMAIN entities
    OBVIOUS
  <2>4. (\E id \in DOMAIN entities : Unregister(id)) => \E S \in SUBSET DOMAIN entities : Erase(S)
    BY <2>3, Zenon DEF Unregister
  <2>5. (\E z \in Zones : RemoveEntitiesInZone(z)) => \E S \in SUBSET DOMAIN entities : Erase(S)
    BY <2>2, Zenon DEF RemoveEntitiesInZone
  <2>6. ClearRemoteEntities => \E S \in SUBSET DOMAIN entities : Erase(S)
    BY <2>1, Zenon DEF ClearRemoteEntities
  <2> QED
    BY <2>4, <2>5, <2>6, Zenon DEF Call
<1> QED
  BY <1>1, <1>2, <1>3, <1>4, <1>5, <1>6, <1>7, <1>8, <1>9, <1>10, Zenon

\* No sequence of calls turns a remote entity into a local one or the reverse.
THEOREM IdentityIsStable == Spec => IdentityStable
<1>1. RegistryInv /\ [Call]_registry =>
        [\A id \in DOMAIN entities \cap DOMAIN entities' :
            entities'[id].remote = entities[id].remote]_registry
  BY StepIdentity
<1> QED
  BY <1>1, RegistryInvariant, PTL DEF Spec, IdentityStable

-----------------------------------------------------------------------------
(* A fact about numbers, for inductions in the modules that extend this    *)
(* one.                                                                    *)

\* Every set of numbers that is not empty has a least one: among the intervals
\* up to its members, which are finite sets, one contains no other.
LEMMA LeastExists ==
  ASSUME NEW T, T \subseteq Nat, T # {}
  PROVE \E x \in T : \A y \in T : x <= y
<1> DEFINE F == {0 .. n : n \in T}
           R == StrictSubsetOrdering(Nat)
<1>1. F # {} /\ F \subseteq FiniteSubsetsOf(Nat)
  <2>1. F # {}
    OBVIOUS
  <2>2. ASSUME NEW n \in T PROVE (0 .. n) \in FiniteSubsetsOf(Nat)
    <3>1. n \in Int /\ 0 \in Int /\ 0 .. n \subseteq Nat
      OBVIOUS
    <3>2. IsFiniteSet(0 .. n)
      BY <3>1, FS_Interval
    <3> QED BY <3>1, <3>2 DEF FiniteSubsetsOf
  <2> QED BY <2>1, <2>2
<1>2. IsWellFoundedOn(R, FiniteSubsetsOf(Nat))
  BY FS_StrictSubsetOrderingWellFounded
<1> HIDE DEF F, R
<1>3. PICK X \in F : \A Y \in F : ~(<<Y, X>> \in R)
  BY <1>1, <1>2, WFMin
<1>4. PICK x \in T : X = 0 .. x
  BY DEF F
<1>5. ASSUME NEW y \in T, y < x PROVE FALSE
  <2>1. (0 .. y) \in F
    BY DEF F
  <2>2. 0 .. y \subseteq 0 .. x /\ 0 .. y # 0 .. x /\ 0 .. x \subseteq Nat
    <3>1. x \in 0 .. x /\ x \notin 0 .. y
      BY <1>5
    <3> QED BY <1>5, <3>1
  <2>3. <<0 .. y, X>> \in R
    BY <1>4, <2>2 DEF R, StrictSubsetOrdering
  <2> QED BY <1>3, <2>1, <2>3
<1> QED
  BY <1>5
=============================================================================
