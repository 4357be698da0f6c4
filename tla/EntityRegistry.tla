--------------------------- MODULE EntityRegistry ---------------------------
(***************************************************************************)
(* The client's EntityRegistry (KenshiMP.Core/sync/entity_registry.cpp):   *)
(* the map from network ids to entities, the reverse map from game objects *)
(* to ids, and the counter local ids are drawn from.  Every method holds   *)
(* m_mutex from its first to its last access, so a method is one step.     *)
(*                                                                         *)
(* The registry does not know its callers: hooks on the game thread,       *)
(* packet handlers on the network thread and the sync engines all call it, *)
(* in any order and with ids and objects that may be stale.  Call lets any *)
(* method be called with any argument, so what is shown here holds for     *)
(* every caller.  RemoteSpawns composes the methods with real callers.     *)
(*                                                                         *)
(* An entity keeps what identity and links depend on.  Rotation, health,   *)
(* equipment, status and dirty flags are payload; a position is the zone   *)
(* it lies in.  localState is LocalOwned exactly when isRemote is FALSE.   *)
(***************************************************************************)
EXTENDS Integers, FiniteSets

CONSTANTS
    Objects,     \* game objects: characters the game has created
    BadObjects,  \* addresses that the pointer check of the registry rejects
    NoObject,    \* the null pointer
    ServerIds,   \* ids the server assigns
    FirstLocal,  \* 0x10000000, where ids for local characters start
    LocalBound,  \* bound on the ids drawn, to keep the model finite
    Players, Zones

ASSUME ObjectAssumption ==
    /\ BadObjects \subseteq Objects
    /\ NoObject \notin Objects

ASSUME IdAssumption ==
    /\ ServerIds \subseteq Nat \ {0}
    /\ FirstLocal \in Nat \ {0}
    /\ LocalBound \in Nat

VARIABLES
    entities,    \* m_entities: a function on the ids registered now
    ptrToId,     \* m_ptrToId: a function on the objects mapped now
    nextId       \* m_nextId

registry == <<entities, ptrToId, nextId>>

EntityInfo == [object : Objects \cup {NoObject}, owner : Players, zone : Zones,
               remote : BOOLEAN, state : {"Spawning", "Active"}]

Ids == Nat \ {0}

-----------------------------------------------------------------------------
\* Maps that lose or gain a key.
Without(f, S) == [x \in DOMAIN f \ S |-> f[x]]

With(f, k, v) == [x \in DOMAIN f \cup {k} |-> IF x = k THEN v ELSE f[x]]

\* Mutant of Ahead: a server id does not move the counter.
AheadNever(id) == nextId

\* std::max(m_nextId, id + 1).  The uint32 counter would take 2^32 ids to wrap.
Ahead(id) == IF nextId > id THEN nextId ELSE id + 1

\* The pointers of the entities in S, which their removal erases from m_ptrToId.
ObjectsOf(S) == {entities[id].object : id \in S} \ {NoObject}

RemoteIds == {id \in DOMAIN entities : entities[id].remote}

GetNetId(o) == IF o \in DOMAIN ptrToId THEN ptrToId[o] ELSE 0

GetGameObject(id) ==
    IF id \in DOMAIN entities THEN entities[id].object ELSE NoObject

-----------------------------------------------------------------------------
\* An object (no caller passes null) is registered once: a second call finds its id and does nothing.
Register(o, p, z) ==
    /\ o \notin BadObjects
    /\ o \notin DOMAIN ptrToId
    /\ entities' = With(entities, nextId, [object |-> o, owner |-> p, zone |-> z,
                                           remote |-> FALSE, state |-> "Active"])
    /\ ptrToId' = With(ptrToId, o, nextId)
    /\ nextId' = nextId + 1

\* Mutant of RegisterRemote: a spawn message overwrites whatever has its id.
RegisterRemoteOverwrites(id, p, z) ==
    /\ entities' = With(entities, id, [object |-> NoObject, owner |-> p, zone |-> z,
                                       remote |-> TRUE, state |-> "Spawning"])
    /\ nextId' = Ahead(id)
    /\ UNCHANGED ptrToId

\* A duplicate spawn message leaves the entity that is already there alone.
RegisterRemote(id, p, z) ==
    IF id \in DOMAIN entities
    THEN UNCHANGED registry
    ELSE /\ entities' = With(entities, id, [object |-> NoObject, owner |-> p, zone |-> z,
                                            remote |-> TRUE, state |-> "Spawning"])
         /\ nextId' = Ahead(id)
         /\ UNCHANGED ptrToId

\* Mutant of SetGameObject: linking an object does not end the Spawning state.
SetGameObjectStillSpawning(id, o) ==
    LET kept == Without(ptrToId, ObjectsOf({id}))
    IN  /\ id \in DOMAIN entities
        /\ entities' = [entities EXCEPT ![id].object = o]
        /\ ptrToId' = IF o # NoObject THEN With(kept, o, id) ELSE kept
        /\ UNCHANGED nextId

\* Link, relink or (with the null or a bad pointer) unlink an entity.  Another
\* entity that is linked to the same object is left as it is.
SetGameObject(id, o) ==
    LET obj == IF o \in BadObjects THEN NoObject ELSE o
    IN  IF id \in DOMAIN entities
        THEN LET kept == Without(ptrToId, ObjectsOf({id}))
             IN  /\ entities' = [entities EXCEPT ![id].object = obj,
                                    ![id].state = IF obj # NoObject THEN "Active" ELSE @]
                 /\ ptrToId' = IF obj # NoObject THEN With(kept, obj, id) ELSE kept
                 /\ UNCHANGED nextId
        ELSE UNCHANGED registry

UpdatePosition(id, z) ==
    /\ id \in DOMAIN entities
    /\ entities' = [entities EXCEPT ![id].zone = z]
    /\ UNCHANGED <<ptrToId, nextId>>

UpdateOwner(id, p) ==
    /\ id \in DOMAIN entities
    /\ entities' = [entities EXCEPT ![id].owner = p]
    /\ UNCHANGED <<ptrToId, nextId>>

\* The server has confirmed a local entity under an id of its own.
RemapEntityId(old, new) ==
    /\ old \in DOMAIN entities
    /\ new \notin DOMAIN entities
    /\ entities' = With(Without(entities, {old}), new, entities[old])
    /\ ptrToId' = IF entities[old].object # NoObject
                  THEN With(ptrToId, entities[old].object, new) ELSE ptrToId
    /\ nextId' = Ahead(new)

\* Mutant of Erase: the pointers of the removed entities stay in m_ptrToId.
EraseKeepsPointers(S) ==
    /\ entities' = Without(entities, S)
    /\ UNCHANGED <<ptrToId, nextId>>

\* The common part of Unregister, RemoveEntitiesInZone and ClearRemoteEntities.
Erase(S) ==
    /\ entities' = Without(entities, S)
    /\ ptrToId' = Without(ptrToId, ObjectsOf(S))
    /\ UNCHANGED nextId

Unregister(id) == Erase({id} \cap DOMAIN entities)

RemoveEntitiesInZone(z) == Erase({id \in RemoteIds : entities[id].zone = z})

ClearRemoteEntities == Erase(RemoteIds)

\* Mutant of Clear: the counter is zeroed with the maps.
ClearZeroesCounter ==
    /\ entities' = << >>
    /\ ptrToId' = << >>
    /\ nextId' = 0

\* m_nextId is not reset: an id of the session before is never drawn again.
Clear ==
    /\ entities' = << >>
    /\ ptrToId' = << >>
    /\ UNCHANGED nextId

-----------------------------------------------------------------------------
Init ==
    /\ entities = << >>
    /\ ptrToId = << >>
    /\ nextId = FirstLocal

Call ==
    \/ nextId < FirstLocal + LocalBound /\ \E o \in Objects, p \in Players, z \in Zones : Register(o, p, z)
    \/ \E id \in ServerIds, p \in Players, z \in Zones : RegisterRemote(id, p, z)
    \/ \E id \in DOMAIN entities, o \in Objects \cup {NoObject} : SetGameObject(id, o)
    \/ \E id \in DOMAIN entities, z \in Zones : UpdatePosition(id, z)
    \/ \E id \in DOMAIN entities, p \in Players : UpdateOwner(id, p)
    \/ \E old \in DOMAIN entities, new \in ServerIds : RemapEntityId(old, new)
    \/ \E id \in DOMAIN entities : Unregister(id)
    \/ \E z \in Zones : RemoveEntitiesInZone(z)
    \/ ClearRemoteEntities
    \/ Clear

Spec == Init /\ [][Call]_registry

-----------------------------------------------------------------------------
\* Every entry of the three members is of its type.
RegistryTypeOK ==
    /\ DOMAIN entities \subseteq Ids
    /\ \A id \in DOMAIN entities : entities[id] \in EntityInfo
    /\ DOMAIN ptrToId \subseteq Objects
    /\ \A o \in DOMAIN ptrToId : ptrToId[o] \in Ids
    /\ nextId \in Ids

\* GetNetId never returns a stale id: whatever sequence of links, remaps and
\* removals came before, the id it finds is registered and linked to that very
\* object.  The hooks send packets about the id they look up without asking again.
PtrToIdSound ==
    \A o \in DOMAIN ptrToId :
        ptrToId[o] \in DOMAIN entities /\ entities[ptrToId[o]].object = o

\* The counter is ahead of every id in the registry, server ids included
\* ("Keep our local ID counter ahead of ALL known IDs to prevent collisions").
NextIdAhead == \A id \in DOMAIN entities : id < nextId

\* A character that is still Spawning has no object yet, so the clean-up of stuck
\* entities never drops one that is already visible in the game.
SpawningUnlinked ==
    \A id \in DOMAIN entities :
        entities[id].state = "Spawning" => entities[id].object = NoObject

\* What the hooks, handlers and engines rely on when they look an entity up: ids
\* they find are live, ids they draw are new, what is still Spawning is not in
\* the game.
RegistrySound == PtrToIdSound /\ NextIdAhead /\ SpawningUnlinked

\* No call turns a remote entity into a local one or the reverse, neither a
\* registration under an id in use nor a remap onto one: who simulates an entity
\* changes only by removing it.
IdentityStable ==
    [][\A id \in DOMAIN entities \cap DOMAIN entities' :
           entities'[id].remote = entities[id].remote]_registry
=============================================================================
