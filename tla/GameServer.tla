------------------------------ MODULE GameServer ------------------------------
(***************************************************************************)
(* The dedicated server's sessions, entity ownership, host role and world   *)
(* save (KenshiMP.Server/server.cpp, server.h, world_persistence.cpp).      *)
(*                                                                         *)
(* GameServer::Update holds m_mutex for a whole tick and pumps the ENet     *)
(* events one by one, so every handler is one atomic step.  The console     *)
(* thread's SaveWorld and KickPlayer take the same mutex.  What interleaves *)
(* is the order in which peers connect, speak, vanish and come back, and    *)
(* the crashes of the server process between two steps.                     *)
(*                                                                         *)
(* Names are what a player is recognised by after a reconnection: ids are   *)
(* handed out afresh on every handshake.                                    *)
(***************************************************************************)
EXTENDS Naturals, FiniteSets, Functions

CONSTANTS
    Peers,            \* ENet peer slots of the host
    Names,            \* sanitised player names
    MaxPlayers,       \* m_config.maxPlayers
    MaxSyncEntities,  \* KMP_MAX_SYNC_ENTITIES (2048)
    Positions,        \* classes of coordinates a client reports
    UniqueNames,      \* the environment never has a name connected twice
    AllocCanFail,     \* enet_packet_create may return null in HandleHandshake
    PlayerBound,      \* bound: handshakes accepted in one server lifetime
    EntityBound       \* bound: largest entity id handed out

ASSUME ConstantsAssumption ==
    /\ MaxPlayers \in Nat /\ MaxSyncEntities \in Nat
    /\ PlayerBound \in Nat /\ EntityBound \in Nat
    /\ Positions \subseteq {"ok", "far", "nan"}
    /\ UniqueNames \in BOOLEAN /\ AllocCanFail \in BOOLEAN

VARIABLES
    running,     \* the server process is up (between Startup and Shutdown/Crash)
    link,        \* state of each ENet peer slot: free, up or closing
    loopback,    \* IsLoopbackAddress(peer->address), FALSE in a free slot
    peerData,    \* peer->data: the player id of the slot, 0 for nullptr
    players,     \* m_players
    entities,    \* m_entities
    saved,       \* m_savedPlayers: name -> entity ids
    host,        \* m_hostPlayerId, 0 for none
    nextPlayer,  \* m_nextPlayerId
    nextEntity,  \* m_nextEntityId
    disk         \* the save file (an absent file loads like an empty one)

vars == <<running, link, loopback, peerData, players, entities, saved, host,
          nextPlayer, nextEntity, disk>>

memory  == <<players, entities, saved, host, nextPlayer, nextEntity>>
network == <<link, loopback, peerData>>

PlayerId == 1 .. PlayerBound
EntityId == 1 .. EntityBound

\* ConnectedPlayer and ServerEntity, cut down to the fields that decide who
\* may do what; owner = 0 is the unowned (world or preserved) entity.
ConnectedPlayer == [name : Names, peer : Peers, isLoopback : BOOLEAN]
ServerEntity    == [owner : PlayerId \cup {0}, pos : Positions \cup {"ok"}]

Empty == [x \in {} |-> x]

\* f[k] = v for a key k that may be new (operator[] of unordered_map), and
\* the erasure of a set of keys.
Put(f, k, v) == [x \in DOMAIN f \cup {k} |-> IF x = k THEN v ELSE f[x]]
Drop(f, K)   == Restrict(f, DOMAIN f \ K)

Owned(p) == {e \in DOMAIN entities : entities[e].owner = p}
SetOwner(E, p) ==
    [e \in DOMAIN entities |->
        IF e \in E THEN [entities[e] EXCEPT !.owner = p] ELSE entities[e]]

Full == Cardinality(DOMAIN players) >= MaxPlayers

\* GetPlayer(peer): the player behind a slot that can still deliver packets.
Speaks(p, id) == /\ running
                 /\ link[p] = "up"
                 /\ peerData[p] = id
                 /\ id \in DOMAIN players

Init ==
    /\ running = TRUE
    /\ link = [p \in Peers |-> "free"]
    /\ loopback = [p \in Peers |-> FALSE]
    /\ peerData = [p \in Peers |-> 0]
    /\ players = Empty
    /\ entities = Empty
    /\ saved = Empty
    /\ host = 0
    /\ nextPlayer = 1
    /\ nextEntity = 1
    /\ disk = [entities |-> Empty, players |-> Empty]

-----------------------------------------------------------------------------
(* Sessions                                                                *)

\* A peer connects; a full server disconnects it again at once.
HandleConnect(p, lb) ==
    /\ running
    /\ link[p] = "free"
    /\ link' = [link EXCEPT ![p] = IF Full THEN "closing" ELSE "up"]
    /\ loopback' = [loopback EXCEPT ![p] = lb]
    /\ peerData' = IF Full THEN peerData ELSE [peerData EXCEPT ![p] = 0]
    /\ UNCHANGED <<running, memory, disk>>

\* The server asks ENet to disconnect a peer (version or capacity reject,
\* C2S_Disconnect, C2S_ServerQuery, kicks): packets stop, the player stays in
\* m_players until ENet reports the disconnect.
CloseLink(p) ==
    /\ link' = [link EXCEPT ![p] = "closing"]
    /\ UNCHANGED <<running, loopback, peerData, memory, disk>>

\* HandleHandshake, early exits: full, or a foreign protocol version.
RejectHandshake(p, versionOk) ==
    /\ running
    /\ link[p] = "up"
    /\ peerData[p] = 0
    /\ Full \/ ~versionOk
    /\ CloseLink(p)

\* Mutants: a name takes every unowned entity; the loop stops at one.
ReclaimedAnybodys(n) == {e \in DOMAIN entities : entities[e].owner = 0}
ReclaimedFirst(n) ==
    IF n \in DOMAIN saved
    THEN {e \in saved[n] \cap DOMAIN entities :
             /\ entities[e].owner = 0
             /\ \A f \in saved[n] \cap DOMAIN entities : e <= f}
    ELSE {}

\* What a returning name gets back: the recorded ids that still exist unowned.
Reclaimed(n) ==
    IF n \in DOMAIN saved
    THEN {e \in saved[n] \cap DOMAIN entities : entities[e].owner = 0}
    ELSE {}

\* Host assignment on join: first player, or a loopback peer that overrides a
\* non-loopback host.
HostAfterJoin(id, lb) ==
    IF \/ host = 0
       \/ lb /\ host \in DOMAIN players /\ ~players[host].isLoopback
    THEN id
    ELSE host

MayJoin(p, n) ==
    /\ running
    /\ link[p] = "up"
    /\ peerData[p] = 0
    /\ ~Full
    /\ nextPlayer <= PlayerBound
    /\ UniqueNames => \A q \in DOMAIN players : players[q].name # n

\* Mutant: the record of a returning player is not erased.
AcceptKeepsRecord(p, n) ==
    /\ MayJoin(p, n)
    /\ nextPlayer' = nextPlayer + 1
    /\ peerData' = [peerData EXCEPT ![p] = nextPlayer]
    /\ players' = Put(players, nextPlayer,
                      [name |-> n, peer |-> p, isLoopback |-> loopback[p]])
    /\ entities' = SetOwner(Reclaimed(n), nextPlayer)
    /\ host' = HostAfterJoin(nextPlayer, loopback[p])
    /\ UNCHANGED <<running, link, loopback, saved, nextEntity, disk>>

\* HandleHandshake, accepted: new id, reclaim, host assignment.
AcceptHandshake(p, n) ==
    /\ MayJoin(p, n)
    /\ nextPlayer' = nextPlayer + 1
    /\ peerData' = [peerData EXCEPT ![p] = nextPlayer]
    /\ players' = Put(players, nextPlayer,
                      [name |-> n, peer |-> p, isLoopback |-> loopback[p]])
    /\ entities' = SetOwner(Reclaimed(n), nextPlayer)
    /\ saved' = Drop(saved, {n})
    /\ host' = HostAfterJoin(nextPlayer, loopback[p])
    /\ UNCHANGED <<running, link, loopback, nextEntity, disk>>

\* Mutant: the failure path keeps the record.
AllocFailureKeepsRecord(p, n) ==
    /\ AllocCanFail
    /\ MayJoin(p, n)
    /\ nextPlayer' = nextPlayer + 1
    /\ entities' = SetOwner(Reclaimed(n), nextPlayer)
    /\ host' = HostAfterJoin(nextPlayer, loopback[p])
    /\ UNCHANGED <<running, network, players, saved, nextEntity, disk>>

\* HandleHandshake, the ack or the faction packet cannot be allocated: the
\* player is erased again, the reclaim and the host assignment stay.
HandshakeAllocFailure(p, n) ==
    /\ AllocCanFail
    /\ MayJoin(p, n)
    /\ nextPlayer' = nextPlayer + 1
    /\ entities' = SetOwner(Reclaimed(n), nextPlayer)
    /\ saved' = Drop(saved, {n})
    /\ host' = HostAfterJoin(nextPlayer, loopback[p])
    /\ UNCHANGED <<running, network, players, nextEntity, disk>>

\* Mutant: nothing is filed.
FiledNever(id) == saved

\* The leaving player's entities become unowned and are filed under its name,
\* replacing an older record; nothing is filed when it owned nothing.
Filed(id) == IF Owned(id) = {} THEN saved
             ELSE Put(saved, players[id].name, Owned(id))

\* Mutants of the disconnect: Leave states it once, with the entities' new
\* owner, the candidates for host and the slot's user data as parameters.
Leave(p, heir, candidates, data) ==
    /\ running
    /\ link[p] # "free"
    /\ link' = [link EXCEPT ![p] = "free"]
    /\ loopback' = [loopback EXCEPT ![p] = FALSE]
    /\ peerData' = [peerData EXCEPT ![p] = data]
    /\ LET id == peerData[p] IN
       IF id \in DOMAIN players
       THEN /\ entities' = SetOwner(Owned(id), heir)
            /\ saved' = Filed(id)
            /\ players' = Drop(players, {id})
            /\ \E h \in IF host # id THEN {host} ELSE candidates : host' = h
       ELSE UNCHANGED <<entities, saved, players, host>>
    /\ UNCHANGED <<running, nextPlayer, nextEntity, disk>>

Others(p) == IF DOMAIN players = {peerData[p]} THEN {0}
             ELSE DOMAIN players \ {peerData[p]}

\* peer->data is not reset; the host is chosen before the player is erased;
\* the entities keep their owner; the entities go to the remaining host.
LeaveKeepsData(p)  == Leave(p, 0, Others(p), peerData[p])
LeaveHostFirst(p)  == Leave(p, 0, DOMAIN players, 0)
LeaveKeepsOwner(p) == Leave(p, peerData[p], Others(p), 0)
LeaveToHost(p)     == Leave(p, host, Others(p), 0)

\* ENET_EVENT_TYPE_DISCONNECT: graceful, kicked, or the 10-15 s timeout of a
\* vanished client.  The new host is whichever player the hash map lists first.
HandleDisconnect(p) ==
    /\ running
    /\ link[p] # "free"
    /\ link' = [link EXCEPT ![p] = "free"]
    /\ loopback' = [loopback EXCEPT ![p] = FALSE]
    /\ peerData' = [peerData EXCEPT ![p] = 0]
    /\ LET id == peerData[p] IN
       IF id \in DOMAIN players
       THEN LET rest == DOMAIN players \ {id} IN
            /\ entities' = SetOwner(Owned(id), 0)
            /\ saved' = Filed(id)
            /\ players' = Drop(players, {id})
            /\ \E h \in IF host # id THEN {host}
                        ELSE IF rest = {} THEN {0} ELSE rest : host' = h
       ELSE UNCHANGED <<entities, saved, players, host>>
    /\ UNCHANGED <<running, nextPlayer, nextEntity, disk>>

\* C2S_Disconnect and C2S_ServerQuery, from a joined peer or not.
RequestDisconnect(p) ==
    /\ running
    /\ link[p] = "up"
    /\ CloseLink(p)

\* KickPlayer (console) may hit anyone; the admin command is the host's and
\* spares the host.
KickPlayer(id) ==
    /\ running
    /\ id \in DOMAIN players
    /\ CloseLink(players[id].peer)

AdminKick(p, target) ==
    /\ Speaks(p, host)
    /\ target \in DOMAIN players \ {host}
    /\ CloseLink(players[target].peer)

-----------------------------------------------------------------------------
(* Entities                                                                *)

NewEntity(owner, pos) ==
    /\ nextEntity <= EntityBound
    /\ entities' = Put(entities, nextEntity, [owner |-> owner, pos |-> pos])
    /\ nextEntity' = nextEntity + 1
    /\ UNCHANGED <<running, network, players, saved, host, nextPlayer, disk>>

\* The position of a spawn request is stored unchecked.
HandleEntitySpawnReq(p, id, pos) ==
    /\ Speaks(p, id)
    /\ Cardinality(DOMAIN entities) < MaxSyncEntities
    /\ NewEntity(id, pos)

\* A building's position is validated; the entity limit is not consulted.
HandleBuildRequest(p, id) ==
    /\ Speaks(p, id)
    /\ NewEntity(id, "ok")

Erase(E) ==
    /\ entities' = Drop(entities, E)
    /\ UNCHANGED <<running, network, players, saved, host, nextPlayer,
                   nextEntity, disk>>

HandleEntityDespawnReq(p, id, e) ==
    /\ Speaks(p, id)
    /\ entities[e].owner = id
    /\ Erase({e})

HandleBuildDismantle(p, id, e) ==
    /\ Speaks(p, id)
    /\ entities[e].owner = id \/ id = host
    /\ Erase({e})

\* Update, every 30 s: entities owned by an id that is not connected.
Orphans == {e \in DOMAIN entities :
               entities[e].owner # 0 /\ entities[e].owner \notin DOMAIN players}

OrphanCleanup ==
    /\ running
    /\ Orphans # {}
    /\ Erase(Orphans)

-----------------------------------------------------------------------------
(* The world save                                                          *)

\* savedForWrite: offline records overlaid with what connected players own;
\* of two connected players with one name, one record survives.
RecordsFor(n) ==
    LET live == {q \in DOMAIN players : players[q].name = n /\ Owned(q) # {}}
    IN  IF live # {} THEN {Owned(q) : q \in live}
        ELSE IF n \in DOMAIN saved THEN {saved[n]} ELSE {{}}

RecordNames ==
    DOMAIN saved \cup
    {players[q].name : q \in {r \in DOMAIN players : Owned(r) # {}}}

\* A save that succeeds.  (One that fails leaves the file as it was.)
WriteSave ==
    \E rec \in [RecordNames -> SUBSET EntityId] :
        /\ \A n \in RecordNames : rec[n] \in RecordsFor(n)
        /\ disk' = [entities |-> [e \in DOMAIN entities |-> entities[e].pos],
                    players  |-> rec]

SaveWorld ==
    /\ running
    /\ WriteSave
    /\ UNCHANGED <<running, memory, network>>

\* The end of the process: connections and memory are gone.
Exit ==
    /\ running' = FALSE
    /\ link' = [p \in Peers |-> "free"]
    /\ loopback' = [p \in Peers |-> FALSE]
    /\ peerData' = [p \in Peers |-> 0]
    /\ players' = Empty
    /\ entities' = Empty
    /\ saved' = Empty
    /\ host' = 0
    /\ nextPlayer' = 1
    /\ nextEntity' = 1

\* main(): 'stop' saves, then Stop() drops every connection.
Shutdown == /\ running
            /\ WriteSave
            /\ Exit

Crash == /\ running
         /\ Exit
         /\ UNCHANGED disk

\* LoadWorldFromFile walks the entity array in the file's order.  V is the
\* part it gets through: coordinates out of range are skipped, a non-finite
\* coordinate was written as null and throws, and MaxSyncEntities loaded
\* entities end the loop.
Valid(V) == {e \in V : disk.entities[e] = "ok"}

CanWalk(V) == /\ \A e \in V : disk.entities[e] # "nan"
              /\ Cardinality(Valid(V)) <= MaxSyncEntities

LoadedRecords(L) ==
    [n \in {m \in DOMAIN disk.players : disk.players[m] \cap L # {}} |->
        disk.players[n] \cap L]

\* Mutant: the id counter restarts at the largest id instead of after it.
LoadReusesMaxId(V) ==
    /\ CanWalk(V)
    /\ V = DOMAIN disk.entities \/ Cardinality(Valid(V)) = MaxSyncEntities
    /\ entities' = [e \in Valid(V) |-> [owner |-> 0, pos |-> "ok"]]
    /\ saved' = LoadedRecords(Valid(V))
    /\ \E maxId \in V \cup {0} : /\ \A e \in V : e <= maxId
                                /\ nextEntity' = maxId

\* Every entity comes back unowned; the id counter restarts after the largest
\* id seen.
LoadSucceeds(V) ==
    /\ CanWalk(V)
    /\ V = DOMAIN disk.entities \/ Cardinality(Valid(V)) = MaxSyncEntities
    /\ entities' = [e \in Valid(V) |-> [owner |-> 0, pos |-> "ok"]]
    /\ saved' = LoadedRecords(Valid(V))
    /\ \E maxId \in V \cup {0} : /\ \A e \in V : e <= maxId
                                /\ nextEntity' = maxId + 1

\* The exception leaves what was loaded so far in m_entities, no player
\* records, and LoadWorld does not take over the id counter.
LoadThrows(V) ==
    /\ CanWalk(V)
    /\ Cardinality(Valid(V)) < MaxSyncEntities
    /\ \E e \in DOMAIN disk.entities \ V : disk.entities[e] = "nan"
    /\ entities' = [e \in Valid(V) |-> [owner |-> 0, pos |-> "ok"]]
    /\ saved' = Empty
    /\ nextEntity' = nextEntity

Startup ==
    /\ ~running
    /\ running' = TRUE
    /\ \E V \in SUBSET DOMAIN disk.entities : LoadSucceeds(V) \/ LoadThrows(V)
    /\ UNCHANGED <<network, players, host, nextPlayer, disk>>

-----------------------------------------------------------------------------
SessionStep ==
    \/ \E p \in Peers, lb \in BOOLEAN : HandleConnect(p, lb)
    \/ \E p \in Peers, versionOk \in BOOLEAN : RejectHandshake(p, versionOk)
    \/ \E p \in Peers, n \in Names : AcceptHandshake(p, n)
    \/ \E p \in Peers, n \in Names : HandshakeAllocFailure(p, n)
    \/ \E p \in Peers : HandleDisconnect(p)
    \/ \E p \in Peers : RequestDisconnect(p)
    \/ \E id \in DOMAIN players : KickPlayer(id)
    \/ \E p \in Peers, target \in DOMAIN players : AdminKick(p, target)

EntityStep ==
    \/ \E p \in Peers, id \in DOMAIN players, pos \in Positions :
          HandleEntitySpawnReq(p, id, pos)
    \/ \E p \in Peers, id \in DOMAIN players : HandleBuildRequest(p, id)
    \/ \E p \in Peers, id \in DOMAIN players, e \in DOMAIN entities :
          HandleEntityDespawnReq(p, id, e)
    \/ \E p \in Peers, id \in DOMAIN players, e \in DOMAIN entities :
          HandleBuildDismantle(p, id, e)
    \/ OrphanCleanup

ProcessStep ==
    \/ SaveWorld
    \/ Shutdown
    \/ Crash
    \/ Startup

Next == SessionStep \/ EntityStep \/ ProcessStep

Spec == Init /\ [][Next]_vars

-----------------------------------------------------------------------------
(* Properties                                                              *)

\* Every map holds what its C++ type holds, with ids below the counters' caps.
TypeOK ==
    /\ running \in BOOLEAN
    /\ link \in [Peers -> {"free", "up", "closing"}]
    /\ loopback \in [Peers -> BOOLEAN]
    /\ peerData \in [Peers -> PlayerId \cup {0}]
    /\ players \in [DOMAIN players -> ConnectedPlayer]
    /\ DOMAIN players \subseteq PlayerId
    /\ entities \in [DOMAIN entities -> ServerEntity]
    /\ DOMAIN entities \subseteq EntityId
    /\ saved \in [DOMAIN saved -> SUBSET EntityId]
    /\ DOMAIN saved \subseteq Names
    /\ host \in PlayerId \cup {0}
    /\ nextPlayer \in 1 .. PlayerBound + 1
    /\ nextEntity \in 1 .. EntityBound + 1
    /\ disk.entities \in [DOMAIN disk.entities -> Positions \cup {"ok"}]
    /\ DOMAIN disk.entities \subseteq EntityId
    /\ disk.players \in [DOMAIN disk.players -> SUBSET EntityId]
    /\ DOMAIN disk.players \subseteq Names

\* peer->data and m_players agree: a player's slot carries its id and a slot
\* with an id has that player, so no handler ever acts for the wrong player
\* when ENet reuses a slot (GetPlayer, HandleDisconnect's trailing reset).
SessionsMatchSlots ==
    /\ \A id \in DOMAIN players : /\ peerData[players[id].peer] = id
                                  /\ link[players[id].peer] # "free"
    /\ \A p \in Peers : peerData[p] # 0 =>
          /\ peerData[p] \in DOMAIN players
          /\ players[peerData[p]].peer = p

\* The host is a connected player, and a server with players has one: the
\* admin commands always have exactly one rightful sender.
HostIsConnected == IF DOMAIN players = {} THEN host = 0
                                          ELSE host \in DOMAIN players

\* The three views of a session (the slots, m_players and the host) agree after
\* every join, kick, time-out, failed handshake and restart.
SessionsSound == SessionsMatchSlots /\ HostIsConnected

\* An entity is unowned or owned by a connected player, so the 30 s orphan
\* cleanup in Update finds nothing to destroy.
OwnersConnected == Orphans = {}

\* No entity can be claimed twice: two names never record the same entity,
\* an entity recorded for a name is not also in somebody's hands, and the
\* same holds of what a restart would load from the file.
NoDoubleClaim ==
    /\ \A m, n \in DOMAIN saved : m # n => saved[m] \cap saved[n] = {}
    /\ \A n \in DOMAIN saved, e \in DOMAIN entities :
          e \in saved[n] => entities[e].owner = 0
    /\ \A m, n \in DOMAIN disk.players :
          m # n => disk.players[m] \cap disk.players[n] = {}

\* Every preserved entity can come back to somebody: an unowned entity is
\* recorded under the name that may reclaim it ("record the player->entity
\* mapping so the player can reclaim them later", HandleDisconnect).
UnownedReclaimable ==
    \A e \in DOMAIN entities :
        entities[e].owner = 0 => \E n \in DOMAIN saved : e \in saved[n]

\* A fresh entity id collides with nothing: not with a live entity, which
\* operator[] would silently overwrite, and not with a stale id in a saved
\* record, which would hand the newcomer to somebody else on reconnection.
FreshIds == /\ \A e \in DOMAIN entities : e < nextEntity
            /\ \A n \in DOMAIN saved : \A e \in saved[n] : e < nextEntity

\* An entity has at any time one claimant who is there or can come back, and no
\* newcomer gets its id, through disconnects, reclaims, saves, crashes and loads.
OwnershipSound == OwnersConnected /\ NoDoubleClaim /\ UnownedReclaimable /\ FreshIds

\* Ownership only moves through "unowned": no step takes an entity from one
\* player and gives it to another.
NoTheft ==
    [][\A e \in DOMAIN entities \cap DOMAIN entities' :
          \/ entities'[e].owner = entities[e].owner
          \/ entities[e].owner = 0
          \/ entities'[e].owner = 0]_vars

\* A name gets back what was filed under it: whenever a player joins, every
\* live entity recorded for its name becomes its own in that same step.
ReclaimAll ==
    [][\A id \in DOMAIN players' \ DOMAIN players :
          LET n == players'[id].name IN
          n \in DOMAIN saved =>
             \A e \in saved[n] \cap DOMAIN entities :
                 entities'[e].owner = id]_vars
=============================================================================
