--------------------------- MODULE GameServerProofs ---------------------------
(* Theorems about GameServer, for every set of peers and names and every    *)
(* value of the limits.                                                     *)
EXTENDS GameServerLedger, TLAPS

-----------------------------------------------------------------------------
(* The map operators                                                       *)

\* The empty map has every value type.
LEMMA EmptyFacts == /\ DOMAIN Empty = {}
                    /\ \A S : Empty \in [DOMAIN Empty -> S]
  BY DEF Empty

\* SetOwner changes owners only, and only in the set it is given.
LEMMA SetOwnerFacts ==
    ASSUME TypeOK, NEW E, NEW q \in PlayerId \cup {0}
    PROVE  /\ DOMAIN SetOwner(E, q) = DOMAIN entities
           /\ SetOwner(E, q) \in [DOMAIN entities -> ServerEntity]
           /\ \A e \in DOMAIN entities :
                 SetOwner(E, q)[e].owner =
                     IF e \in E THEN q ELSE entities[e].owner
  BY DEF SetOwner, TypeOK, ServerEntity

-----------------------------------------------------------------------------
(* Type correctness                                                        *)

\* The maps of the server never hold a value outside their types.
LEMMA TypeInit == Init => TypeOK
  BY ConstantsAssumption, EmptyFacts DEF Init, TypeOK, PlayerId, EntityId, Empty

\* Joins, leaves, kicks and rejects keep the types.
LEMMA TypeSession == TypeOK /\ SessionStep => TypeOK'
  <1> USE ConstantsAssumption
  <1> SUFFICES ASSUME TypeOK, SessionStep PROVE TypeOK' OBVIOUS
  <1>1. ASSUME NEW p \in Peers, NEW lb \in BOOLEAN, HandleConnect(p, lb)
        PROVE  TypeOK'
    BY <1>1 DEF HandleConnect, TypeOK, memory, ServerEntity, PlayerId
  <1>2. ASSUME NEW p \in Peers, CloseLink(p)
        PROVE  TypeOK'
    BY <1>2 DEF CloseLink, TypeOK, memory
  <1>3. ASSUME NEW p \in Peers, NEW n \in Names, MayJoin(p, n)
        PROVE  /\ nextPlayer \in PlayerId
               /\ nextPlayer + 1 \in 1 .. PlayerBound + 1
               /\ SetOwner(Reclaimed(n), nextPlayer)
                     \in [DOMAIN SetOwner(Reclaimed(n), nextPlayer) -> ServerEntity]
               /\ DOMAIN SetOwner(Reclaimed(n), nextPlayer) \subseteq EntityId
               /\ Drop(saved, {n}) \in [DOMAIN Drop(saved, {n}) -> SUBSET EntityId]
               /\ DOMAIN Drop(saved, {n}) \subseteq Names
               /\ HostAfterJoin(nextPlayer, loopback[p]) \in PlayerId \cup {0}
    <2>1. nextPlayer \in PlayerId /\ nextPlayer + 1 \in 1 .. PlayerBound + 1
      BY <1>3 DEF MayJoin, TypeOK, PlayerId
    <2>2. saved \in [DOMAIN saved -> SUBSET EntityId] /\ DOMAIN saved \subseteq Names
      BY DEF TypeOK
    <2>3. HostAfterJoin(nextPlayer, loopback[p]) \in PlayerId \cup {0}
      BY <2>1 DEF HostAfterJoin, TypeOK
    <2>4. DOMAIN entities \subseteq EntityId
      BY DEF TypeOK
    <2>5. Drop(saved, {n}) \in [DOMAIN Drop(saved, {n}) -> SUBSET EntityId]
          /\ DOMAIN Drop(saved, {n}) \subseteq Names
      BY <2>2 DEF Drop, Restrict
    <2>6. QED
      BY <2>1, <2>3, <2>4, <2>5, SetOwnerFacts
  <1>4. ASSUME NEW p \in Peers, NEW n \in Names, AcceptHandshake(p, n)
        PROVE  TypeOK'
    <2>1. MayJoin(p, n)
      BY <1>4 DEF AcceptHandshake
    <2>2. [name |-> n, peer |-> p, isLoopback |-> loopback[p]] \in ConnectedPlayer
      BY DEF TypeOK, ConnectedPlayer
    <2>3. players' \in [DOMAIN players' -> ConnectedPlayer]
          /\ DOMAIN players' \subseteq PlayerId
      BY <1>3, <1>4, <2>1, <2>2 DEF AcceptHandshake, TypeOK, Put
    <2>4. peerData' \in [Peers -> PlayerId \cup {0}]
      BY <1>3, <1>4, <2>1 DEF AcceptHandshake, TypeOK
    <2>5. QED
      BY <1>3, <1>4, <2>1, <2>3, <2>4 DEF AcceptHandshake, TypeOK
  <1>5. ASSUME NEW p \in Peers, NEW n \in Names, HandshakeAllocFailure(p, n)
        PROVE  TypeOK'
    BY <1>3, <1>5 DEF HandshakeAllocFailure, TypeOK, network
  <1>6. ASSUME NEW p \in Peers, HandleDisconnect(p)
        PROVE  TypeOK'
    <2>1. /\ link' \in [Peers -> {"free", "up", "closing"}]
          /\ loopback' \in [Peers -> BOOLEAN]
          /\ peerData' \in [Peers -> PlayerId \cup {0}]
          /\ UNCHANGED <<running, nextPlayer, nextEntity, disk>>
      BY <1>6 DEF HandleDisconnect, TypeOK
    <2>2. CASE peerData[p] \in DOMAIN players
      <3> DEFINE id == peerData[p]
      <3>1. /\ entities' = SetOwner(Owned(id), 0)
            /\ saved' = Filed(id)
            /\ players' = Drop(players, {id})
            /\ host' \in DOMAIN players \cup {host, 0}
        BY <1>6, <2>2 DEF HandleDisconnect
      <3>2. entities' \in [DOMAIN entities' -> ServerEntity]
            /\ DOMAIN entities' \subseteq EntityId
        BY <3>1, SetOwnerFacts DEF TypeOK
      <3>3. saved' \in [DOMAIN saved' -> SUBSET EntityId] /\ DOMAIN saved' \subseteq Names
        <4>1. Owned(id) \in SUBSET EntityId /\ players[id].name \in Names
          BY <2>2 DEF Owned, TypeOK, ConnectedPlayer
        <4>2. saved \in [DOMAIN saved -> SUBSET EntityId] /\ DOMAIN saved \subseteq Names
          BY DEF TypeOK
        <4>3. QED
          BY <3>1, <4>1, <4>2 DEF Filed, Put
      <3>4. players' \in [DOMAIN players' -> ConnectedPlayer]
            /\ DOMAIN players' \subseteq PlayerId
        BY <3>1 DEF TypeOK, Drop, Restrict
      <3>5. host' \in PlayerId \cup {0}
        BY <3>1 DEF TypeOK
      <3>6. QED
        BY <2>1, <3>2, <3>3, <3>4, <3>5 DEF TypeOK
    <2>3. CASE peerData[p] \notin DOMAIN players
      <3>1. UNCHANGED <<entities, saved, players, host>>
        BY <1>6, <2>3 DEF HandleDisconnect
      <3>2. QED
        BY <2>1, <3>1 DEF TypeOK
    <2>4. QED
      BY <2>2, <2>3
  <1>7. \A id \in DOMAIN players : players[id].peer \in Peers
    BY DEF TypeOK, ConnectedPlayer
  <1>8. QED
    BY <1>1, <1>2, <1>4, <1>5, <1>6, <1>7
       DEF SessionStep, RejectHandshake, RequestDisconnect, KickPlayer, AdminKick

\* Spawns, builds, despawns, dismantling and orphan cleanup keep the types.
LEMMA TypeEntity == TypeOK /\ EntityStep => TypeOK'
  <1> USE ConstantsAssumption
  <1> SUFFICES ASSUME TypeOK, EntityStep PROVE TypeOK' OBVIOUS
  <1>1. ASSUME NEW owner \in DOMAIN players, NEW pos \in Positions \cup {"ok"},
               NewEntity(owner, pos)
        PROVE  TypeOK'
    <2>1. nextEntity \in EntityId /\ nextEntity' \in 1 .. EntityBound + 1
      BY <1>1 DEF NewEntity, TypeOK, EntityId
    <2>2. [owner |-> owner, pos |-> pos] \in ServerEntity
      BY DEF TypeOK, ServerEntity
    <2>3. entities' \in [DOMAIN entities' -> ServerEntity]
          /\ DOMAIN entities' \subseteq EntityId
      BY <1>1, <2>1, <2>2 DEF NewEntity, TypeOK, Put
    <2>4. QED
      BY <1>1, <2>1, <2>3 DEF NewEntity, TypeOK, network
  <1>2. ASSUME NEW E, Erase(E)
        PROVE  TypeOK'
    <2>1. entities' \in [DOMAIN entities' -> ServerEntity]
          /\ DOMAIN entities' \subseteq EntityId
      BY <1>2 DEF Erase, TypeOK, Drop, Restrict
    <2>2. QED
      BY <1>2, <2>1 DEF Erase, TypeOK, network
  <1>3. QED
    BY <1>1, <1>2 DEF EntityStep, HandleEntitySpawnReq, HandleBuildRequest,
       HandleEntityDespawnReq, HandleBuildDismantle, OrphanCleanup

\* Saving, stopping, crashing and loading keep the types.
LEMMA TypeProcess == TypeOK /\ ProcessStep => TypeOK'
  <1> USE ConstantsAssumption
  <1> SUFFICES ASSUME TypeOK, ProcessStep PROVE TypeOK' OBVIOUS
  <1> DEFINE DiskOK(d) ==
        /\ d.entities \in [DOMAIN d.entities -> Positions \cup {"ok"}]
        /\ DOMAIN d.entities \subseteq EntityId
        /\ d.players \in [DOMAIN d.players -> SUBSET EntityId]
        /\ DOMAIN d.players \subseteq Names
  <1>1. WriteSave => DiskOK(disk')
    <2>1. SUFFICES ASSUME NEW rec \in [RecordNames -> SUBSET EntityId],
                          disk' = [entities |-> [e \in DOMAIN entities |-> entities[e].pos],
                                   players  |-> rec]
                   PROVE  DiskOK(disk')
      BY DEF WriteSave
    <2>2. RecordNames \subseteq Names
      BY DEF RecordNames, TypeOK, ConnectedPlayer
    <2>3. \A e \in DOMAIN entities : entities[e].pos \in Positions \cup {"ok"}
      BY DEF TypeOK, ServerEntity
    <2>4. DOMAIN entities \subseteq EntityId
      BY DEF TypeOK
    <2>5. QED
      BY <2>1, <2>2, <2>3, <2>4
  <1>2. Exit /\ DiskOK(disk') => TypeOK'
    <2>1. SUFFICES ASSUME Exit, DiskOK(disk') PROVE TypeOK'
      OBVIOUS
    <2>2. /\ 1 \in 1 .. PlayerBound + 1
          /\ 1 \in 1 .. EntityBound + 1
      OBVIOUS
    <2>3. QED
      BY <2>1, <2>2, EmptyFacts DEF Exit, TypeOK
  <1>3. DiskOK(disk)
    BY DEF TypeOK
  <1>4. CASE SaveWorld
    <2>1. DiskOK(disk')
      BY <1>1, <1>4 DEF SaveWorld
    <2>2. QED
      BY <1>4, <2>1 DEF SaveWorld, TypeOK, memory, network
  <1>5. CASE Shutdown
    BY <1>1, <1>2, <1>5 DEF Shutdown
  <1>6. CASE Crash
    <2>1. DiskOK(disk')
      BY <1>3, <1>6 DEF Crash
    <2>2. QED
      BY <1>2, <1>6, <2>1 DEF Crash
  <1>7. CASE Startup
    <2>1. PICK V \in SUBSET DOMAIN disk.entities : LoadSucceeds(V) \/ LoadThrows(V)
      BY <1>7 DEF Startup
    <2>2. V \subseteq EntityId /\ Valid(V) \subseteq EntityId
      BY <1>3, <2>1 DEF Valid
    <2>3. entities' = [e \in Valid(V) |-> [owner |-> 0, pos |-> "ok"]]
      BY <2>1 DEF LoadSucceeds, LoadThrows
    <2>4. entities' \in [DOMAIN entities' -> ServerEntity]
          /\ DOMAIN entities' \subseteq EntityId
      BY <2>2, <2>3 DEF ServerEntity
    <2>5. saved' \in [DOMAIN saved' -> SUBSET EntityId] /\ DOMAIN saved' \subseteq Names
      <3>1. CASE LoadSucceeds(V)
        BY <1>3, <3>1 DEF LoadSucceeds, LoadedRecords
      <3>2. CASE LoadThrows(V)
        BY <3>2, EmptyFacts DEF LoadThrows
      <3>3. QED
        BY <2>1, <3>1, <3>2
    <2>6. nextEntity' \in 1 .. EntityBound + 1
      <3>1. CASE LoadSucceeds(V)
        <4>1. PICK maxId \in V \cup {0} : nextEntity' = maxId + 1
          BY <3>1 DEF LoadSucceeds
        <4>2. QED
          BY <2>2, <4>1 DEF EntityId
      <3>2. CASE LoadThrows(V)
        BY <3>2 DEF LoadThrows, TypeOK
      <3>3. QED
        BY <2>1, <3>1, <3>2
    <2>7. QED
      BY <1>7, <2>4, <2>5, <2>6 DEF Startup, TypeOK, network
  <1>8. QED
    BY <1>4, <1>5, <1>6, <1>7 DEF ProcessStep

\* The server's maps, counters and save file keep their types: no handler
\* stores an id outside the ids handed out or a record under a foreign name.
THEOREM TypeCorrect == Spec => []TypeOK
  <1>1. TypeOK /\ [Next]_vars => TypeOK'
    <2>1. TypeOK /\ UNCHANGED vars => TypeOK'
      BY DEF TypeOK, vars
    <2>2. QED
      BY <2>1, TypeSession, TypeEntity, TypeProcess DEF Next
  <1>2. QED
    BY <1>1, TypeInit, PTL DEF Spec

-----------------------------------------------------------------------------
(* Sessions                                                                *)

\* Ids are handed out in increasing order, so the next one is new.
PlayersBelow == \A id \in DOMAIN players : id < nextPlayer

SessionInv == TypeOK /\ SessionsMatchSlots /\ PlayersBelow

\* Slots, players and the id counter stay in agreement over one step.
LEMMA SessionStepInv == SessionInv /\ TypeOK' /\ Next => SessionInv'
  <1> USE ConstantsAssumption
  <1> SUFFICES ASSUME SessionInv, TypeOK', Next
               PROVE  SessionsMatchSlots' /\ PlayersBelow'
    BY DEF SessionInv
  <1>0. TypeOK /\ SessionsMatchSlots /\ PlayersBelow
    BY DEF SessionInv
  <1>1. ASSUME UNCHANGED <<network, players, nextPlayer>>
        PROVE  SessionsMatchSlots' /\ PlayersBelow'
    BY <1>0, <1>1 DEF SessionsMatchSlots, PlayersBelow, network
  <1>2. ASSUME NEW p \in Peers, NEW lb \in BOOLEAN, HandleConnect(p, lb)
        PROVE  SessionsMatchSlots' /\ PlayersBelow'
    BY <1>0, <1>2 DEF HandleConnect, SessionsMatchSlots, PlayersBelow, memory,
       TypeOK, ConnectedPlayer
  <1>3. ASSUME NEW p \in Peers, CloseLink(p)
        PROVE  SessionsMatchSlots' /\ PlayersBelow'
    BY <1>0, <1>3 DEF CloseLink, SessionsMatchSlots, PlayersBelow, memory,
       TypeOK, ConnectedPlayer
  <1>4. ASSUME NEW p \in Peers, NEW n \in Names, AcceptHandshake(p, n)
        PROVE  SessionsMatchSlots' /\ PlayersBelow'
    <2> DEFINE rec == [name |-> n, peer |-> p, isLoopback |-> loopback[p]]
    <2>1. /\ DOMAIN players' = DOMAIN players \cup {nextPlayer}
          /\ players'[nextPlayer] = rec
          /\ \A x \in DOMAIN players : x # nextPlayer => players'[x] = players[x]
      <3>1. players' = Put(players, nextPlayer, rec)
        BY <1>4 DEF AcceptHandshake
      <3>2. QED
        BY <3>1 DEF Put
    <2>2. /\ peerData' = [peerData EXCEPT ![p] = nextPlayer]
          /\ link' = link /\ link[p] = "up" /\ peerData[p] = 0
          /\ nextPlayer' = nextPlayer + 1
      BY <1>4 DEF AcceptHandshake, MayJoin
    <2>3. nextPlayer \notin DOMAIN players
      BY <1>0 DEF PlayersBelow, TypeOK, PlayerId
    <2>4. PlayersBelow'
      BY <1>0, <2>1, <2>2 DEF PlayersBelow, TypeOK, PlayerId
    <2>5. \A id \in DOMAIN players : players[id].peer # p /\ players[id].peer \in Peers
      BY <1>0, <2>2 DEF SessionsMatchSlots, TypeOK, PlayerId, ConnectedPlayer
    <2>6. ASSUME NEW id \in DOMAIN players'
          PROVE  peerData'[players'[id].peer] = id /\ link'[players'[id].peer] # "free"
      <3>1. CASE id = nextPlayer
        BY <1>0, <2>1, <2>2, <3>1 DEF TypeOK
      <3>2. CASE id # nextPlayer
        BY <1>0, <2>1, <2>2, <2>5, <3>2 DEF TypeOK, SessionsMatchSlots
      <3>3. QED
        BY <3>1, <3>2
    <2>7. ASSUME NEW q \in Peers, peerData'[q] # 0
          PROVE  peerData'[q] \in DOMAIN players' /\ players'[peerData'[q]].peer = q
      <3>1. CASE q = p
        BY <1>0, <2>1, <2>2, <3>1 DEF TypeOK
      <3>2. CASE q # p
        BY <1>0, <2>1, <2>2, <2>3, <2>7, <3>2 DEF TypeOK, SessionsMatchSlots
      <3>3. QED
        BY <3>1, <3>2
    <2>8. QED
      BY <2>4, <2>6, <2>7 DEF SessionsMatchSlots
  <1>5. ASSUME NEW p \in Peers, NEW n \in Names, HandshakeAllocFailure(p, n)
        PROVE  SessionsMatchSlots' /\ PlayersBelow'
    BY <1>0, <1>5 DEF HandshakeAllocFailure, SessionsMatchSlots, PlayersBelow,
       network, TypeOK, PlayerId
  <1>6. ASSUME NEW p \in Peers, HandleDisconnect(p)
        PROVE  SessionsMatchSlots' /\ PlayersBelow'
    <2>1. /\ link' = [link EXCEPT ![p] = "free"]
          /\ peerData' = [peerData EXCEPT ![p] = 0]
          /\ nextPlayer' = nextPlayer
      BY <1>6 DEF HandleDisconnect
    <2>2. CASE peerData[p] \in DOMAIN players
      <3>1. /\ DOMAIN players' = DOMAIN players \ {peerData[p]}
            /\ \A x \in DOMAIN players' : players'[x] = players[x]
        <4>1. players' = Drop(players, {peerData[p]})
          BY <1>6, <2>2 DEF HandleDisconnect
        <4>2. QED
          BY <4>1 DEF Drop, Restrict
      <3>2. \A id \in DOMAIN players' : players[id].peer # p /\ players[id].peer \in Peers
        BY <1>0, <3>1 DEF SessionsMatchSlots, TypeOK, ConnectedPlayer
      <3>3. QED
        BY <1>0, <2>1, <3>1, <3>2 DEF SessionsMatchSlots, PlayersBelow, TypeOK
    <2>3. CASE peerData[p] \notin DOMAIN players
      <3>1. players' = players
        BY <1>6, <2>3 DEF HandleDisconnect
      <3>2. \A id \in DOMAIN players : players[id].peer # p /\ players[id].peer \in Peers
        BY <1>0, <2>3 DEF SessionsMatchSlots, TypeOK, ConnectedPlayer
      <3>3. QED
        BY <1>0, <2>1, <3>1, <3>2 DEF SessionsMatchSlots, PlayersBelow, TypeOK
    <2>4. QED
      BY <2>2, <2>3
  <1>7. ASSUME Exit
        PROVE  SessionsMatchSlots' /\ PlayersBelow'
    BY <1>7, EmptyFacts DEF Exit, SessionsMatchSlots, PlayersBelow
  <1>8. \A id \in DOMAIN players : players[id].peer \in Peers
    BY <1>0 DEF TypeOK, ConnectedPlayer
  <1>9. CASE SessionStep
    BY <1>2, <1>3, <1>4, <1>5, <1>6, <1>8, <1>9 DEF SessionStep,
       RejectHandshake, RequestDisconnect, KickPlayer, AdminKick
  <1>10. CASE EntityStep
    BY <1>1, <1>10 DEF EntityStep, HandleEntitySpawnReq, HandleBuildRequest,
       HandleEntityDespawnReq, HandleBuildDismantle, OrphanCleanup, NewEntity, Erase
  <1>11. CASE ProcessStep
    BY <1>1, <1>7, <1>11 DEF ProcessStep, SaveWorld, Shutdown, Crash, Startup, memory
  <1>12. QED
    BY <1>9, <1>10, <1>11 DEF Next

\* Slots, players and the id counter agree throughout.
LEMMA SessionInvariant == Spec => []SessionInv
  <1>1. Init => SessionInv
    BY TypeInit, EmptyFacts DEF Init, SessionInv, SessionsMatchSlots, PlayersBelow
  <1>2. SessionInv /\ TypeOK' /\ [Next]_vars => SessionInv'
    <2>1. SessionInv /\ UNCHANGED vars => SessionInv'
      BY DEF SessionInv, TypeOK, SessionsMatchSlots, PlayersBelow, vars
    <2>2. QED
      BY <2>1, SessionStepInv
  <1>3. QED
    BY <1>1, <1>2, TypeCorrect, PTL DEF Spec

\* GetPlayer never confuses two players: whatever connects, leaves, fails
\* half-way or is kicked, slots and players stay in one-to-one agreement.
THEOREM SessionsAgree == Spec => []SessionsMatchSlots
  <1>1. SessionInv => SessionsMatchSlots
    BY DEF SessionInv
  <1>2. QED
    BY <1>1, SessionInvariant, PTL

-----------------------------------------------------------------------------
(* What the handlers that move claims do to the maps                       *)

\* A join, acknowledged or not, hands the reclaimed entities to the new id
\* and forgets the record of the name.
LEMMA JoinEffect ==
    ASSUME TypeOK, NEW n \in Names, nextPlayer \in PlayerId,
           entities' = SetOwner(Reclaimed(n), nextPlayer),
           saved' = Drop(saved, {n})
    PROVE  /\ DOMAIN entities' = DOMAIN entities
           /\ \A e \in DOMAIN entities :
                 entities'[e].owner = IF e \in Reclaimed(n) THEN nextPlayer
                                      ELSE entities[e].owner
           /\ DOMAIN saved' = DOMAIN saved \ {n}
           /\ \A m \in DOMAIN saved' : saved'[m] = saved[m]
           /\ \A e \in DOMAIN entities :
                 e \in Reclaimed(n) <=> /\ n \in DOMAIN saved
                                       /\ e \in saved[n]
                                       /\ entities[e].owner = 0
  <1>1. /\ DOMAIN saved' = DOMAIN saved \ {n}
        /\ \A m \in DOMAIN saved' : saved'[m] = saved[m]
    BY DEF Drop, Restrict
  <1>2. \A e \in DOMAIN entities :
           e \in Reclaimed(n) <=> /\ n \in DOMAIN saved
                                 /\ e \in saved[n]
                                 /\ entities[e].owner = 0
    BY DEF Reclaimed
  <1>3. /\ DOMAIN entities' = DOMAIN entities
        /\ \A e \in DOMAIN entities :
              entities'[e].owner = IF e \in Reclaimed(n) THEN nextPlayer
                                   ELSE entities[e].owner
    BY SetOwnerFacts
  <1>4. QED
    BY <1>1, <1>2, <1>3

\* A leave turns the player's entities unowned and files them.
LEMMA LeaveEffect ==
    ASSUME TypeOK, NEW p \in Peers, HandleDisconnect(p),
           peerData[p] \in DOMAIN players
    PROVE  LET id == peerData[p] IN
           /\ id # 0 /\ id \in PlayerId /\ players[id].name \in Names
           /\ DOMAIN entities' = DOMAIN entities
           /\ \A e \in DOMAIN entities :
                 entities'[e].owner = IF entities[e].owner = id THEN 0
                                      ELSE entities[e].owner
           /\ \/ saved' = saved /\ Owned(id) = {}
              \/ /\ DOMAIN saved' = DOMAIN saved \cup {players[id].name}
                 /\ saved'[players[id].name] = Owned(id)
                 /\ \A m \in DOMAIN saved :
                       m # players[id].name => saved'[m] = saved[m]
           /\ DOMAIN players' = DOMAIN players \ {id}
           /\ \A q \in DOMAIN players' : players'[q] = players[q]
           /\ host # id => host' = host
           /\ host = id => host' \in IF DOMAIN players' = {} THEN {0}
                                     ELSE DOMAIN players'
  <1> DEFINE id == peerData[p]
  <1>1. /\ entities' = SetOwner(Owned(id), 0)
        /\ saved' = Filed(id)
        /\ players' = Drop(players, {id})
        /\ host' \in IF host # id THEN {host}
                     ELSE IF DOMAIN players \ {id} = {} THEN {0}
                     ELSE DOMAIN players \ {id}
    BY DEF HandleDisconnect
  <1>2. id # 0 /\ id \in PlayerId /\ players[id].name \in Names
    BY DEF TypeOK, PlayerId, ConnectedPlayer
  <1>3. /\ DOMAIN players' = DOMAIN players \ {id}
        /\ \A q \in DOMAIN players' : players'[q] = players[q]
    BY <1>1 DEF Drop, Restrict
  <1>4. /\ DOMAIN entities' = DOMAIN entities
        /\ \A e \in DOMAIN entities :
              entities'[e].owner = IF entities[e].owner = id THEN 0
                                   ELSE entities[e].owner
    BY <1>1, SetOwnerFacts DEF Owned
  <1>5. \/ saved' = saved /\ Owned(id) = {}
        \/ /\ DOMAIN saved' = DOMAIN saved \cup {players[id].name}
           /\ saved'[players[id].name] = Owned(id)
           /\ \A m \in DOMAIN saved :
                 m # players[id].name => saved'[m] = saved[m]
    BY <1>1 DEF Filed, Put
  <1>6. QED
    BY <1>1, <1>2, <1>3, <1>4, <1>5

\* A handler that adds an entity uses the next id.
LEMMA NewEntityEffect ==
    ASSUME TypeOK, NEW owner, NEW pos, NewEntity(owner, pos)
    PROVE  /\ nextEntity' = nextEntity + 1
           /\ DOMAIN entities' = DOMAIN entities \cup {nextEntity}
           /\ entities'[nextEntity].owner = owner
           /\ \A e \in DOMAIN entities :
                 e # nextEntity => entities'[e] = entities[e]
           /\ UNCHANGED <<running, players, saved, host, nextPlayer, disk>>
  BY DEF NewEntity, Put

\* A handler that removes entities leaves the others as they were.
LEMMA EraseEffect ==
    ASSUME NEW E, Erase(E)
    PROVE  /\ DOMAIN entities' = DOMAIN entities \ E
           /\ \A e \in DOMAIN entities' : entities'[e] = entities[e]
           /\ UNCHANGED <<running, players, saved, host, nextPlayer, nextEntity, disk>>
  BY DEF Erase, Drop, Restrict

\* A load brings entities back unowned and keeps the records of those.
LEMMA LoadEffect ==
    ASSUME TypeOK, Startup
    PROVE  /\ \A e \in DOMAIN entities' : entities'[e].owner = 0
           /\ \A n \in DOMAIN saved' : n \in DOMAIN disk.players
           /\ \A n \in DOMAIN saved' : saved'[n] \subseteq disk.players[n]
           /\ \A n \in DOMAIN saved' : \A e \in saved'[n] :
                 e \in DOMAIN entities' /\ e < nextEntity'
           /\ UNCHANGED <<players, host, nextPlayer, disk>>
  <1>1. PICK V \in SUBSET DOMAIN disk.entities : LoadSucceeds(V) \/ LoadThrows(V)
    BY DEF Startup
  <1>2. entities' = [e \in Valid(V) |-> [owner |-> 0, pos |-> "ok"]]
    BY <1>1 DEF LoadSucceeds, LoadThrows
  <1>3. UNCHANGED <<players, host, nextPlayer, disk>>
    BY DEF Startup
  <1>4. CASE LoadSucceeds(V)
    <2>1. saved' = LoadedRecords(Valid(V))
      BY <1>4 DEF LoadSucceeds
    <2>2. PICK maxId \in V \cup {0} :
             (\A e \in V : e <= maxId) /\ nextEntity' = maxId + 1
      BY <1>4 DEF LoadSucceeds
    <2>3. \A e \in Valid(V) : e \in Nat /\ e < nextEntity'
      BY <2>2, ConstantsAssumption DEF Valid, TypeOK, EntityId
    <2>4. QED
      BY <1>2, <1>3, <2>1, <2>3 DEF LoadedRecords
  <1>5. CASE LoadThrows(V)
    BY <1>2, <1>3, <1>5, EmptyFacts DEF LoadThrows
  <1>6. QED
    BY <1>1, <1>4, <1>5

\* A save records, for each name, what one connected player of that name owns
\* or else what was filed for the name.
LEMMA SaveEffect ==
    ASSUME TypeOK, WriteSave
    PROVE  /\ DOMAIN disk'.players = RecordNames
           /\ \A n \in RecordNames : disk'.players[n] \in RecordsFor(n)
           /\ disk'.entities = [e \in DOMAIN entities |-> entities[e].pos]
  BY DEF WriteSave

-----------------------------------------------------------------------------
(* Claims                                                                  *)

\* Whatever is recorded or in a player's hands has an id already handed out;
\* what a failed load left behind unowned need not.
ClaimsBelow ==
    /\ \A n \in DOMAIN saved : \A e \in saved[n] : e < nextEntity
    /\ \A e \in DOMAIN entities : entities[e].owner # 0 => e < nextEntity

ClaimInv == TypeOK /\ NoDoubleClaim /\ ClaimsBelow

\* Exclusive claims survive one step, whatever fails in it.
LEMMA ClaimStepInv == ClaimInv /\ TypeOK' /\ Next => ClaimInv'
  <1> USE ConstantsAssumption
  <1> SUFFICES ASSUME ClaimInv, TypeOK', Next
               PROVE  NoDoubleClaim' /\ ClaimsBelow'
    BY DEF ClaimInv
  <1>0. TypeOK /\ NoDoubleClaim /\ ClaimsBelow
    BY DEF ClaimInv
  <1>1. nextEntity \in Nat /\ (DOMAIN entities \subseteq Nat)
    BY <1>0 DEF TypeOK, EntityId
  <1>2. ASSUME UNCHANGED <<entities, saved, nextEntity, disk>>
        PROVE  NoDoubleClaim' /\ ClaimsBelow'
    BY <1>0, <1>2 DEF NoDoubleClaim, ClaimsBelow
  <1>3. ASSUME NEW n \in Names, nextPlayer \in PlayerId,
               entities' = SetOwner(Reclaimed(n), nextPlayer),
               saved' = Drop(saved, {n}),
               UNCHANGED <<nextEntity, disk>>
        PROVE  NoDoubleClaim' /\ ClaimsBelow'
    <2>0. /\ DOMAIN entities' = DOMAIN entities
          /\ \A e \in DOMAIN entities :
                entities'[e].owner = IF e \in Reclaimed(n) THEN nextPlayer
                                     ELSE entities[e].owner
          /\ DOMAIN saved' = DOMAIN saved \ {n}
          /\ \A m \in DOMAIN saved' : saved'[m] = saved[m]
          /\ \A e \in DOMAIN entities :
                e \in Reclaimed(n) => n \in DOMAIN saved /\ e \in saved[n]
      BY <1>0, <1>3, JoinEffect
    <2>1. NoDoubleClaim'
      <3>1. \A m \in DOMAIN saved', e \in DOMAIN entities' :
               e \in saved'[m] => entities'[e].owner = 0
        BY <1>0, <2>0 DEF NoDoubleClaim
      <3>2. \A l, m \in DOMAIN saved' : l # m => saved'[l] \cap saved'[m] = {}
        BY <1>0, <2>0 DEF NoDoubleClaim
      <3>3. QED
        BY <1>0, <1>3, <3>1, <3>2 DEF NoDoubleClaim
    <2>2. ClaimsBelow'
      BY <1>0, <1>3, JoinEffect DEF ClaimsBelow
    <2>3. QED
      BY <2>1, <2>2
  <1>4. ASSUME NEW p \in Peers, HandleDisconnect(p)
        PROVE  NoDoubleClaim' /\ ClaimsBelow'
    <2>0. UNCHANGED <<nextEntity, disk>>
      BY <1>4 DEF HandleDisconnect
    <2>1. CASE peerData[p] \in DOMAIN players
      <3> DEFINE id == peerData[p]
                 n  == players[id].name
      <3>0. /\ id # 0
            /\ DOMAIN entities' = DOMAIN entities
            /\ \A e \in DOMAIN entities :
                  entities'[e].owner = IF entities[e].owner = id THEN 0
                                       ELSE entities[e].owner
            /\ \/ saved' = saved
               \/ /\ DOMAIN saved' = DOMAIN saved \cup {n}
                  /\ saved'[n] = Owned(id)
                  /\ \A m \in DOMAIN saved : m # n => saved'[m] = saved[m]
        BY <1>0, <1>4, <2>1, LeaveEffect
      <3> HIDE DEF id, n
      <3>1. \A m \in DOMAIN saved', e \in DOMAIN entities' :
               e \in saved'[m] => entities'[e].owner = 0
        BY <1>0, <3>0 DEF NoDoubleClaim, Owned
      <3>2. \A m \in DOMAIN saved : saved[m] \cap Owned(id) = {}
        BY <1>0, <3>0 DEF NoDoubleClaim, Owned
      <3>3. \A l, m \in DOMAIN saved' : l # m => saved'[l] \cap saved'[m] = {}
        BY <1>0, <3>0, <3>2 DEF NoDoubleClaim
      <3>4. NoDoubleClaim'
        BY <1>0, <2>0, <3>1, <3>3 DEF NoDoubleClaim
      <3>5. ClaimsBelow'
        BY <1>0, <2>0, <3>0 DEF ClaimsBelow, Owned
      <3>6. QED
        BY <3>4, <3>5
    <2>2. CASE peerData[p] \notin DOMAIN players
      BY <1>2, <1>4, <2>0, <2>2 DEF HandleDisconnect
    <2>3. QED
      BY <2>1, <2>2
  <1>5. ASSUME NEW owner, NEW pos, NewEntity(owner, pos)
        PROVE  NoDoubleClaim' /\ ClaimsBelow'
    <2>1. NoDoubleClaim'
      BY <1>0, <1>1, <1>5, NewEntityEffect DEF NoDoubleClaim, ClaimsBelow
    <2>2. \A n \in DOMAIN saved : saved[n] \subseteq Nat
      BY <1>0 DEF TypeOK, EntityId
    <2>3. ClaimsBelow'
      BY <1>0, <1>1, <1>5, <2>2, NewEntityEffect DEF ClaimsBelow
    <2>4. QED
      BY <2>1, <2>3
  <1>6. ASSUME NEW E, Erase(E)
        PROVE  NoDoubleClaim' /\ ClaimsBelow'
    <2>1. /\ DOMAIN entities' \subseteq DOMAIN entities
          /\ \A e \in DOMAIN entities' : entities'[e] = entities[e]
          /\ UNCHANGED <<saved, nextEntity, disk>>
      BY <1>6, EraseEffect
    <2>2. QED
      BY <1>0, <2>1 DEF NoDoubleClaim, ClaimsBelow
  <1>7. WriteSave => \A m, n \in DOMAIN disk'.players :
                        m # n => disk'.players[m] \cap disk'.players[n] = {}
    <2> SUFFICES ASSUME WriteSave,
                        NEW m \in RecordNames, NEW n \in RecordNames, m # n,
                        NEW e, e \in disk'.players[m], e \in disk'.players[n]
                 PROVE  FALSE
      BY <1>0, SaveEffect
    <2>1. \A k \in RecordNames :
             \/ \E q \in DOMAIN players : /\ players[q].name = k
                                        /\ disk'.players[k] = Owned(q)
             \/ k \in DOMAIN saved /\ disk'.players[k] = saved[k]
             \/ disk'.players[k] = {}
      BY <1>0, SaveEffect DEF RecordsFor
    <2>2. \A q \in DOMAIN players : q # 0
      BY <1>0 DEF TypeOK, PlayerId
    <2>3. QED
      BY <1>0, <2>1, <2>2 DEF NoDoubleClaim, Owned
  <1>8. Exit /\ (\/ UNCHANGED disk
                 \/ WriteSave) => NoDoubleClaim' /\ ClaimsBelow'
    BY <1>0, <1>7, EmptyFacts DEF Exit, NoDoubleClaim, ClaimsBelow
  <1>9. CASE SessionStep
    <2>1. ASSUME NEW p \in Peers, NEW n \in Names,
                 AcceptHandshake(p, n) \/ HandshakeAllocFailure(p, n)
          PROVE  NoDoubleClaim' /\ ClaimsBelow'
      <3>1. nextPlayer \in PlayerId
        BY <1>0, <2>1 DEF AcceptHandshake, HandshakeAllocFailure, MayJoin, TypeOK, PlayerId
      <3>2. QED
        BY <1>3, <2>1, <3>1 DEF AcceptHandshake, HandshakeAllocFailure
    <2>2. QED
      BY <1>2, <1>4, <1>9, <2>1 DEF SessionStep, HandleConnect, RejectHandshake,
         RequestDisconnect, KickPlayer, AdminKick, CloseLink, memory
  <1>10. CASE EntityStep
    BY <1>5, <1>6, <1>10 DEF EntityStep, HandleEntitySpawnReq, HandleBuildRequest,
       HandleEntityDespawnReq, HandleBuildDismantle, OrphanCleanup
  <1>11. CASE SaveWorld
    BY <1>0, <1>7, <1>11 DEF SaveWorld, memory, NoDoubleClaim, ClaimsBelow
  <1>12. CASE Shutdown \/ Crash
    BY <1>8, <1>12 DEF Shutdown, Crash
  <1>13. CASE Startup
    <2>1. NoDoubleClaim'
      BY <1>0, <1>13, LoadEffect DEF NoDoubleClaim
    <2>2. ClaimsBelow'
      BY <1>0, <1>13, LoadEffect DEF ClaimsBelow
    <2>3. QED
      BY <2>1, <2>2
  <1>14. QED
    BY <1>9, <1>10, <1>11, <1>12, <1>13 DEF Next, ProcessStep

\* The claim invariant is inductive, so it holds throughout.
LEMMA ClaimInvariant == Spec => []ClaimInv
  <1>1. Init => ClaimInv
    BY TypeInit, EmptyFacts DEF Init, ClaimInv, NoDoubleClaim, ClaimsBelow
  <1>2. ClaimInv /\ TypeOK' /\ [Next]_vars => ClaimInv'
    <2>1. ClaimInv /\ UNCHANGED vars => ClaimInv'
      BY DEF ClaimInv, TypeOK, NoDoubleClaim, ClaimsBelow, vars
    <2>2. QED
      BY <2>1, ClaimStepInv
  <1>3. QED
    BY <1>1, <1>2, TypeCorrect, PTL DEF Spec

\* No entity is ever claimable by two names or held while claimable: not with
\* shared names, failed handshakes, crashes or damaged saves.
THEOREM ClaimsExclusive == Spec => []NoDoubleClaim
  <1>1. ClaimInv => NoDoubleClaim
    BY DEF ClaimInv
  <1>2. QED
    BY <1>1, ClaimInvariant, PTL

-----------------------------------------------------------------------------
(* The host and the owners                                                 *)

RoleInv == TypeOK /\ HostIsConnected /\ OwnersConnected

\* Without allocation failures one step keeps host and owners connected.
LEMMA RoleStepInv ==
    ASSUME ~AllocCanFail PROVE RoleInv /\ TypeOK' /\ Next => RoleInv'
  <1> USE ConstantsAssumption
  <1> SUFFICES ASSUME RoleInv, TypeOK', Next
               PROVE  HostIsConnected' /\ OwnersConnected'
    BY DEF RoleInv
  <1>0. TypeOK /\ HostIsConnected /\ OwnersConnected
    BY DEF RoleInv
  <1>1. ASSUME UNCHANGED <<players, entities, host>>
        PROVE  HostIsConnected' /\ OwnersConnected'
    BY <1>0, <1>1 DEF HostIsConnected, OwnersConnected, Orphans
  <1>2. ASSUME NEW p \in Peers, NEW n \in Names, AcceptHandshake(p, n)
        PROVE  HostIsConnected' /\ OwnersConnected'
    <2>1. nextPlayer \in PlayerId
      BY <1>0, <1>2 DEF AcceptHandshake, MayJoin, TypeOK, PlayerId
    <2>2. DOMAIN players' = DOMAIN players \cup {nextPlayer}
      BY <1>2 DEF AcceptHandshake, Put
    <2>3. HostIsConnected'
      BY <1>0, <1>2, <2>2 DEF AcceptHandshake, HostAfterJoin, HostIsConnected
    <2>4. /\ DOMAIN entities' = DOMAIN entities
          /\ \A e \in DOMAIN entities :
                entities'[e].owner \in {nextPlayer, entities[e].owner}
      BY <1>0, <1>2, <2>1, JoinEffect DEF AcceptHandshake
    <2>5. OwnersConnected'
      BY <1>0, <2>2, <2>4 DEF OwnersConnected, Orphans
    <2>6. QED
      BY <2>3, <2>5
  <1>3. ASSUME NEW p \in Peers, HandleDisconnect(p)
        PROVE  HostIsConnected' /\ OwnersConnected'
    <2>1. CASE peerData[p] \in DOMAIN players
      <3> DEFINE id == peerData[p]
      <3>0. /\ id # 0
            /\ DOMAIN entities' = DOMAIN entities
            /\ \A e \in DOMAIN entities :
                  entities'[e].owner = IF entities[e].owner = id THEN 0
                                       ELSE entities[e].owner
            /\ DOMAIN players' = DOMAIN players \ {id}
            /\ host # id => host' = host
            /\ host = id => host' \in IF DOMAIN players' = {} THEN {0}
                                      ELSE DOMAIN players'
        BY <1>0, <1>3, <2>1, LeaveEffect
      <3> HIDE DEF id
      <3>1. id \in DOMAIN players
        BY <2>1 DEF id
      <3>2. HostIsConnected'
        BY <1>0, <3>0, <3>1 DEF HostIsConnected
      <3>3. OwnersConnected'
        BY <1>0, <3>0 DEF OwnersConnected, Orphans
      <3>4. QED
        BY <3>2, <3>3
    <2>2. CASE peerData[p] \notin DOMAIN players
      BY <1>1, <1>3, <2>2 DEF HandleDisconnect
    <2>3. QED
      BY <2>1, <2>2
  <1>4. ASSUME NEW owner \in DOMAIN players, NEW pos, NewEntity(owner, pos)
        PROVE  HostIsConnected' /\ OwnersConnected'
    BY <1>0, <1>4, NewEntityEffect DEF HostIsConnected, OwnersConnected, Orphans
  <1>5. ASSUME NEW E, Erase(E)
        PROVE  HostIsConnected' /\ OwnersConnected'
    BY <1>0, <1>5, EraseEffect DEF HostIsConnected, OwnersConnected, Orphans
  <1>6. ASSUME Exit PROVE HostIsConnected' /\ OwnersConnected'
    BY <1>6, EmptyFacts DEF Exit, HostIsConnected, OwnersConnected, Orphans
  <1>7. CASE SessionStep
    BY <1>1, <1>2, <1>3, <1>7 DEF SessionStep, HandleConnect, RejectHandshake,
       HandshakeAllocFailure, RequestDisconnect, KickPlayer, AdminKick, CloseLink,
       memory
  <1>8. CASE EntityStep
    BY <1>4, <1>5, <1>8 DEF EntityStep, HandleEntitySpawnReq, HandleBuildRequest,
       HandleEntityDespawnReq, HandleBuildDismantle, OrphanCleanup
  <1>9. CASE SaveWorld
    BY <1>1, <1>9 DEF SaveWorld, memory
  <1>10. CASE Shutdown \/ Crash
    BY <1>6, <1>10 DEF Shutdown, Crash
  <1>11. CASE Startup
    BY <1>0, <1>11, LoadEffect DEF HostIsConnected, OwnersConnected, Orphans
  <1>12. QED
    BY <1>7, <1>8, <1>9, <1>10, <1>11 DEF Next, ProcessStep

\* Without allocation failures host and owners are connected throughout.
LEMMA RoleInvariant == ~AllocCanFail /\ Spec => []RoleInv
  <1>1. Init => RoleInv
    BY TypeInit, EmptyFacts DEF Init, RoleInv, HostIsConnected, OwnersConnected, Orphans
  <1>2. ~AllocCanFail /\ RoleInv /\ TypeOK' /\ [Next]_vars => RoleInv'
    <2>1. RoleInv /\ UNCHANGED vars => RoleInv'
      BY DEF RoleInv, TypeOK, HostIsConnected, OwnersConnected, Orphans, vars
    <2>2. QED
      BY <2>1, RoleStepInv
  <1>3. CASE AllocCanFail
    BY <1>3, PTL
  <1>4. CASE ~AllocCanFail
    <2>1. RoleInv /\ TypeOK' /\ [Next]_vars => RoleInv'
      BY <1>2, <1>4
    <2>2. QED
      BY <1>1, <2>1, TypeCorrect, PTL DEF Spec
  <1>5. QED
    BY <1>3, <1>4

\* As long as packets can be allocated there is one connected host whenever
\* anybody is connected, through joins, overrides, leaves and restarts.
THEOREM HostAlwaysConnected == ~AllocCanFail /\ Spec => []HostIsConnected
  <1>1. RoleInv => HostIsConnected
    BY DEF RoleInv
  <1>2. QED
    BY <1>1, RoleInvariant, PTL

\* As long as packets can be allocated no entity is owned by somebody absent,
\* so the orphan cleanup never deletes a player's squad.
THEOREM OwnersAlwaysConnected == ~AllocCanFail /\ Spec => []OwnersConnected
  <1>1. RoleInv => OwnersConnected
    BY DEF RoleInv
  <1>2. QED
    BY <1>1, RoleInvariant, PTL

\* As long as packets can be allocated slots, players and host agree.
THEOREM SessionsAlwaysSound == ~AllocCanFail /\ Spec => []SessionsSound
  <1>1. SessionsMatchSlots /\ HostIsConnected => SessionsSound
    BY DEF SessionsSound
  <1>2. QED
    BY <1>1, SessionsAgree, HostAlwaysConnected, PTL

-----------------------------------------------------------------------------
(* Reclaiming                                                              *)

\* The environment the reconnection design relies on.
Benign == UniqueNames /\ ~AllocCanFail /\ "nan" \notin Positions

\* Nobody is connected to a stopped server; connected names differ from each
\* other and from the names with a record, so filing never replaces a record.
NamesDistinct ==
    /\ ~running => DOMAIN players = {}
    /\ \A q, r \in DOMAIN players : q # r => players[q].name # players[r].name
    /\ \A q \in DOMAIN players : players[q].name \notin DOMAIN saved

\* What the file holds can be reclaimed after a restart.
DiskReclaimable ==
    \A e \in DOMAIN disk.entities :
        \E n \in DOMAIN disk.players : e \in disk.players[n]

ReclaimInv == TypeOK /\ NamesDistinct /\ UnownedReclaimable /\ DiskReclaimable

\* In the benign environment one step keeps every unowned entity on record.
LEMMA ReclaimStepInv ==
    ASSUME Benign
    PROVE  ReclaimInv /\ RoleInv /\ TypeOK' /\ Next => ReclaimInv'
  <1> USE ConstantsAssumption
  <1> DEFINE Goal == NamesDistinct /\ UnownedReclaimable /\ DiskReclaimable
  <1> SUFFICES ASSUME ReclaimInv, RoleInv, TypeOK', Next PROVE Goal'
    BY DEF ReclaimInv
  <1>0. TypeOK /\ OwnersConnected /\ Goal
    BY DEF ReclaimInv, RoleInv
  <1>1. ASSUME UNCHANGED <<running, players, entities, saved, disk>>
        PROVE  Goal'
    BY <1>0, <1>1 DEF NamesDistinct, UnownedReclaimable, DiskReclaimable
  <1>2. ASSUME NEW p \in Peers, NEW n \in Names, AcceptHandshake(p, n)
        PROVE  Goal'
    <2>1. nextPlayer \in PlayerId /\ nextPlayer # 0
      BY <1>0, <1>2 DEF AcceptHandshake, MayJoin, TypeOK, PlayerId
    <2>2. /\ DOMAIN players' = DOMAIN players \cup {nextPlayer}
          /\ players'[nextPlayer].name = n
          /\ \A q \in DOMAIN players : q # nextPlayer => players'[q] = players[q]
      BY <1>2 DEF AcceptHandshake, Put
    <2>3. /\ DOMAIN entities' = DOMAIN entities
          /\ \A e \in DOMAIN entities :
                entities'[e].owner = IF e \in Reclaimed(n) THEN nextPlayer
                                     ELSE entities[e].owner
          /\ DOMAIN saved' = DOMAIN saved \ {n}
          /\ \A m \in DOMAIN saved' : saved'[m] = saved[m]
          /\ \A e \in DOMAIN entities :
                 e \in Reclaimed(n) <=> /\ n \in DOMAIN saved
                                       /\ e \in saved[n]
                                       /\ entities[e].owner = 0
      BY <1>0, <1>2, <2>1, JoinEffect DEF AcceptHandshake
    <2>4. running /\ running' = running /\ disk' = disk
          /\ \A q \in DOMAIN players : players[q].name # n
      BY <1>2 DEF AcceptHandshake, MayJoin, Benign
    <2>5. NamesDistinct'
      BY <1>0, <2>2, <2>3, <2>4 DEF NamesDistinct
    <2>6. UnownedReclaimable'
      BY <1>0, <2>1, <2>3 DEF UnownedReclaimable
    <2>7. QED
      BY <1>0, <2>4, <2>5, <2>6 DEF DiskReclaimable
  <1>3. ASSUME NEW p \in Peers, HandleDisconnect(p)
        PROVE  Goal'
    <2>0. running /\ running' = running /\ disk' = disk
      BY <1>3 DEF HandleDisconnect
    <2>1. CASE peerData[p] \in DOMAIN players
      <3> DEFINE id == peerData[p]
                 n  == players[id].name
      <3>0. /\ id # 0
            /\ DOMAIN entities' = DOMAIN entities
            /\ \A e \in DOMAIN entities :
                  entities'[e].owner = IF entities[e].owner = id THEN 0
                                       ELSE entities[e].owner
            /\ \/ saved' = saved /\ Owned(id) = {}
               \/ /\ DOMAIN saved' = DOMAIN saved \cup {n}
                  /\ saved'[n] = Owned(id)
                  /\ \A m \in DOMAIN saved : m # n => saved'[m] = saved[m]
            /\ DOMAIN players' = DOMAIN players \ {id}
            /\ \A q \in DOMAIN players' : players'[q] = players[q]
        BY <1>0, <1>3, <2>1, LeaveEffect
      <3>1. id \in DOMAIN players /\ n \notin DOMAIN saved
        BY <1>0, <2>1 DEF NamesDistinct
      <3>2. \A q \in DOMAIN players : q # id => players[q].name # n
        BY <1>0, <2>1 DEF NamesDistinct
      <3> HIDE DEF id, n
      <3>3. NamesDistinct'
        BY <1>0, <2>0, <3>0, <3>1, <3>2 DEF NamesDistinct
      <3>4. UnownedReclaimable'
        BY <1>0, <3>0, <3>1 DEF UnownedReclaimable, Owned
      <3>5. QED
        BY <1>0, <2>0, <3>3, <3>4 DEF DiskReclaimable
    <2>2. CASE peerData[p] \notin DOMAIN players
      BY <1>1, <1>3, <2>0, <2>2 DEF HandleDisconnect
    <2>3. QED
      BY <2>1, <2>2
  <1>4. ASSUME NEW owner \in DOMAIN players, NEW pos, NewEntity(owner, pos)
        PROVE  Goal'
    <2>1. owner # 0
      BY <1>0 DEF TypeOK, PlayerId
    <2>2. QED
      BY <1>0, <1>4, <2>1, NewEntityEffect
         DEF NamesDistinct, UnownedReclaimable, DiskReclaimable
  <1>5. ASSUME NEW E, Erase(E)
        PROVE  Goal'
    BY <1>0, <1>5, EraseEffect DEF NamesDistinct, UnownedReclaimable, DiskReclaimable
  <1>6. WriteSave => DiskReclaimable'
    <2> SUFFICES ASSUME WriteSave, NEW e \in DOMAIN entities
                 PROVE  \E n \in DOMAIN disk'.players : e \in disk'.players[n]
      BY <1>0, SaveEffect DEF DiskReclaimable
    <2>0. /\ DOMAIN disk'.players = RecordNames
          /\ \A n \in RecordNames : disk'.players[n] \in RecordsFor(n)
      BY <1>0, SaveEffect
    <2>1. CASE entities[e].owner = 0
      <3>1. PICK n \in DOMAIN saved : e \in saved[n]
        BY <1>0, <2>1 DEF UnownedReclaimable
      <3>2. n \in RecordNames
        BY DEF RecordNames
      <3>3. \A q \in DOMAIN players : players[q].name # n
        BY <1>0 DEF NamesDistinct
      <3>4. RecordsFor(n) = {saved[n]}
        BY <3>3 DEF RecordsFor
      <3>5. QED
        BY <2>0, <3>1, <3>2, <3>4
    <2>2. CASE entities[e].owner # 0
      <3> DEFINE q == entities[e].owner
                 n == players[q].name
      <3>1. q \in DOMAIN players
        BY <1>0, <2>2 DEF OwnersConnected, Orphans
      <3>2. e \in Owned(q)
        BY DEF Owned
      <3>3. n \in RecordNames
        BY <3>1, <3>2 DEF RecordNames
      <3>4. {r \in DOMAIN players : players[r].name = n /\ Owned(r) # {}} = {q}
        BY <1>0, <3>1, <3>2 DEF NamesDistinct
      <3>5. RecordsFor(n) = {Owned(q)}
        BY <3>4 DEF RecordsFor
      <3>6. QED
        BY <2>0, <3>2, <3>3, <3>5
    <2>3. QED
      BY <2>1, <2>2
  <1>7. Exit /\ DiskReclaimable' => Goal'
    BY EmptyFacts DEF Exit, NamesDistinct, UnownedReclaimable
  <1>8. CASE SessionStep
    BY <1>1, <1>2, <1>3, <1>8 DEF SessionStep, HandleConnect, RejectHandshake,
       HandshakeAllocFailure, RequestDisconnect, KickPlayer, AdminKick, CloseLink,
       memory, Benign
  <1>9. CASE EntityStep
    BY <1>4, <1>5, <1>9 DEF EntityStep, HandleEntitySpawnReq, HandleBuildRequest,
       HandleEntityDespawnReq, HandleBuildDismantle, OrphanCleanup
  <1>10. CASE SaveWorld
    BY <1>0, <1>6, <1>10 DEF SaveWorld, memory, NamesDistinct, UnownedReclaimable
  <1>11. CASE Shutdown
    BY <1>6, <1>7, <1>11 DEF Shutdown
  <1>12. CASE Crash
    BY <1>0, <1>7, <1>12 DEF Crash, DiskReclaimable
  <1>13. CASE Startup
    <2>1. PICK V \in SUBSET DOMAIN disk.entities : LoadSucceeds(V) \/ LoadThrows(V)
      BY <1>13 DEF Startup
    <2>2. ~LoadThrows(V)
      BY <1>0 DEF LoadThrows, TypeOK, Benign
    <2>3. /\ entities' = [e \in Valid(V) |-> [owner |-> 0, pos |-> "ok"]]
          /\ saved' = LoadedRecords(Valid(V))
      BY <2>1, <2>2 DEF LoadSucceeds
    <2>4. Valid(V) \subseteq DOMAIN disk.entities
      BY DEF Valid
    <2>5. UnownedReclaimable'
      BY <1>0, <2>3, <2>4 DEF UnownedReclaimable, DiskReclaimable, LoadedRecords
    <2>6. NamesDistinct' /\ DiskReclaimable'
      BY <1>0, <1>13 DEF Startup, NamesDistinct, DiskReclaimable
    <2>7. QED
      BY <2>5, <2>6
  <1>14. QED
    BY <1>8, <1>9, <1>10, <1>11, <1>12, <1>13 DEF Next, ProcessStep

\* Names and records stay apart and everything unowned stays on record.
LEMMA ReclaimInvariant == Benign /\ Spec => []ReclaimInv
  <1>1. Init => ReclaimInv
    BY TypeInit, EmptyFacts DEF Init, ReclaimInv, NamesDistinct, UnownedReclaimable,
       DiskReclaimable
  <1>2. CASE ~Benign
    BY <1>2, PTL
  <1>3. CASE Benign
    <2>1. ReclaimInv /\ RoleInv /\ TypeOK' /\ [Next]_vars => ReclaimInv'
      <3>1. ReclaimInv /\ UNCHANGED vars => ReclaimInv'
        BY DEF ReclaimInv, TypeOK, NamesDistinct, UnownedReclaimable,
           DiskReclaimable, vars
      <3>2. QED
        BY <1>3, <3>1, ReclaimStepInv
    <2>2. ~AllocCanFail
      BY <1>3 DEF Benign
    <2>3. QED
      BY <1>1, <2>1, <2>2, RoleInvariant, TypeCorrect, PTL DEF Spec
  <1>4. QED
    BY <1>2, <1>3

\* Nothing a player leaves behind is stranded: with distinct names, working
\* allocation and finite coordinates every unowned entity is recorded under
\* the name that gets it back, across disconnects, saves, crashes and loads.
THEOREM NothingStranded == Benign /\ Spec => []UnownedReclaimable
  <1>1. ReclaimInv => UnownedReclaimable
    BY DEF ReclaimInv
  <1>2. QED
    BY <1>1, ReclaimInvariant, PTL

-----------------------------------------------------------------------------
(* Fresh ids and transfers                                                 *)

\* With finite coordinates the id counter is beyond every live and every
\* recorded entity, after loads included: operator[] never overwrites.
THEOREM IdsFresh == "nan" \notin Positions /\ Spec => []FreshIds
  <1> USE ConstantsAssumption
  <1>1. Init => FreshIds
    BY EmptyFacts DEF Init, FreshIds
  <1>2. ASSUME "nan" \notin Positions, TypeOK, TypeOK', FreshIds, Next
        PROVE  FreshIds'
    <2>0. /\ nextEntity \in Nat /\ (DOMAIN entities \subseteq Nat)
          /\ \A n \in DOMAIN saved : saved[n] \subseteq Nat
      BY <1>2 DEF TypeOK, EntityId
    <2>1. ASSUME UNCHANGED <<entities, saved, nextEntity>>
          PROVE  FreshIds'
      BY <1>2, <2>1 DEF FreshIds
    <2>2. ASSUME NEW p \in Peers, NEW n \in Names,
                 AcceptHandshake(p, n) \/ HandshakeAllocFailure(p, n)
          PROVE  FreshIds'
      <3>1. nextPlayer \in PlayerId
        BY <1>2, <2>2 DEF AcceptHandshake, HandshakeAllocFailure, MayJoin, TypeOK, PlayerId
      <3>2. /\ DOMAIN entities' = DOMAIN entities
            /\ DOMAIN saved' \subseteq DOMAIN saved
            /\ \A m \in DOMAIN saved' : saved'[m] = saved[m]
            /\ nextEntity' = nextEntity
        BY <1>2, <2>2, <3>1, JoinEffect DEF AcceptHandshake, HandshakeAllocFailure
      <3>3. QED
        BY <1>2, <3>2 DEF FreshIds
    <2>3. ASSUME NEW p \in Peers, HandleDisconnect(p)
          PROVE  FreshIds'
      <3>1. nextEntity' = nextEntity
        BY <2>3 DEF HandleDisconnect
      <3>2. CASE peerData[p] \in DOMAIN players
        <4> DEFINE id == peerData[p]
                   n  == players[id].name
        <4>1. /\ DOMAIN entities' = DOMAIN entities
              /\ \/ saved' = saved
                 \/ /\ DOMAIN saved' = DOMAIN saved \cup {n}
                    /\ saved'[n] = Owned(id)
                    /\ \A m \in DOMAIN saved : m # n => saved'[m] = saved[m]
          BY <1>2, <2>3, <3>2, LeaveEffect
        <4> HIDE DEF id, n
        <4>2. QED
          BY <1>2, <3>1, <4>1 DEF FreshIds, Owned
      <3>3. CASE peerData[p] \notin DOMAIN players
        BY <2>1, <2>3, <3>1, <3>3 DEF HandleDisconnect
      <3>4. QED
        BY <3>2, <3>3
    <2>4. ASSUME NEW owner, NEW pos, NewEntity(owner, pos)
          PROVE  FreshIds'
      BY <1>2, <2>0, <2>4, NewEntityEffect DEF FreshIds
    <2>5. ASSUME NEW E, Erase(E)
          PROVE  FreshIds'
      BY <1>2, <2>5, EraseEffect DEF FreshIds
    <2>6. ASSUME Exit PROVE FreshIds'
      BY <2>6, EmptyFacts DEF Exit, FreshIds
    <2>7. CASE Startup
      <3>1. PICK V \in SUBSET DOMAIN disk.entities : LoadSucceeds(V) \/ LoadThrows(V)
        BY <2>7 DEF Startup
      <3>2. ~LoadThrows(V)
        BY <1>2 DEF LoadThrows, TypeOK
      <3>3. PICK maxId \in V \cup {0} :
               (\A e \in V : e <= maxId) /\ nextEntity' = maxId + 1
        BY <3>1, <3>2 DEF LoadSucceeds
      <3>4. \A e \in Valid(V) : e < nextEntity'
        BY <1>2, <3>3 DEF Valid, TypeOK, EntityId
      <3>5. DOMAIN entities' = Valid(V) /\ saved' = LoadedRecords(Valid(V))
        BY <3>1, <3>2 DEF LoadSucceeds
      <3>6. QED
        BY <3>4, <3>5 DEF FreshIds, LoadedRecords
    <2>8. CASE SessionStep
      BY <2>1, <2>2, <2>3, <2>8 DEF SessionStep, HandleConnect, RejectHandshake,
         RequestDisconnect, KickPlayer, AdminKick, CloseLink, memory
    <2>9. CASE EntityStep
      BY <2>4, <2>5, <2>9 DEF EntityStep, HandleEntitySpawnReq, HandleBuildRequest,
         HandleEntityDespawnReq, HandleBuildDismantle, OrphanCleanup
    <2>10. CASE SaveWorld \/ Shutdown \/ Crash
      BY <2>1, <2>6, <2>10 DEF SaveWorld, Shutdown, Crash, memory
    <2>11. QED
      BY <1>2, <2>7, <2>8, <2>9, <2>10 DEF Next, ProcessStep
  <1>3. FreshIds /\ UNCHANGED vars => FreshIds'
    BY DEF FreshIds, vars
  <1>4. CASE ~("nan" \notin Positions)
    BY <1>4, PTL
  <1>5. CASE "nan" \notin Positions
    <2>1. TypeOK /\ TypeOK' /\ FreshIds /\ [Next]_vars => FreshIds'
      BY <1>2, <1>3, <1>5
    <2>2. QED
      BY <1>1, <2>1, TypeCorrect, PTL DEF Spec
  <1>6. QED
    BY <1>4, <1>5

\* One step of NoTheft.
TransferOK == \A e \in DOMAIN entities \cap DOMAIN entities' :
                 \/ entities'[e].owner = entities[e].owner
                 \/ entities[e].owner = 0
                 \/ entities'[e].owner = 0

\* No step moves an entity from one player to another, even when ids collide
\* after a failed load: what a counter can overwrite is unowned.
THEOREM NoDirectTransfer == Spec => NoTheft
  <1> USE ConstantsAssumption
  <1>1. ASSUME ClaimInv, Next PROVE TransferOK
    <2>0. TypeOK /\ ClaimsBelow /\ nextEntity \in Nat
      BY <1>1 DEF ClaimInv, TypeOK
    <2>1. ASSUME UNCHANGED entities PROVE TransferOK
      BY <2>1 DEF TransferOK
    <2>2. ASSUME NEW p \in Peers, NEW n \in Names,
                 AcceptHandshake(p, n) \/ HandshakeAllocFailure(p, n)
          PROVE  TransferOK
      <3>1. nextPlayer \in PlayerId
        BY <2>0, <2>2 DEF AcceptHandshake, HandshakeAllocFailure, MayJoin, TypeOK, PlayerId
      <3>2. \A e \in DOMAIN entities :
               \/ entities'[e].owner = entities[e].owner
               \/ entities[e].owner = 0
        BY <2>0, <2>2, <3>1, JoinEffect DEF AcceptHandshake, HandshakeAllocFailure
      <3>3. QED
        BY <3>2 DEF TransferOK
    <2>3. ASSUME NEW p \in Peers, HandleDisconnect(p)
          PROVE  TransferOK
      <3>1. CASE peerData[p] \in DOMAIN players
        BY <2>0, <2>3, <3>1, LeaveEffect DEF TransferOK
      <3>2. CASE peerData[p] \notin DOMAIN players
        BY <2>1, <2>3, <3>2 DEF HandleDisconnect
      <3>3. QED
        BY <3>1, <3>2
    <2>4. ASSUME NEW owner, NEW pos, NewEntity(owner, pos)
          PROVE  TransferOK
      BY <2>0, <2>4, NewEntityEffect DEF ClaimsBelow, TransferOK
    <2>5. ASSUME NEW E, Erase(E) PROVE TransferOK
      BY <2>5, EraseEffect DEF TransferOK
    <2>6. ASSUME Exit PROVE TransferOK
      BY <2>6, EmptyFacts DEF Exit, TransferOK
    <2>7. CASE Startup
      BY <2>0, <2>7, LoadEffect DEF TransferOK
    <2>8. CASE SessionStep
      BY <2>1, <2>2, <2>3, <2>8 DEF SessionStep, HandleConnect, RejectHandshake,
         RequestDisconnect, KickPlayer, AdminKick, CloseLink, memory
    <2>9. CASE EntityStep
      BY <2>4, <2>5, <2>9 DEF EntityStep, HandleEntitySpawnReq, HandleBuildRequest,
         HandleEntityDespawnReq, HandleBuildDismantle, OrphanCleanup
    <2>10. CASE SaveWorld \/ Shutdown \/ Crash
      BY <2>1, <2>6, <2>10 DEF SaveWorld, Shutdown, Crash, memory
    <2>11. QED
      BY <1>1, <2>7, <2>8, <2>9, <2>10 DEF Next, ProcessStep
  <1>2. ClaimInv /\ [Next]_vars => [TransferOK]_vars
    BY <1>1
  <1>3. Spec => []ClaimInv
    BY ClaimInvariant
  <1>4. QED
    BY <1>2, <1>3, PTL DEF Spec, NoTheft, TransferOK

\* With distinct names, working allocation and finite coordinates every entity has
\* one claimant who is there or can come back, and ids are never given out twice.
THEOREM OwnershipAlwaysSound == Benign /\ Spec => []OwnershipSound
  <1>1. OwnersConnected /\ NoDoubleClaim /\ UnownedReclaimable /\ FreshIds => OwnershipSound
    BY DEF OwnershipSound
  <1>2. Benign => ~AllocCanFail /\ "nan" \notin Positions
    BY DEF Benign
  <1>3. CASE ~Benign
    BY <1>3, PTL
  <1>4. CASE Benign
    <2>1. ~AllocCanFail /\ "nan" \notin Positions
      BY <1>2, <1>4
    <2>2. QED
      BY <1>1, <1>4, <2>1, OwnersAlwaysConnected, ClaimsExclusive, NothingStranded, IdsFresh, PTL
  <1>5. QED
    BY <1>3, <1>4

-----------------------------------------------------------------------------
(* What a join gives back, and the ledger                                  *)

\* One step of ReclaimAll.
GivenBack ==
    \A id \in DOMAIN players' \ DOMAIN players :
        LET n == players'[id].name IN
        n \in DOMAIN saved =>
           \A e \in saved[n] \cap DOMAIN entities : entities'[e].owner = id

\* A name gets back everything filed under it in the step in which it joins, also with shared
\* names, failed handshakes and damaged saves: what is on record is in nobody's hands.
THEOREM EverythingGivenBack == Spec => ReclaimAll
  <1> USE ConstantsAssumption
  <1>1. ASSUME ClaimInv, Next PROVE GivenBack
    <2>0. TypeOK /\ NoDoubleClaim
      BY <1>1 DEF ClaimInv
    <2>1. ASSUME DOMAIN players' \subseteq DOMAIN players PROVE GivenBack
      BY <2>1 DEF GivenBack
    <2>2. ASSUME NEW p \in Peers, NEW n \in Names, AcceptHandshake(p, n)
          PROVE  GivenBack
      <3>1. nextPlayer \in PlayerId
        BY <2>0, <2>2 DEF AcceptHandshake, MayJoin, TypeOK, PlayerId
      <3>2. DOMAIN players' = DOMAIN players \cup {nextPlayer} /\ players'[nextPlayer].name = n
        BY <2>2 DEF AcceptHandshake, Put
      <3>3. \A e \in DOMAIN entities :
               n \in DOMAIN saved /\ e \in saved[n] /\ entities[e].owner = 0 =>
                  entities'[e].owner = nextPlayer
        BY <2>0, <2>2, <3>1, JoinEffect DEF AcceptHandshake
      <3>4. QED
        BY <2>0, <3>2, <3>3 DEF NoDoubleClaim, GivenBack
    <2>3. ASSUME NEW p \in Peers, HandleDisconnect(p) PROVE GivenBack
      BY <2>1, <2>3 DEF HandleDisconnect, Drop, Restrict
    <2>4. ASSUME Exit PROVE GivenBack
      BY <2>1, <2>4, EmptyFacts DEF Exit
    <2>5. CASE SessionStep
      BY <2>1, <2>2, <2>3, <2>5 DEF SessionStep, HandleConnect, RejectHandshake,
         HandshakeAllocFailure, RequestDisconnect, KickPlayer, AdminKick, CloseLink, memory
    <2>6. CASE EntityStep
      BY <2>1, <2>6 DEF EntityStep, HandleEntitySpawnReq, HandleBuildRequest,
         HandleEntityDespawnReq, HandleBuildDismantle, OrphanCleanup, NewEntity, Erase
    <2>7. CASE ProcessStep
      BY <2>1, <2>4, <2>7 DEF ProcessStep, SaveWorld, Shutdown, Crash, Startup, memory
    <2>8. QED
      BY <1>1, <2>5, <2>6, <2>7 DEF Next
  <1>2. ClaimInv /\ [Next]_vars => [GivenBack]_vars
    BY <1>1
  <1>3. QED
    BY <1>2, ClaimInvariant, PTL DEF Spec, ReclaimAll, GivenBack

LedgerInv == SessionInv /\ ClaimInv /\ RoleInv /\ ReclaimInv /\ FreshIds

\* An entity of a connected player is claimed by his name, another by the name it is filed
\* under, and what is on disk by the name it was saved for.
ClaimantsRight ==
    /\ \A e \in DOMAIN entities :
          \/ /\ entities[e].owner \in DOMAIN players /\ entities[e].owner # 0
             /\ Claimant(e) = players[entities[e].owner].name
          \/ /\ entities[e].owner = 0
             /\ Claimant(e) \in DOMAIN saved /\ e \in saved[Claimant(e)]
             /\ \A n \in DOMAIN saved : e \in saved[n] => n = Claimant(e)
    /\ \A e \in DOMAIN disk.entities :
          /\ diskLedger[e] \in DOMAIN disk.players /\ e \in disk.players[diskLedger[e]]
          /\ \A n \in DOMAIN disk.players : e \in disk.players[n] => n = diskLedger[e]

LEMMA ClaimantsAre == LedgerInv => ClaimantsRight
  <1> SUFFICES ASSUME LedgerInv PROVE ClaimantsRight
    OBVIOUS
  <1>0. TypeOK /\ OwnersConnected /\ NoDoubleClaim /\ UnownedReclaimable /\ DiskReclaimable
    BY DEF LedgerInv, ClaimInv, RoleInv, ReclaimInv
  <1>1. 0 \notin DOMAIN players
    BY <1>0 DEF TypeOK, PlayerId
  <1>2. ASSUME NEW e \in DOMAIN entities, entities[e].owner # 0
        PROVE  /\ entities[e].owner \in DOMAIN players
               /\ Claimant(e) = players[entities[e].owner].name
    BY <1>0, <1>2 DEF OwnersConnected, Orphans, Claimant
  <1>3. ASSUME NEW e \in DOMAIN entities, entities[e].owner = 0
        PROVE  /\ Claimant(e) \in DOMAIN saved /\ e \in saved[Claimant(e)]
               /\ \A n \in DOMAIN saved : e \in saved[n] => n = Claimant(e)
    <2>1. Claimant(e) = CHOOSE n \in DOMAIN saved : e \in saved[n]
      BY <1>1, <1>3 DEF Claimant
    <2>2. \E n \in DOMAIN saved : e \in saved[n]
      BY <1>0, <1>3 DEF UnownedReclaimable
    <2>3. Claimant(e) \in DOMAIN saved /\ e \in saved[Claimant(e)]
      BY <2>1, <2>2
    <2>4. QED
      BY <1>0, <2>3 DEF NoDoubleClaim
  <1>4. ASSUME NEW e \in DOMAIN disk.entities
        PROVE  /\ diskLedger[e] \in DOMAIN disk.players /\ e \in disk.players[diskLedger[e]]
               /\ \A n \in DOMAIN disk.players : e \in disk.players[n] => n = diskLedger[e]
    <2>1. diskLedger[e] = CHOOSE n \in DOMAIN disk.players : e \in disk.players[n]
      BY DEF diskLedger
    <2>2. \E n \in DOMAIN disk.players : e \in disk.players[n]
      BY <1>0 DEF DiskReclaimable
    <2>3. diskLedger[e] \in DOMAIN disk.players /\ e \in disk.players[diskLedger[e]]
      BY <2>1, <2>2
    <2>4. QED
      BY <1>0, <2>3 DEF NoDoubleClaim
  <1>5. QED
    BY <1>2, <1>3, <1>4 DEF ClaimantsRight

\* Joining and leaving change no claim.
LEMMA ClaimsStay ==
    ASSUME LedgerInv, ClaimantsRight, ClaimantsRight',
           NEW p \in Peers,
           HandleDisconnect(p) \/ \E n \in Names : AcceptHandshake(p, n)
    PROVE  DOMAIN entities' = DOMAIN entities /\ \A e \in DOMAIN entities : Claimant(e)' = Claimant(e)
  <1>0. TypeOK /\ NoDoubleClaim /\ NamesDistinct /\ PlayersBelow
    BY DEF LedgerInv, SessionInv, ClaimInv, ReclaimInv
  <1>1. CASE HandleDisconnect(p) /\ peerData[p] \notin DOMAIN players
    <2>1. UNCHANGED <<entities, saved, players>>
      BY <1>1 DEF HandleDisconnect
    <2>2. QED
      BY <2>1 DEF Claimant
  <1>2. CASE HandleDisconnect(p) /\ peerData[p] \in DOMAIN players
    <2> DEFINE id == peerData[p]
               n  == players[id].name
    <2>1. /\ id # 0
          /\ DOMAIN entities' = DOMAIN entities
          /\ \A e \in DOMAIN entities :
                entities'[e].owner = IF entities[e].owner = id THEN 0
                                     ELSE entities[e].owner
          /\ \/ saved' = saved /\ Owned(id) = {}
             \/ /\ DOMAIN saved' = DOMAIN saved \cup {n}
                /\ saved'[n] = Owned(id)
                /\ \A m \in DOMAIN saved : m # n => saved'[m] = saved[m]
          /\ DOMAIN players' = DOMAIN players \ {id}
          /\ \A q \in DOMAIN players' : players'[q] = players[q]
      BY <1>0, <1>2, LeaveEffect
    <2>2. n \notin DOMAIN saved
      BY <1>0, <1>2 DEF NamesDistinct
    <2> HIDE DEF id
    <2>3. ASSUME NEW e \in DOMAIN entities PROVE Claimant(e)' = Claimant(e)
      <3>1. CASE entities[e].owner = id
        <4>1. Claimant(e) = n /\ e \in Owned(id) /\ entities'[e].owner = 0
          BY <2>1, <3>1 DEF ClaimantsRight, Owned
        <4>2. n \in DOMAIN saved' /\ e \in saved'[n]
          BY <2>1, <4>1
        <4>3. QED
          BY <2>1, <4>1, <4>2 DEF ClaimantsRight
      <3>2. CASE entities[e].owner # id /\ entities[e].owner # 0
        <4>1. entities'[e].owner = entities[e].owner /\ entities[e].owner \in DOMAIN players'
          BY <2>1, <3>2 DEF ClaimantsRight
        <4>2. Claimant(e) = players[entities[e].owner].name
          BY <3>2 DEF ClaimantsRight
        <4>3. Claimant(e)' = players'[entities[e].owner].name
          BY <2>1, <3>2, <4>1 DEF ClaimantsRight
        <4>4. QED
          BY <2>1, <4>1, <4>2, <4>3
      <3>3. CASE entities[e].owner = 0
        <4> DEFINE m == Claimant(e)
        <4>1. m \in DOMAIN saved /\ e \in saved[m] /\ entities'[e].owner = 0
          BY <2>1, <3>3 DEF ClaimantsRight
        <4> HIDE DEF m
        <4>2. m \in DOMAIN saved' /\ e \in saved'[m]
          BY <2>1, <2>2, <4>1
        <4>3. Claimant(e)' = m
          BY <2>1, <4>1, <4>2 DEF ClaimantsRight
        <4>4. QED
          BY <4>3 DEF m
      <3>4. QED
        BY <3>1, <3>2, <3>3
    <2>4. QED
      BY <2>1, <2>3
  <1>3. ASSUME NEW n \in Names, AcceptHandshake(p, n)
        PROVE  DOMAIN entities' = DOMAIN entities /\ \A e \in DOMAIN entities : Claimant(e)' = Claimant(e)
    <2>0. nextPlayer \in PlayerId /\ nextPlayer # 0 /\ nextPlayer \notin DOMAIN players
      BY <1>0, <1>3, ConstantsAssumption DEF AcceptHandshake, MayJoin, TypeOK, PlayerId, PlayersBelow
    <2>1. /\ DOMAIN players' = DOMAIN players \cup {nextPlayer}
          /\ players'[nextPlayer].name = n
          /\ \A q \in DOMAIN players : q # nextPlayer => players'[q] = players[q]
      BY <1>3 DEF AcceptHandshake, Put
    <2>2. /\ DOMAIN entities' = DOMAIN entities
          /\ \A e \in DOMAIN entities :
                entities'[e].owner = IF e \in Reclaimed(n) THEN nextPlayer
                                     ELSE entities[e].owner
          /\ DOMAIN saved' = DOMAIN saved \ {n}
          /\ \A m \in DOMAIN saved' : saved'[m] = saved[m]
          /\ \A e \in DOMAIN entities :
                 e \in Reclaimed(n) <=> /\ n \in DOMAIN saved
                                       /\ e \in saved[n]
                                       /\ entities[e].owner = 0
      BY <1>0, <1>3, <2>0, JoinEffect DEF AcceptHandshake
    <2>3. ASSUME NEW e \in DOMAIN entities PROVE Claimant(e)' = Claimant(e)
      <3>1. CASE e \in Reclaimed(n)
        <4>1. Claimant(e) = n
          BY <2>0, <2>2, <3>1 DEF ClaimantsRight
        <4>2. entities'[e].owner = nextPlayer
          BY <2>2, <3>1
        <4>3. Claimant(e)' = n
          BY <2>0, <2>1, <2>2, <4>2 DEF ClaimantsRight
        <4>4. QED
          BY <4>1, <4>3
      <3>2. CASE e \notin Reclaimed(n) /\ entities[e].owner # 0
        <4>1. entities'[e].owner = entities[e].owner /\ entities[e].owner \in DOMAIN players
          BY <2>2, <3>2 DEF ClaimantsRight
        <4>2. Claimant(e) = players[entities[e].owner].name
          BY <3>2 DEF ClaimantsRight
        <4>3. Claimant(e)' = players'[entities[e].owner].name
          BY <2>2, <3>2, <4>1 DEF ClaimantsRight
        <4>4. QED
          BY <2>0, <2>1, <4>1, <4>2, <4>3
      <3>3. CASE e \notin Reclaimed(n) /\ entities[e].owner = 0
        <4> DEFINE m == Claimant(e)
        <4>1. m \in DOMAIN saved /\ e \in saved[m] /\ entities'[e].owner = 0
          BY <2>2, <3>3 DEF ClaimantsRight
        <4> HIDE DEF m
        <4>2. m \in DOMAIN saved' /\ e \in saved'[m]
          BY <2>2, <3>3, <4>1
        <4>3. Claimant(e)' = m
          BY <2>2, <4>1, <4>2 DEF ClaimantsRight
        <4>4. QED
          BY <4>3 DEF m
      <3>4. QED
        BY <3>1, <3>2, <3>3
    <2>4. QED
      BY <2>2, <2>3
  <1>4. QED
    BY <1>1, <1>2, <1>3

\* What a save writes is what is claimed.
LEMMA SaveKeepsClaims ==
    ASSUME LedgerInv, ClaimantsRight, ClaimantsRight', WriteSave
    PROVE  diskLedger' = [e \in DOMAIN entities |-> Claimant(e)]
  <1>0. TypeOK /\ NamesDistinct
    BY DEF LedgerInv, SessionInv, ReclaimInv
  <1>1. /\ DOMAIN disk'.players = RecordNames
        /\ \A n \in RecordNames : disk'.players[n] \in RecordsFor(n)
        /\ DOMAIN disk'.entities = DOMAIN entities
    BY <1>0, SaveEffect
  <1>2. ASSUME NEW e \in DOMAIN entities
        PROVE  Claimant(e) \in RecordNames /\ e \in disk'.players[Claimant(e)]
    <2> DEFINE n == Claimant(e)
    <2>1. CASE entities[e].owner # 0
      <3> DEFINE q == entities[e].owner
      <3>1. q \in DOMAIN players /\ n = players[q].name /\ e \in Owned(q)
        BY <2>1 DEF ClaimantsRight, Owned
      <3>2. n \in RecordNames
        BY <3>1 DEF RecordNames
      <3>3. {r \in DOMAIN players : players[r].name = n /\ Owned(r) # {}} = {q}
        BY <1>0, <3>1 DEF NamesDistinct
      <3>4. RecordsFor(n) = {Owned(q)}
        BY <3>3 DEF RecordsFor
      <3>5. QED
        BY <1>1, <3>1, <3>2, <3>4
    <2>2. CASE entities[e].owner = 0
      <3>1. n \in DOMAIN saved /\ e \in saved[n]
        BY <2>2 DEF ClaimantsRight
      <3>2. n \in RecordNames
        BY <3>1 DEF RecordNames
      <3>3. \A q \in DOMAIN players : players[q].name # n
        BY <1>0, <3>1 DEF NamesDistinct
      <3>4. RecordsFor(n) = {saved[n]}
        BY <3>1, <3>3 DEF RecordsFor
      <3>5. QED
        BY <1>1, <3>1, <3>2, <3>4
    <2>3. QED
      BY <2>1, <2>2
  <1>3. \A e \in DOMAIN entities : diskLedger'[e] = Claimant(e)
    BY <1>1, <1>2 DEF ClaimantsRight
  <1>4. diskLedger' = [e \in DOMAIN disk'.entities |-> diskLedger'[e]]
    BY DEF diskLedger
  <1>5. QED
    BY <1>1, <1>3, <1>4

\* What a load brings back is claimed as it was saved.
LEMMA LoadKeepsClaims ==
    ASSUME LedgerInv, ClaimantsRight, ClaimantsRight', Startup
    PROVE  /\ DOMAIN entities' \subseteq DOMAIN disk.entities
           /\ \A e \in DOMAIN entities' : Claimant(e)' = diskLedger[e]
  <1>0. TypeOK /\ NoDoubleClaim
    BY DEF LedgerInv, SessionInv, ClaimInv
  <1>1. /\ \A e \in DOMAIN entities' : entities'[e].owner = 0
        /\ \A n \in DOMAIN saved' : n \in DOMAIN disk.players
        /\ \A n \in DOMAIN saved' : saved'[n] \subseteq disk.players[n]
    BY <1>0, LoadEffect
  <1>2. DOMAIN entities' \subseteq DOMAIN disk.entities
    <2>1. PICK V \in SUBSET DOMAIN disk.entities : LoadSucceeds(V) \/ LoadThrows(V)
      BY DEF Startup
    <2>2. DOMAIN entities' = Valid(V) /\ Valid(V) \subseteq V
      BY <2>1 DEF LoadSucceeds, LoadThrows, Valid
    <2>3. QED
      BY <2>1, <2>2
  <1>3. ASSUME NEW e \in DOMAIN entities' PROVE Claimant(e)' = diskLedger[e]
    <2> DEFINE m == Claimant(e)'
    <2>1. m \in DOMAIN saved' /\ e \in saved'[m]
      BY <1>1 DEF ClaimantsRight
    <2> HIDE DEF m
    <2>2. m \in DOMAIN disk.players /\ e \in disk.players[m]
      BY <1>1, <2>1
    <2>3. m = diskLedger[e]
      BY <1>2, <2>2 DEF ClaimantsRight
    <2>4. QED
      BY <2>3 DEF m
  <1>4. QED
    BY <1>2, <1>3

\* Every step of the server is a step of the ledger, or none.
LEMMA LedgerStep ==
    ASSUME Benign, LedgerInv, LedgerInv', ClaimantsRight, ClaimantsRight', [Next]_vars
    PROVE  [Ledger!LedgerNext]_(Ledger!ledgerVars)
  <1> DEFINE now == [e \in DOMAIN entities |-> Claimant(e)]
  <1>0. TypeOK /\ OwnersConnected /\ NamesDistinct /\ FreshIds
    BY DEF LedgerInv, SessionInv, RoleInv, ReclaimInv
  <1>1. ASSUME UNCHANGED <<running, players, entities, saved, disk>>
        PROVE  UNCHANGED <<liveLedger, diskLedger>>
    <2>1. \A e \in DOMAIN entities : Claimant(e)' = Claimant(e)
      BY <1>1 DEF Claimant
    <2>2. now' = now
      BY <1>1, <2>1
    <2>3. diskLedger' = diskLedger
      BY <1>1 DEF diskLedger
    <2>4. QED
      BY <1>1, <2>2, <2>3 DEF liveLedger
  <1>2. ASSUME NEW p \in Peers,
               HandleDisconnect(p) \/ \E n \in Names : AcceptHandshake(p, n)
        PROVE  UNCHANGED <<liveLedger, diskLedger>>
    <2>1. running /\ running' = running /\ disk' = disk
      BY <1>2 DEF HandleDisconnect, AcceptHandshake, MayJoin
    <2>2. DOMAIN entities' = DOMAIN entities /\ \A e \in DOMAIN entities : Claimant(e)' = Claimant(e)
      BY <1>2, ClaimsStay
    <2>3. now' = now
      BY <2>2
    <2>4. diskLedger' = diskLedger
      BY <2>1 DEF diskLedger
    <2>5. QED
      BY <2>1, <2>3, <2>4 DEF liveLedger
  <1>3. ASSUME NEW id \in DOMAIN players, NEW pos, running, NewEntity(id, pos)
        PROVE  Ledger!LedgerNext
    <2>0. PICK new, n : new = nextEntity /\ n = players[id].name
      OBVIOUS
    <2>1. /\ DOMAIN entities' = DOMAIN entities \cup {new}
          /\ entities'[new].owner = id
          /\ \A e \in DOMAIN entities : e # new => entities'[e] = entities[e]
          /\ UNCHANGED <<running, players, saved, disk>>
      BY <1>0, <1>3, <2>0, NewEntityEffect
    <2>2. new \in EntityId /\ new \notin DOMAIN entities
      BY <1>0, <1>3, <2>0, ConstantsAssumption DEF NewEntity, TypeOK, EntityId, FreshIds
    <2>3. n \in Names
      BY <1>0, <2>0 DEF TypeOK, ConnectedPlayer
    <2>4. Claimant(new)' = n
      BY <2>0, <2>1 DEF Claimant
    <2>5. \A e \in DOMAIN entities : Claimant(e)' = Claimant(e)
      BY <2>1, <2>2 DEF Claimant
    <2>6. now' = [x \in DOMAIN now \cup {new} |-> IF x = new THEN n ELSE now[x]]
      BY <2>1, <2>2, <2>4, <2>5
    <2>7. liveLedger = now /\ liveLedger' = now' /\ diskLedger' = diskLedger
      BY <1>3, <2>1 DEF liveLedger, diskLedger
    <2>8. new \notin DOMAIN now
      BY <2>2
    <2> HIDE DEF now
    <2>9. Ledger!Create(new, n)
      BY <2>6, <2>7, <2>8 DEF Ledger!Create
    <2>10. QED
      BY <2>2, <2>3, <2>9 DEF Ledger!LedgerNext
  <1>4. ASSUME NEW E, running, Erase(E)
        PROVE  Ledger!LedgerNext
    <2>1. /\ DOMAIN entities' = DOMAIN entities \ E
          /\ \A e \in DOMAIN entities' : entities'[e] = entities[e]
          /\ UNCHANGED <<running, players, saved, disk>>
      BY <1>4, EraseEffect
    <2>2. \A e \in DOMAIN entities' : Claimant(e)' = Claimant(e)
      BY <2>1 DEF Claimant
    <2> DEFINE F == E \cap DOMAIN entities
    <2>3. now' = [x \in DOMAIN now \ F |-> now[x]]
      BY <2>1, <2>2
    <2>4. liveLedger = now /\ liveLedger' = now' /\ diskLedger' = diskLedger
      BY <1>4, <2>1 DEF liveLedger, diskLedger
    <2>5. F \in SUBSET DOMAIN now
      OBVIOUS
    <2> HIDE DEF now, F
    <2>6. Ledger!Remove(F)
      BY <2>3, <2>4 DEF Ledger!Remove, Ledger!Restrict, Restrict
    <2>7. QED
      BY <2>4, <2>5, <2>6 DEF Ledger!LedgerNext
  <1>5. ASSUME running, WriteSave, \/ UNCHANGED <<running, players, entities, saved>>
                                   \/ ~running'
        PROVE  Ledger!LedgerNext
    <2>1. liveLedger = now /\ diskLedger' = now
      BY <1>5, SaveKeepsClaims DEF liveLedger
    <2>2. liveLedger' = now
      <3>1. CASE ~running'
        BY <2>1, <3>1 DEF liveLedger
      <3>2. CASE UNCHANGED <<running, players, entities, saved>>
        <4>1. \A e \in DOMAIN entities : Claimant(e)' = Claimant(e)
          BY <3>2 DEF Claimant
        <4>2. now' = now
          BY <3>2, <4>1
        <4>3. QED
          BY <1>5, <3>2, <4>2 DEF liveLedger
      <3>3. QED
        BY <1>5, <3>1, <3>2
    <2> HIDE DEF now
    <2>3. QED
      BY <2>1, <2>2 DEF Ledger!LedgerNext, Ledger!Persist
  <1>6. CASE Crash
    <2>1. ~running' /\ disk' = disk
      BY <1>6 DEF Crash, Exit
    <2>2. diskLedger' = diskLedger /\ liveLedger' = diskLedger
      BY <2>1 DEF liveLedger, diskLedger
    <2>3. QED
      BY <2>2 DEF Ledger!LedgerNext, Ledger!RollBack
  <1>7. CASE Startup
    <2>1. ~running /\ running' /\ disk' = disk
      BY <1>7 DEF Startup
    <2>2. /\ DOMAIN entities' \subseteq DOMAIN disk.entities
          /\ \A e \in DOMAIN entities' : Claimant(e)' = diskLedger[e]
      BY <1>7, LoadKeepsClaims
    <2> DEFINE F == DOMAIN disk.entities \ DOMAIN entities'
    <2>3. DOMAIN diskLedger = DOMAIN disk.entities
      BY DEF diskLedger
    <2>4. now' = [x \in DOMAIN diskLedger \ F |-> diskLedger[x]]
      BY <2>2, <2>3
    <2>5. liveLedger = diskLedger /\ liveLedger' = now' /\ diskLedger' = diskLedger
      BY <2>1 DEF liveLedger, diskLedger
    <2>6. F \in SUBSET DOMAIN diskLedger
      BY <2>3
    <2> HIDE DEF now, F
    <2>7. Ledger!Remove(F)
      BY <2>4, <2>5 DEF Ledger!Remove, Ledger!Restrict, Restrict
    <2>8. QED
      BY <2>5, <2>6, <2>7 DEF Ledger!LedgerNext
  <1> HIDE DEF now
  <1>8. CASE SessionStep
    <2>1. UNCHANGED <<liveLedger, diskLedger>>
      BY <1>1, <1>2, <1>8 DEF SessionStep, HandleConnect, RejectHandshake,
         HandshakeAllocFailure, RequestDisconnect, KickPlayer, AdminKick, CloseLink,
         memory, Benign
    <2>2. QED
      BY <2>1 DEF Ledger!ledgerVars
  <1>9. CASE EntityStep
    BY <1>3, <1>4, <1>9 DEF EntityStep, HandleEntitySpawnReq, HandleBuildRequest,
       HandleEntityDespawnReq, HandleBuildDismantle, OrphanCleanup, Speaks
  <1>10. CASE SaveWorld \/ Shutdown
    BY <1>5, <1>10 DEF SaveWorld, Shutdown, Exit, memory
  <1>11. CASE UNCHANGED vars
    <2>1. UNCHANGED <<liveLedger, diskLedger>>
      BY <1>1, <1>11 DEF vars
    <2>2. QED
      BY <2>1 DEF Ledger!ledgerVars
  <1>12. QED
    BY <1>6, <1>7, <1>8, <1>9, <1>10, <1>11 DEF Next, ProcessStep

\* With distinct names, working allocation and finite coordinates the server is its ledger:
\* disconnecting, timing out and coming back under a new id never change whose an entity is,
\* and a crash gives everything back to the name it was saved for.
THEOREM ServerImplementsLedger == Benign /\ Spec => ImplementsLedger
  <1>1. Init => Ledger!LedgerInit
    <2> SUFFICES ASSUME Init PROVE liveLedger = [e \in {} |-> e] /\ diskLedger = [e \in {} |-> e]
      BY DEF Ledger!LedgerInit
    <2>1. running /\ DOMAIN entities = {} /\ DOMAIN disk.entities = {}
      BY EmptyFacts DEF Init
    <2>2. diskLedger = [e \in {} |-> e]
      BY <2>1 DEF diskLedger
    <2>3. liveLedger = [e \in {} |-> e]
      BY <2>1 DEF liveLedger
    <2>4. QED
      BY <2>2, <2>3
  <1>2. CASE ~Benign
    BY <1>2, PTL
  <1>3. CASE Benign
    <2>1. LedgerInv /\ LedgerInv' /\ ClaimantsRight /\ ClaimantsRight' /\ [Next]_vars =>
             [Ledger!LedgerNext]_(Ledger!ledgerVars)
      BY <1>3, LedgerStep
    <2>2. ~AllocCanFail /\ "nan" \notin Positions
      BY <1>3 DEF Benign
    <2>3. Spec => []LedgerInv
      <3>1. SessionInv /\ ClaimInv /\ RoleInv /\ ReclaimInv /\ FreshIds => LedgerInv
        BY DEF LedgerInv
      <3>2. QED
        BY <1>3, <2>2, <3>1, SessionInvariant, ClaimInvariant, RoleInvariant, ReclaimInvariant, IdsFresh, PTL
    <2>4. QED
      BY <1>1, <2>1, <2>3, ClaimantsAre, PTL DEF Spec, ImplementsLedger, Ledger!LedgerSpec
  <1>4. QED
    BY <1>2, <1>3
=============================================================================
