---------------------------- MODULE RemoteSpawns ----------------------------
(***************************************************************************)
(* How a character of another player comes to exist, and to go, on a       *)
(* client.  The network thread runs the packet handlers (net/packet_       *)
(* handler.cpp): a spawn message registers the entity and either links the *)
(* player's prepared mod character or queues a request with the            *)
(* SpawnManager.  The game thread serves the queue in Core::               *)
(* HandleSpawnQueue and in the CharacterCreate hook, which hijacks a       *)
(* character the game has just created.  Both threads share the            *)
(* EntityRegistry and the queue, one lock per call, nothing across calls.  *)
(*                                                                         *)
(* The server is external: it sends spawn, despawn, player-left and        *)
(* heartbeat messages about the entities it has, reliably and in order, so *)
(* a message is received when it is sent.  A message may repeat a spawn    *)
(* (a zone request does that).                                             *)
(*                                                                         *)
(* Left out: positions, interpolation, names and health of a character.    *)
(***************************************************************************)
EXTENDS EntityRegistry, Sequences, SequencesExt

CONSTANTS
    OwnerOf,       \* the player who owns an entity of the server
    ModCharOf,     \* the mod character of a player, NoObject if the mod is missing
    Nearby,        \* entities in zones adjacent to the local player's
    HasOwn,        \* the server has characters of the local player
    DirectCap,     \* MAX_DIRECT_SPAWNS_PER_PLAYER
    HijackCap,     \* MAX_SPAWNS_PER_PLAYER
    MaxRetries,    \* MAX_SPAWN_RETRIES
    MessageBound,  \* bound on spawn messages received and sync commands typed
    SessionBound   \* bound on connections made and saves loaded over a game

ASSUME SpawnAssumption ==
    /\ OwnerOf \in [ServerIds -> Players]
    /\ ModCharOf \in [Players -> Objects \cup {NoObject}]
    /\ Nearby \subseteq ServerIds
    /\ HasOwn \in BOOLEAN
    /\ {DirectCap, HijackCap, MessageBound, SessionBound} \subseteq Nat
    /\ MaxRetries \in Nat \ {0}
    /\ IsFiniteSet(ServerIds) /\ Zones # {}

VARIABLES
    connected, loaded,     \* m_connected, m_gameLoaded
    ready,                 \* C2S_PlayerReady was sent in this session: the phase is
                           \* GameReady again, no longer Connected
    live,                  \* external: "unborn", "live" or "gone" on the server
    deferred,              \* DeferredSpawnQueue::s_queue
    queue,                 \* SpawnManager::m_spawnQueue
    net,                   \* the network thread: where it is in a handler
    game,                  \* the game thread: where it is in a tick
    direct,                \* s_directSpawnsPerPlayer
    hijacks,               \* s_spawnsPerPlayer
    needReset,             \* m_needSpawnQueueReset
    spare,                 \* characters the game can still create
    messages, sessions     \* counters for the bounds

session == <<connected, loaded, ready, sessions>>
caps == <<direct, hijacks, needReset>>
vars == <<registry, session, live, deferred, queue, net, game, caps, spare,
          messages>>

Requests == [id : ServerIds, retry : 0 .. MaxRetries]

NetIdle == [pc |-> "idle", batch |-> FALSE, id |-> 0, object |-> NoObject, rest |-> {}]
GameIdle == [pc |-> "idle", id |-> 0, retry |-> 0, object |-> NoObject, rest |-> {}]

ModChars == {ModCharOf[p] : p \in Players} \ {NoObject}
Live == {id \in ServerIds : live[id] = "live"}
Owned(p) == {id \in DOMAIN entities : entities[id].owner = p}

\* FindModCharacterBySlot walks the game's characters and may miss one that the
\* game is moving in its list, or find nobody because the mod is not loaded.
FindModCharacter(id) == {ModCharOf[OwnerOf[id]], NoObject}

Zone == CHOOSE z \in Zones : TRUE

DecrementSpawnCount(f, p) == [f EXCEPT ![p] = IF @ > 0 THEN @ - 1 ELSE 0]

-----------------------------------------------------------------------------
(* The network thread: handlers of S2C_EntitySpawn and S2C_AllPlayersReady. *)

NetGo(pc) == net' = [net EXCEPT !.pc = pc]

\* A spawn that arrives before the game is loaded waits for S2C_AllPlayersReady.
ReceiveSpawn(id) ==
    /\ connected /\ net.pc = "idle" /\ messages < MessageBound
    /\ live[id] \in {"unborn", "live"}
    /\ live' = [live EXCEPT ![id] = "live"]
    /\ messages' = messages + 1
    /\ IF loaded
       THEN net' = [NetIdle EXCEPT !.pc = "register", !.id = id] /\ UNCHANGED deferred
       ELSE deferred' = Append(deferred, id) /\ UNCHANGED net
    /\ UNCHANGED <<registry, session, queue, game, caps, spare>>

\* ProcessAll: the deferred spawns go through the steps of a spawn, one by one.
ReceiveAllReady ==
    /\ connected /\ ready /\ net.pc = "idle" /\ deferred # << >>
    /\ net' = [NetIdle EXCEPT !.pc = "deferred", !.batch = TRUE]
    /\ UNCHANGED <<registry, session, live, deferred, queue, game, caps, spare,
                   messages>>

NextDeferred ==
    /\ net.pc = "deferred"
    /\ IF deferred = << >>
       THEN net' = NetIdle /\ UNCHANGED deferred
       ELSE /\ net' = [net EXCEPT !.pc = "register", !.id = Head(deferred)]
            /\ deferred' = Tail(deferred)
    /\ UNCHANGED <<registry, session, live, queue, game, caps, spare, messages>>

\* A handler returns to the network loop, or to the loop over the deferred spawns.
NetReturn ==
    net' = [NetIdle EXCEPT !.pc = IF net.batch THEN "deferred" ELSE "idle",
                           !.batch = net.batch]

NetRegister ==
    /\ net.pc = "register"
    /\ RegisterRemote(net.id, OwnerOf[net.id], Zone)
    /\ NetGo("lookup")
    /\ UNCHANGED <<session, live, deferred, queue, game, caps, spare, messages>>

\* "Check if already linked to a different entity - skip if so"
Linkable(id, o) ==
    o # NoObject /\ GetNetId(o) \in IF net.batch THEN {0} ELSE {0, id}

NetLookup ==
    /\ net.pc = "lookup"
    /\ \E o \in FindModCharacter(net.id) :
         IF Linkable(net.id, o)
         THEN net' = [net EXCEPT !.pc = "link", !.object = o]
         ELSE NetGo("queue")
    /\ UNCHANGED <<registry, session, live, deferred, queue, game, caps, spare,
                   messages>>

NetLink ==
    /\ net.pc = "link"
    /\ SetGameObject(net.id, net.object)
    /\ NetReturn
    /\ UNCHANGED <<session, live, deferred, queue, game, caps, spare, messages>>

NetQueueSpawn ==
    /\ net.pc = "queue"
    /\ queue' = Append(queue, [id |-> net.id, retry |-> 0])
    /\ NetReturn
    /\ UNCHANGED <<registry, session, live, deferred, game, caps, spare, messages>>

-----------------------------------------------------------------------------
(* The network thread: handlers that take entities away.                    *)

\* Dropped while the game is loading; otherwise the spawn count goes first.
ReceiveDespawn(id) ==
    /\ connected /\ net.pc = "idle" /\ live[id] = "live"
    /\ live' = [live EXCEPT ![id] = "gone"]
    /\ IF loaded
       THEN /\ net' = [NetIdle EXCEPT !.pc = "unlink", !.id = id]
            /\ hijacks' = IF id \in RemoteIds
                          THEN DecrementSpawnCount(hijacks, entities[id].owner) ELSE hijacks
       ELSE UNCHANGED <<net, hijacks>>
    /\ UNCHANGED <<registry, session, deferred, queue, game, direct, needReset, spare,
                   messages>>

NetUnlink ==
    /\ net.pc = "unlink"
    /\ SetGameObject(net.id, NoObject)
    /\ NetGo("unregister")
    /\ UNCHANGED <<session, live, deferred, queue, game, caps, spare, messages>>

NetUnregister ==
    /\ net.pc = "unregister"
    /\ Unregister(net.id)
    /\ net' = NetIdle
    /\ UNCHANGED <<session, live, deferred, queue, game, caps, spare, messages>>

ClearSpawnsForOwner(p) ==
    LET filtered[k \in 0 .. Len(queue)] ==
            IF k = 0 THEN << >>
            ELSE IF OwnerOf[queue[k].id] = p THEN filtered[k - 1]
            ELSE Append(filtered[k - 1], queue[k])
    IN filtered[Len(queue)]

\* PlayerLeft: pending requests first, then the entities the registry lists.
ReceivePlayerLeft(p) ==
    /\ connected /\ net.pc = "idle"
    /\ \E id \in Live : OwnerOf[id] = p
    /\ live' = [id \in ServerIds |-> IF OwnerOf[id] = p THEN "gone" ELSE live[id]]
    /\ IF loaded
       THEN /\ queue' = ClearSpawnsForOwner(p)
            /\ net' = [NetIdle EXCEPT !.pc = "leave", !.rest = Owned(p)]
       ELSE UNCHANGED <<queue, net>>
    /\ UNCHANGED <<registry, session, deferred, game, caps, spare, messages>>

\* Mutant of Ghosts: only entities that never got an object are swept.
GhostsSpawning == {id \in RemoteIds \ (Live \cap Nearby) : entities[id].state = "Spawning"}

\* Entities the client has and the server's heartbeat does not list: those that are
\* gone, and those too far away.
Ghosts == RemoteIds \ (Live \cap Nearby)

\* The server sends a heartbeat every 5 seconds, unless it has no entity at all.
ReceiveHeartbeat ==
    /\ connected /\ loaded /\ net.pc = "idle"
    /\ HasOwn \/ Live # {}
    /\ net' = [NetIdle EXCEPT !.pc = "sweep", !.rest = Ghosts]
    /\ UNCHANGED <<registry, session, live, deferred, queue, game, caps, spare,
                   messages>>

\* The loop of both handlers: give the spawn count back and unregister.
NetSweep ==
    /\ net.pc \in {"leave", "sweep"}
    /\ \/ /\ net.rest = {}
          /\ net' = NetIdle
          /\ UNCHANGED <<registry, hijacks>>
       \/ \E id \in net.rest :
            /\ hijacks' = IF net.pc = "leave" \/ id \in RemoteIds
                          THEN DecrementSpawnCount(hijacks, OwnerOf[id]) ELSE hijacks
            /\ Unregister(id)
            /\ net' = [net EXCEPT !.rest = @ \ {id}]
    /\ UNCHANGED <<session, live, deferred, queue, game, direct, needReset, spare,
                   messages>>

-----------------------------------------------------------------------------
(* The game thread: Core::HandleSpawnQueue.                                 *)

GameGo(pc) == game' = [game EXCEPT !.pc = pc]

Playing == connected /\ loaded

\* The counters of the session before are dropped before the first request.
PopNextSpawn ==
    /\ Playing /\ game.pc = "idle" /\ queue # << >>
    /\ game' = [GameIdle EXCEPT !.pc = "popped", !.id = Head(queue).id,
                                !.retry = Head(queue).retry]
    /\ queue' = Tail(queue)
    /\ direct' = IF needReset THEN [p \in Players |-> 0] ELSE direct
    /\ needReset' = FALSE
    /\ UNCHANGED <<registry, session, live, deferred, net, hijacks, spare, messages>>

\* A request for an entity that has an object is discarded; one above the cap too.
\* Discarding counts as well; the count only matters up to the cap, where it stops.
CheckRequest ==
    /\ game.pc = "popped"
    /\ LET p == OwnerOf[game.id]
       IN  \/ /\ GetGameObject(game.id) # NoObject
              /\ direct' = [direct EXCEPT ![p] = IF @ < DirectCap THEN @ + 1 ELSE @]
              /\ game' = GameIdle
           \/ /\ GetGameObject(game.id) = NoObject
              /\ direct[p] >= DirectCap
              /\ game' = GameIdle
              /\ UNCHANGED direct
           \/ /\ GetGameObject(game.id) = NoObject
              /\ direct[p] < DirectCap
              /\ GameGo("lookup")
              /\ UNCHANGED direct
    /\ UNCHANGED <<registry, session, live, deferred, queue, net, hijacks, needReset,
                   spare, messages>>

CanLink(id, o) == o # NoObject /\ GetNetId(o) \in {0, id}

LookupModCharacter ==
    /\ game.pc = "lookup"
    /\ \E o \in FindModCharacter(game.id) :
         IF CanLink(game.id, o)
         THEN game' = [game EXCEPT !.pc = "link", !.object = o]
         ELSE GameGo("create")
    /\ UNCHANGED <<registry, session, live, deferred, queue, net, caps, spare,
                   messages>>

\* Mutant of LinkObject: the entity gets the object behind the registry's back.
LinkObjectUnmapped(o) ==
    /\ entities' = [id \in DOMAIN entities |->
                      IF id = game.id THEN [entities[id] EXCEPT !.object = o] ELSE entities[id]]
    /\ UNCHANGED <<ptrToId, nextId>>
    /\ direct' = [direct EXCEPT ![OwnerOf[game.id]] = @ + 1]
    /\ game' = GameIdle
    /\ UNCHANGED <<session, live, deferred, queue, net, hijacks, needReset, messages>>

\* The object is the mod character that was looked up or one that the game's
\* factory has just made.
LinkObject(o) ==
    /\ SetGameObject(game.id, o)
    /\ direct' = [direct EXCEPT ![OwnerOf[game.id]] = @ + 1]
    /\ game' = GameIdle
    /\ UNCHANGED <<session, live, deferred, queue, net, hijacks, needReset, messages>>

LinkModCharacter ==
    game.pc = "link" /\ LinkObject(game.object) /\ UNCHANGED spare

SpawnCharacterDirect ==
    /\ game.pc = "create"
    /\ \E o \in spare : LinkObject(o) /\ spare' = spare \ {o}

\* Mutant of Retry: a failed attempt is not counted.
RetryForever(r) == {r}

\* Mutant of Retry: the last try is counted one too late.
RetryOnceMore(r) == IF r.retry < MaxRetries THEN {[r EXCEPT !.retry = @ + 1]} ELSE {}

\* What is queued again after a failed attempt: nothing once the tries are used up.
Retry(r) == IF r.retry + 1 < MaxRetries THEN {[r EXCEPT !.retry = @ + 1]} ELSE {}

\* Both factory paths returned null.
SpawnFails ==
    /\ game.pc = "create"
    /\ LET again == Retry([id |-> game.id, retry |-> game.retry])
       IN  IF again # {}
           THEN queue' = queue \o SetToSeq(again) /\ UNCHANGED <<registry, hijacks>>
           ELSE /\ hijacks' = DecrementSpawnCount(hijacks, OwnerOf[game.id])
                /\ Unregister(game.id)
                /\ UNCHANGED queue
    /\ game' = GameIdle
    /\ UNCHANGED <<session, live, deferred, net, direct, needReset, spare, messages>>

\* Mutant of Stuck: the clean-up tests for the wrong state.
StuckActive == {id \in RemoteIds : entities[id].state = "Active" /\ entities[id].object = NoObject}

\* Spawning and without object, by the copy GetInfo returns.
Stuck == {id \in RemoteIds : entities[id].state = "Spawning" /\ entities[id].object = NoObject}

\* The clean-up of stuck entities reads the entity, then the length of the queue, and
\* then removes the entity, each under a lock of its own: the network thread may link
\* it in between, and what is removed has a body.
FindStuck(id) ==
    /\ Playing /\ game.pc = "idle"
    /\ id \in Stuck
    /\ game' = [GameIdle EXCEPT !.pc = "stuck", !.id = id]
    /\ UNCHANGED <<registry, session, live, deferred, queue, net, caps, spare, messages>>

\* With nothing queued the entity is taken to be orphaned.
TestOrphaned ==
    /\ game.pc = "stuck"
    /\ game' = IF queue = << >> THEN [game EXCEPT !.pc = "orphan"] ELSE GameIdle
    /\ UNCHANGED <<registry, session, live, deferred, queue, net, caps, spare, messages>>

\* The count of the owner the copy names goes down, then the entity goes if it is there.
RemoveOrphan ==
    /\ game.pc = "orphan"
    /\ hijacks' = DecrementSpawnCount(hijacks, OwnerOf[game.id])
    /\ Unregister(game.id)
    /\ game' = GameIdle
    /\ UNCHANGED <<session, live, deferred, queue, net, direct, needReset, spare, messages>>

-----------------------------------------------------------------------------
(* The game thread: the CharacterCreate hook, and objects the game frees.   *)

HijackPop ==
    /\ Playing /\ game.pc = "idle" /\ queue # << >> /\ spare # {}
    /\ game' = [GameIdle EXCEPT !.pc = "hijack", !.id = Head(queue).id,
                                !.retry = Head(queue).retry]
    /\ queue' = Tail(queue)
    /\ UNCHANGED <<registry, session, live, deferred, net, caps, spare, messages>>

\* Take over the character just created, count a failed attempt (the fault may come
\* before or after the link is made), or hand the request back when the owner has
\* enough.  This path never unregisters the entity.
Hijack ==
    /\ game.pc = "hijack"
    /\ game' = GameIdle
    /\ LET p == OwnerOf[game.id]
           r == [id |-> game.id, retry |-> game.retry]
       IN  \/ /\ hijacks[p] < HijackCap
              /\ \E o \in spare : SetGameObject(game.id, o) /\ spare' = spare \ {o}
              /\ hijacks' = [hijacks EXCEPT ![p] = @ + 1]
              /\ UNCHANGED queue
           \/ /\ hijacks[p] < HijackCap
              /\ \/ UNCHANGED <<registry, spare>>
                 \/ \E o \in spare : SetGameObject(game.id, o) /\ spare' = spare \ {o}
              /\ queue' = queue \o SetToSeq(Retry(r))
              /\ UNCHANGED hijacks
           \/ /\ hijacks[p] >= HijackCap
              /\ queue' = Append(queue, r)
              /\ UNCHANGED <<registry, hijacks, spare>>
    /\ UNCHANGED <<session, live, deferred, net, direct, needReset, messages>>

\* The /sync command: the hook's counts start again and, if nothing is queued, the
\* entities without object are.
ForceSpawnRemotePlayers ==
    /\ Playing /\ game.pc = "idle" /\ messages < MessageBound
    /\ messages' = messages + 1
    /\ hijacks' = [p \in Players |-> 0]
    /\ queue' = IF queue = << >>
                THEN SetToSeq({[id |-> id, retry |-> 0] :
                                 id \in {i \in RemoteIds : entities[i].object = NoObject}})
                ELSE queue
    /\ UNCHANGED <<registry, session, live, deferred, net, game, direct, needReset, spare>>

\* A write to a freed object faults and the tick unlinks it.
LoseObject(id) ==
    /\ Playing /\ game.pc = "idle"
    /\ id \in RemoteIds /\ entities[id].object # NoObject
    /\ SetGameObject(id, NoObject)
    /\ UNCHANGED <<session, live, deferred, queue, net, game, caps, spare, messages>>

-----------------------------------------------------------------------------
(* The session.                                                             *)

\* HandleHandshakeAck; ResumeForNetwork only when the game is already loaded.
Connect ==
    /\ ~connected /\ net.pc = "idle" /\ game.pc = "idle" /\ sessions < SessionBound
    /\ connected' = TRUE
    /\ ready' = FALSE
    /\ sessions' = sessions + 1
    /\ hijacks' = IF loaded THEN [p \in Players |-> 0] ELSE hijacks
    /\ UNCHANGED <<registry, loaded, live, deferred, queue, net, game, direct, needReset,
                   spare, messages>>

\* OnGameLoaded, once per load: resumes the hooks of a client that is connected.
\* From here on the network thread registers entities itself.
GameLoaded ==
    /\ ~loaded /\ game.pc = "idle"
    /\ loaded' = TRUE
    /\ hijacks' = IF connected THEN [p \in Players |-> 0] ELSE hijacks
    /\ GameGo("loaded")
    /\ UNCHANGED <<registry, connected, ready, sessions, live, deferred, queue, net, direct,
                   needReset, spare, messages>>

\* It goes on to the entities that are registered by now ...
ListOnLoad ==
    /\ game.pc = "loaded"
    /\ game' = [game EXCEPT !.pc = "loadLoop", !.rest = IF connected THEN RemoteIds ELSE {}]
    /\ UNCHANGED <<registry, session, live, deferred, queue, net, caps, spare, messages>>

\* ... looks for the mod character of each that has no object and is still there ...
LookupOnLoad ==
    /\ game.pc = "loadLoop"
    /\ \E id \in game.rest, o \in Objects \cup {NoObject} :
         /\ o \in FindModCharacter(id)
         /\ LET rest == game.rest \ {id}
            IN  game' = IF id \in DOMAIN entities /\ GetGameObject(id) = NoObject
                           /\ o # NoObject /\ GetNetId(o) = 0
                        THEN [game EXCEPT !.pc = "loadLink", !.id = id, !.object = o,
                                          !.rest = rest]
                        ELSE [game EXCEPT !.rest = rest]
    /\ UNCHANGED <<registry, session, live, deferred, queue, net, caps, spare, messages>>

LinkOnLoad ==
    /\ game.pc = "loadLink"
    /\ SetGameObject(game.id, game.object)
    /\ GameGo("loadLoop")
    /\ UNCHANGED <<session, live, deferred, queue, net, caps, spare, messages>>

\* ... and tells the server that the player is ready.
ReadyOnLoad ==
    /\ game.pc = "loadLoop" /\ game.rest = {}
    /\ ready' = connected
    /\ game' = GameIdle
    /\ UNCHANGED <<registry, connected, loaded, sessions, live, deferred, queue, net, caps,
                   spare, messages>>

\* OnLoadingGapDetected in phase GameReady: a save is loaded over the running game,
\* also under a session that began before the first load.  The registry goes; the
\* queue stays.
LoadingGap ==
    /\ loaded /\ (~connected \/ ready)
    /\ game.pc = "idle" /\ sessions < SessionBound
    /\ loaded' = FALSE
    /\ sessions' = sessions + 1
    /\ Clear
    /\ UNCHANGED <<connected, ready, live, deferred, queue, net, game, caps, spare, messages>>

\* SetConnected(false) on the game thread: the registry first, the queue later.
\* A handler may be under way on the network thread.
Disconnect ==
    /\ connected /\ game.pc = "idle"
    /\ connected' = FALSE
    /\ ready' = FALSE
    /\ ClearRemoteEntities
    /\ GameGo("clearQueue")
    /\ UNCHANGED <<loaded, sessions, live, deferred, queue, net, caps, spare, messages>>

ClearSpawnQueue ==
    /\ game.pc = "clearQueue"
    /\ queue' = << >>
    /\ needReset' = TRUE
    /\ game' = GameIdle
    /\ UNCHANGED <<registry, session, live, deferred, net, direct, hijacks, spare, messages>>

\* Entities that go while the client is away.
ServerForgets(id) ==
    /\ ~connected /\ live[id] = "live"
    /\ live' = [live EXCEPT ![id] = "gone"]
    /\ UNCHANGED <<registry, session, deferred, queue, net, game, caps, spare, messages>>

-----------------------------------------------------------------------------
SpawnInit ==
    /\ Init
    /\ connected = FALSE /\ loaded = FALSE /\ ready = FALSE
    /\ live = [id \in ServerIds |-> "unborn"]
    /\ deferred = << >> /\ queue = << >>
    /\ net = NetIdle /\ game = GameIdle
    /\ direct = [p \in Players |-> 0] /\ hijacks = [p \in Players |-> 0]
    /\ needReset = FALSE
    /\ spare = Objects \ ModChars
    /\ messages = 0 /\ sessions = 0

NetStep ==
    \/ NextDeferred \/ NetRegister \/ NetLookup \/ NetLink \/ NetQueueSpawn
    \/ NetUnlink \/ NetUnregister \/ NetSweep

ServeStep ==
    \/ CheckRequest \/ LookupModCharacter \/ LinkModCharacter
    \/ SpawnCharacterDirect \/ SpawnFails \/ TestOrphaned \/ RemoveOrphan
    \/ Hijack \/ ClearSpawnQueue
    \/ ListOnLoad \/ LookupOnLoad \/ LinkOnLoad \/ ReadyOnLoad

Next ==
    \/ \E id \in ServerIds : ReceiveSpawn(id) \/ ReceiveDespawn(id) \/ ServerForgets(id)
    \/ \E p \in Players : ReceivePlayerLeft(p)
    \/ ReceiveAllReady \/ ReceiveHeartbeat
    \/ NetStep
    \/ PopNextSpawn \/ HijackPop \/ ServeStep
    \/ \E id \in RemoteIds : FindStuck(id) \/ LoseObject(id)
    \/ ForceSpawnRemotePlayers
    \/ Connect \/ GameLoaded \/ LoadingGap \/ Disconnect

SpawnSpec == SpawnInit /\ [][Next]_vars

\* Both threads run; the tick serves the queue every second and looks for stuck
\* entities every ten, and the server's heartbeat comes every five.
SpawnFairness ==
    /\ WF_vars(NetStep) /\ WF_vars(ServeStep)
    /\ SF_vars(PopNextSpawn)
    /\ \A id \in ServerIds : WF_vars(FindStuck(id))
    /\ WF_vars(ReceiveHeartbeat)

-----------------------------------------------------------------------------
\* The state of both threads and of everything they share is of its type; the
\* queue holds requests whose tries are not used up.
SpawnTypeOK ==
    /\ RegistryTypeOK
    /\ {connected, loaded, ready, needReset} \subseteq BOOLEAN
    /\ live \in [ServerIds -> {"unborn", "live", "gone"}]
    /\ deferred \in Seq(ServerIds)
    /\ \A i \in DOMAIN queue : queue[i] \in Requests /\ queue[i].retry < MaxRetries
    /\ net.pc \in {"idle", "deferred", "register", "lookup", "link", "queue", "unlink",
                   "unregister", "leave", "sweep"}
    /\ net.rest \subseteq ServerIds
    /\ game.pc \in {"idle", "popped", "lookup", "link", "create", "hijack", "stuck", "orphan",
                    "clearQueue", "loaded", "loadLoop", "loadLink"}
    /\ direct \in [Players -> 0 .. DirectCap]
    /\ hijacks \in [Players -> 0 .. HijackCap]
    /\ spare \subseteq Objects

\* Every request in the queue is served or dropped, however often the hook hands
\* it back and the factory fails, as long as the session and the game last.
RequestsServed ==
    \A id \in ServerIds :
        (\E i \in DOMAIN queue : queue[i].id = id) ~>
            (~Playing \/ \A i \in DOMAIN queue : queue[i].id # id)

\* No entity stays in state Spawning: it is linked or the clean-up removes it.
SpawningResolved ==
    \A id \in ServerIds :
        (id \in RemoteIds /\ entities[id].state = "Spawning") ~>
            (~Playing \/ id \notin RemoteIds \/ entities[id].state = "Active")

\* An entity that the server does not have, or has too far away, is removed from
\* the client: a heartbeat catches what dropped despawn messages and deferred
\* spawns left behind.
GhostsSwept ==
    \A id \in ServerIds :
        (HasOwn /\ loaded /\ id \in RemoteIds \ (Live \cap Nearby)) ~>
            (~Playing \/ id \notin RemoteIds \/ id \in Live \cap Nearby)
=============================================================================
