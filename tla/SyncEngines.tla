----------------------------- MODULE SyncEngines -----------------------------
(***************************************************************************)
(* The engines of the SyncOrchestrator that watch the others and the       *)
(* ground: PlayerEngine (who is here, who is away) and ZoneEngine (where   *)
(* the local player is, what is around), with the handlers that feed them, *)
(* the orchestrator's life cycle and the server's answer to a zone request. *)
(* It is the path of Core::OnGameTick that useSyncOrchestrator turns on.   *)
(*                                                                         *)
(* The game thread ticks and disconnects; the network thread handles       *)
(* packets.  The acknowledgement and a join take two steps each, between   *)
(* which the game thread may run.  PlayerJoined, PlayerLeft and spawns go  *)
(* through one ordered channel.  The snapshot at joining is left out, to   *)
(* see what the zone requests achieve alone; so are the entities' owners,  *)
(* but for the server's not sending a player his own.                      *)
(***************************************************************************)
EXTENDS Integers, FiniteSets, Sequences

CONSTANTS IdLimit,     \* bound: player ids the server gives out
          Grid,        \* the zones the local player visits, pairs of integers
          Nowhere,     \* no readable position
          Placed,      \* external: the zone of each entity on the server
          Mine,        \* those of the local player
          ZoneMax,     \* ZONE_MAX
          Radius,      \* KMP_INTEREST_RADIUS
          AfkTimeout,  \* afkTimeoutSeconds, in units of time
          AfkEvery,    \* ticks between two checks: 200
          WireLimit    \* bound: messages in flight when the next one is caused

ASSUME EnginesAssumption ==
    /\ Mine \subseteq DOMAIN Placed
    /\ Grid \subseteq Int \X Int /\ <<0, 0>> \in Grid /\ Nowhere \notin Grid
    /\ {IdLimit, ZoneMax, Radius, WireLimit} \subseteq Nat
    /\ {AfkTimeout, AfkEvery} \subseteq Nat \ {0}

VARIABLES others,      \* the server's m_players but the local player
          nextPlayer,      \* m_nextPlayerId
          mine,        \* the local player's id on the server, 0 if it has no session
          down,        \* messages to the client, in order
          up,          \* zone requests to the server, in order
          handler,     \* the network thread
          orch,        \* SyncOrchestrator: m_active, m_localPlayerId, m_tickCount;
                       \* ZoneEngine::m_sendFn is set
          people,      \* PlayerEngine::m_sessions
          self,        \* PlayerEngine: m_localPlayerId, m_localZone
          moves,       \* a position update is on its way (unreliable channel)
          place,       \* external: the zone of the primary character
          zone,        \* ZoneEngine::m_localZone
          nearby,      \* the entities in ZoneEngine::m_zoneEntities
          known,       \* remote entities of the registry
          unasked,     \* the local zone was entered before m_sendFn was set (not in the code)
          overtaken    \* joins that a Reset overtook (not in the code)

seVars == <<others, nextPlayer, mine, down, up, handler, orch, people, self, moves, place,
            zone, nearby, known, unasked, overtaken>>

server == <<others, nextPlayer, mine>>
ground == <<zone, nearby, unasked>>

PlayerIds == 1 .. IdLimit
Invalid == 0
Idle == [pc |-> "idle", id |-> 0]
Origin == <<0, 0>>

\* The position of the primary character, unless it cannot be read or is the origin.
GetPosition == {place, Nowhere}

IsAdjacent(z, w) == z[1] - w[1] \in -1 .. 1 /\ z[2] - w[2] \in -1 .. 1

GetInterestZones(z) == {<<z[1] + dx, z[2] + dy>> : dx \in -Radius .. Radius, dy \in -Radius .. Radius}

GetEntitiesInZone(z) == {e \in known : Placed[e] = z}

Off(wired) == [active |-> FALSE, id |-> Invalid, tick |-> 0, wired |-> wired]

SeInit ==
    /\ others = {} /\ nextPlayer = 1 /\ mine = Invalid
    /\ down = <<>> /\ up = <<>> /\ handler = Idle
    /\ orch = Off(FALSE)
    /\ people = <<>> /\ self = [id |-> Invalid, zone |-> Origin]
    /\ moves = FALSE
    /\ place \in Grid /\ zone = Origin /\ nearby = {} /\ known = {}
    /\ unasked = FALSE /\ overtaken = {}

-----------------------------------------------------------------------------
(* The server. *)

Tell(msgs) == down' = IF mine # Invalid THEN down \o msgs ELSE down
Room == Len(down) < WireLimit

\* The local player's handshake: the acknowledgement, then the players there are.
AcceptLocal ==
    /\ mine = Invalid /\ ~orch.active /\ handler = Idle /\ nextPlayer <= IdLimit
    /\ mine' = nextPlayer /\ nextPlayer' = nextPlayer + 1
    /\ \E order \in [1 .. Cardinality(others) -> others] :
        /\ \A i, j \in DOMAIN order : i # j => order[i] # order[j]
        /\ down' = <<[kind |-> "ack", id |-> nextPlayer]>>
                     \o [i \in DOMAIN order |-> [kind |-> "joined", id |-> order[i]]]
    /\ UNCHANGED <<others, up, handler, orch, people, self, moves, place, ground, known, overtaken>>

\* BroadcastExcept: the others hear of a new player.
PlayerJoins ==
    /\ nextPlayer <= IdLimit /\ Room
    /\ others' = others \cup {nextPlayer} /\ nextPlayer' = nextPlayer + 1
    /\ Tell(<<[kind |-> "joined", id |-> nextPlayer]>>)
    /\ UNCHANGED <<mine, up, handler, orch, people, self, moves, place, ground, known, overtaken>>

\* HandleDisconnect.
PlayerLeaves ==
    /\ Room
    /\ \E p \in others :
        /\ others' = others \ {p}
        /\ Tell(<<[kind |-> "left", id |-> p]>>)
    /\ UNCHANGED <<nextPlayer, mine, up, handler, orch, people, self, moves, place, ground, known, overtaken>>

\* Mutant of ZoneAnswer: the requested zone only.
ZoneAnswerBare(z) == {e \in DOMAIN Placed \ Mine : z = Placed[e]}

\* Which entities answer a request for zone z.
ZoneAnswer(z) ==
    IF \A i \in {1, 2} : z[i] \in -ZoneMax .. ZoneMax
    THEN {e \in DOMAIN Placed \ Mine : IsAdjacent(z, Placed[e])}
    ELSE {}

HandleZoneRequest ==
    /\ up # <<>> /\ mine # Invalid /\ Room
    /\ Tell(<<[kind |-> "spawns", id |-> 0, ids |-> ZoneAnswer(Head(up))]>>)
    /\ up' = Tail(up)
    /\ UNCHANGED <<server, handler, orch, people, self, moves, place, ground, known, overtaken>>

BroadcastPositions ==
    /\ orch.active /\ others # {} /\ ~moves /\ moves' = TRUE
    /\ UNCHANGED <<server, down, up, handler, orch, people, self, place, ground, known, overtaken>>

-----------------------------------------------------------------------------
(* PlayerEngine. *)

\* Sessions of an earlier connection are not looked at.
OnHandshakeAck(p) == self' = [self EXCEPT !.id = p]

\* A join replaces whatever session the id had.
OnRemotePlayerJoined(p) ==
    [q \in DOMAIN people \cup {p} |->
        IF q = p THEN [state |-> "InGame", idle |-> 0] ELSE people[q]]

\* Mutant of OnRemotePlayerLeft: the state is left to the AFK check.
OnRemotePlayerLeftKept(p) == people

\* A session is kept when its player leaves.
OnRemotePlayerLeft(p) ==
    IF p \in DOMAIN people THEN [people EXCEPT ![p].state = "Disconnected"] ELSE people

RecordActivity(p) ==
    IF p \in DOMAIN people
    THEN [people EXCEPT ![p] = [state |-> IF @.state = "AFK" THEN "InGame" ELSE @.state, idle |-> 0]]
    ELSE people

\* Mutant of CheckAFK: whoever is silent is away, also who has left.
CheckAFKAll ==
    [p \in DOMAIN people |->
        IF people[p].idle >= AfkTimeout THEN [people[p] EXCEPT !.state = "AFK"] ELSE people[p]]

CheckAFK ==
    [p \in DOMAIN people |->
        IF people[p].state = "InGame" /\ people[p].idle >= AfkTimeout
        THEN [people[p] EXCEPT !.state = "AFK"] ELSE people[p]]

-----------------------------------------------------------------------------
(* The network thread. *)

Next1 == Head(down)
Receive(kind) == handler = Idle /\ down # <<>> /\ Next1.kind = kind /\ down' = Tail(down)

\* HandleHandshakeAck up to and into SyncOrchestrator::Initialize: ticks do their work from here.
BeginInitialize ==
    /\ Receive("ack")
    /\ orch' = [orch EXCEPT !.active = TRUE, !.id = Next1.id, !.tick = 0]
    /\ handler' = [pc |-> "ack", id |-> Next1.id]
    /\ UNCHANGED <<server, up, people, self, moves, place, ground, known, overtaken>>

\* OnHandshakeAck and SetSendCallback.
EndInitialize ==
    /\ handler.pc = "ack" /\ handler' = Idle
    /\ OnHandshakeAck(handler.id)
    /\ orch' = [orch EXCEPT !.wired = TRUE]
    /\ UNCHANGED <<server, down, up, people, moves, place, ground, known, overtaken>>

\* HandlePlayerJoined drops the own id.
BeginPlayerJoined ==
    /\ Receive("joined")
    /\ handler' = IF Next1.id = orch.id THEN Idle ELSE [pc |-> "joined", id |-> Next1.id]
    /\ UNCHANGED <<server, up, orch, people, self, moves, place, ground, known, overtaken>>

EndPlayerJoined ==
    /\ handler.pc = "joined" /\ handler' = Idle
    /\ people' = OnRemotePlayerJoined(handler.id)
    /\ overtaken' = IF orch.active THEN overtaken ELSE overtaken \cup {handler.id}
    /\ UNCHANGED <<server, down, up, orch, self, moves, place, ground, known>>

\* RemovePlayer and ClearInterest have nothing to remove: no code enters a remote
\* player into m_playerZones, or computes an interest set.
HandlePlayerLeft ==
    /\ Receive("left")
    /\ people' = OnRemotePlayerLeft(Next1.id)
    /\ UNCHANGED <<server, up, handler, orch, self, moves, place, ground, known, overtaken>>

\* The spawns that answer a zone request register the entities that are new.
HandleEntitySpawn ==
    /\ Receive("spawns")
    /\ known' = known \cup Next1.ids
    /\ UNCHANGED <<server, up, handler, orch, people, self, moves, place, ground, overtaken>>

\* BroadcastPositions names the server as the source of every update.
PositionSource == Invalid

HandlePositionUpdate ==
    /\ handler = Idle /\ moves /\ moves' = FALSE
    /\ people' = RecordActivity(PositionSource)
    /\ UNCHANGED <<server, down, up, handler, orch, self, place, ground, known, overtaken>>

-----------------------------------------------------------------------------
(* The game thread. *)

RebuildZoneIndex(z) == UNION {GetEntitiesInZone(w) : w \in GetInterestZones(z)}

\* NotifyZoneChange: nobody is told while there is no callback.
NotifyZoneChange(z) == up' = IF orch.wired THEN Append(up, z) ELSE up

\* Mutant of RebuildDue: only when the interval is over.
RebuildDueLater(elapsed, zoneChanged) == elapsed

\* Is the index built anew in this tick?
RebuildDue(elapsed, zoneChanged) == elapsed \/ zoneChanged

\* The local zone is remembered before anybody is told.
UpdateLocalPlayerZone(z) ==
    /\ zone' = z
    /\ IF z # zone THEN NotifyZoneChange(z) /\ unasked' = ~orch.wired ELSE UNCHANGED <<up, unasked>>

StageUpdateZones ==
    \E z \in GetPosition, elapsed \in BOOLEAN :
        IF z = Nowhere
        THEN UNCHANGED <<ground, self, up>>
        ELSE /\ UpdateLocalPlayerZone(z)
             /\ self' = IF z # zone THEN [self EXCEPT !.zone = z] ELSE self
             /\ nearby' = IF RebuildDue(elapsed, z # zone) THEN RebuildZoneIndex(z) ELSE nearby

StageUpdatePlayers == people' = IF orch.tick = 0 THEN CheckAFK ELSE people

\* Tick.  The stages between these two are in other modules.
Tick ==
    /\ orch.active /\ orch.id # Invalid /\ Len(up) < WireLimit
    /\ StageUpdateZones /\ StageUpdatePlayers
    /\ orch' = [orch EXCEPT !.tick = (@ + 1) % AfkEvery]
    /\ UNCHANGED <<server, down, handler, moves, place, known, overtaken>>

PlayerEngineReset == people' = <<>> /\ self' = [id |-> Invalid, zone |-> Origin]

ZoneEngineReset == zone' = Origin /\ nearby' = {} /\ unasked' = FALSE

\* SetConnected(false), by the user or when the loss is noticed: ClearRemoteEntities and
\* SyncOrchestrator::Reset.
Reset ==
    /\ orch.active
    /\ mine' = Invalid /\ down' = <<>> /\ up' = <<>> /\ moves' = FALSE
    /\ orch' = Off(orch.wired)
    /\ PlayerEngineReset /\ ZoneEngineReset /\ known' = {} /\ overtaken' = {}
    /\ UNCHANGED <<others, nextPlayer, handler, place>>

-----------------------------------------------------------------------------
(* The world. *)

Walk ==
    /\ orch.active
    /\ \E z \in Grid \ {place} : place' = z
    /\ UNCHANGED <<server, down, up, handler, orch, people, self, moves, ground, known, overtaken>>

Older(t) == IF t < AfkTimeout THEN t + 1 ELSE t

TimePasses ==
    /\ orch.active
    /\ people' = [p \in DOMAIN people |-> [people[p] EXCEPT !.idle = Older(@)]]
    /\ UNCHANGED <<server, down, up, handler, orch, self, moves, place, ground, known, overtaken>>

SeNext ==
    \/ AcceptLocal \/ PlayerJoins \/ PlayerLeaves \/ HandleZoneRequest \/ BroadcastPositions
    \/ BeginInitialize \/ EndInitialize \/ BeginPlayerJoined \/ EndPlayerJoined
    \/ HandlePlayerLeft \/ HandleEntitySpawn \/ HandlePositionUpdate
    \/ Tick \/ Reset \/ Walk \/ TimePasses

SeSpec == SeInit /\ [][SeNext]_seVars

-----------------------------------------------------------------------------
Quiet == orch.active /\ down = <<>> /\ up = <<>> /\ handler = Idle

Present == {p \in DOMAIN people : people[p].state \in {"InGame", "AFK"}}

\* Whom the engine shows as present, away included, is who is on the server, once the
\* messages are through; only a join that a Reset overtook is excepted.  Nobody is his own
\* remote player.
RosterAgrees ==
    /\ orch.active => orch.id \notin DOMAIN people
    /\ Quiet => Present \ overtaken = others \ overtaken

\* Away is who was silent for the whole timeout by the engine's record.
AwayIsSilent == \A p \in DOMAIN people : people[p].state = "AFK" => people[p].idle = AfkTimeout

\* A zone that was entered while there was a callback was asked for, and what the server
\* has around it is known when the answers are in.
AroundKnown ==
    Quiet /\ zone # Origin /\ ~unasked =>
        {e \in DOMAIN Placed \ Mine : Placed[e] \in GetInterestZones(zone)} \subseteq known

\* The index holds nothing that is out of the interest of the zone the engines agree on.
IndexAround ==
    /\ self.zone = zone
    /\ \A e \in nearby : e \in known /\ Placed[e] \in GetInterestZones(zone)

\* The engines of the orchestrator agree with the server and with one another, whatever
\* comes between the two halves of a handler.
EnginesSound == RosterAgrees /\ AwayIsSilent /\ AroundKnown /\ IndexAround

SeTypeOK ==
    /\ others \subseteq PlayerIds /\ mine \in 0 .. IdLimit /\ nextPlayer \in 1 .. IdLimit + 1
    /\ orch \in [active : BOOLEAN, id : 0 .. IdLimit, tick : 0 .. AfkEvery - 1, wired : BOOLEAN]
    /\ DOMAIN people \subseteq PlayerIds
    /\ place \in Grid /\ zone \in Grid /\ nearby \subseteq DOMAIN Placed /\ known \subseteq DOMAIN Placed
=============================================================================
