---------------------------- MODULE HostTeleport ----------------------------
(***************************************************************************)
(* How the own characters are put beside a remote one: once after joining, *)
(* and by the /tp command.  The tick is the one without orchestrator: poll *)
(* the own position, then HandleHostTeleport.  The network thread notes    *)
(* the first remote position it is told as the host's, testing and setting *)
(* it in two steps; a disconnection on the game thread forgets it.         *)
(*                                                                         *)
(* The own character and what reaches the server of him are those of       *)
(* OrchestratorStages.  Position 0 is the origin, which means unknown.     *)
(***************************************************************************)
EXTENDS OrchestratorStages

CONSTANTS TpWait,    \* time between the first sight of the point and the teleport: 2 s
          HtBound    \* bound: sessions

ASSUME TeleportAssumption == TpWait \in Nat \ {0} /\ HtBound \in Nat

VARIABLES online,     \* m_connected
          point,      \* m_hostSpawnPoint, -1 without m_hasHostSpawnPoint
          tpDone,     \* m_spawnTeleportDone
          tpTimer,    \* the age of m_hostTpTimer, -1 if it is not started
          hostHere,   \* m_isHost
          remoteAt,   \* EntityRegistry: positions of the remote entities
          setting,    \* the network thread: the position it is about to note, -1 if none
          greetings,  \* sessions so far
          toldIn,     \* the session in which the point, or the one about to be set, was told (not in the code)
          since,      \* time since the point was set, -1 if it is not (not in the code)
          landings,   \* automatic teleports of this session and this world (not in the code)
          late        \* a note of the last session was overtaken by its end (not in the code)

htVars == <<online, point, tpDone, tpTimer, hostHere, remoteAt, setting, greetings, toldIn, since, landings, late>>
idle == <<hand, packet, asks, pump, precall, spawns>>

HtInit ==
    /\ online = FALSE /\ point = -1 /\ tpDone = FALSE /\ tpTimer = -1 /\ hostHere = FALSE
    /\ remoteAt = {} /\ setting = -1 /\ greetings = 0
    /\ toldIn = 0 /\ since = -1 /\ landings = 0 /\ late = FALSE

-----------------------------------------------------------------------------
(* The game thread. *)

\* Mutant of Land: the registry keeps the old position.
LandUnnoted(p) == at' = p /\ moved' = FALSE /\ UNCHANGED <<last, lost>>

\* WritePosition and UpdatePosition.  The poll compares with the position noted here, so
\* the server is sent it only when the character walks on.
Land(p) == at' = p /\ last' = p /\ lost' = TRUE /\ moved' = FALSE

PollLocalPositions ==
    /\ online /\ step = "poll" /\ step' = "core"
    /\ Poll \/ UNCHANGED motion
    /\ UNCHANGED <<idle, htVars>>

Waits == point # -1 /\ ~tpDone /\ ~hostHere

\* Mutant of Timed: the wait is taken as over.
TimedAtOnce == TpWait

\* The timer starts at the first tick that sees the point.
Timed == IF tpTimer = -1 THEN 0 ELSE tpTimer

\* A character that is not registered yet, or cannot be written, is tried again next tick.
HandleHostTeleport ==
    /\ online /\ step = "core" /\ step' = "poll"
    /\ tpTimer' = IF Waits THEN Timed ELSE tpTimer
    /\ \/ UNCHANGED <<tpDone, landings, motion>>
       \/ /\ Waits /\ Timed >= TpWait /\ own /\ Land(point)
          /\ tpDone' = TRUE /\ landings' = landings + 1
          /\ UNCHANGED <<own, sent, heard>>
    /\ UNCHANGED <<idle, online, point, hostHere, remoteAt, setting, greetings, toldIn, since, late>>

Visible == remoteAt \ {0}

\* /tp: to the nearest remote entity; /tp name: to the first one of that player.
TeleportToNearestRemotePlayer ==
    /\ online /\ own /\ step = "poll"
    /\ \E p \in Visible : (\A r \in Visible : Distance(p, at) <= Distance(r, at)) /\ Land(p)
    /\ UNCHANGED <<step, own, sent, heard, idle, htVars>>

TeleportToNamed ==
    /\ online /\ own /\ step = "poll" /\ \E p \in Visible : Land(p)
    /\ UNCHANGED <<step, own, sent, heard, idle, htVars>>

\* SendExistingEntitiesToServer registers the character where he stands.
OwnRegistered ==
    /\ online /\ ~own /\ step = "poll" /\ own' = TRUE
    /\ last' = at /\ heard' = at /\ sent' = -1 /\ lost' = FALSE /\ moved' = FALSE
    /\ UNCHANGED <<step, at, idle, htVars>>

\* Mutants of ForgetHost: the point, or the timer, outlives the session.
ForgetHostButPoint == tpDone' = FALSE /\ hostHere' = FALSE /\ tpTimer' = -1 /\ UNCHANGED point
ForgetHostButTimer == tpDone' = FALSE /\ hostHere' = FALSE /\ point' = -1 /\ UNCHANGED tpTimer

\* The part of SetConnected(false) about the host.
ForgetHost == tpDone' = FALSE /\ hostHere' = FALSE /\ point' = -1 /\ tpTimer' = -1

Disconnected ==
    /\ online /\ online' = FALSE /\ step = "poll" /\ ForgetHost
    /\ remoteAt' = {} /\ since' = -1 /\ landings' = 0 /\ late' = (setting # -1)
    /\ sent' = -1 /\ lost' = (lost \/ sent # -1)
    /\ UNCHANGED <<step, at, own, last, heard, moved, idle, setting, greetings, toldIn>>

\* OnLoadingGapDetected: another world is loaded, also under a live connection; its
\* characters are not registered yet.  The point and its timer stay as they are.
WorldReloads ==
    /\ step = "poll" /\ own /\ own' = FALSE /\ tpDone' = FALSE /\ landings' = 0 /\ remoteAt' = {}
    /\ UNCHANGED <<step, at, last, sent, heard, lost, moved, idle, online, point, tpTimer, hostHere, setting, greetings, toldIn, since, late>>

-----------------------------------------------------------------------------
(* The network thread. *)

Handshake ==
    /\ ~online /\ greetings < HtBound /\ setting = -1 /\ online' = TRUE /\ greetings' = greetings + 1
    /\ UNCHANGED <<step, motion, idle, point, tpDone, tpTimer, hostHere, remoteAt, setting, toldIn, since, landings, late>>

HostAssignment ==
    /\ online /\ hostHere' = ~hostHere
    /\ UNCHANGED <<step, motion, idle, online, point, tpDone, tpTimer, remoteAt, setting, greetings, toldIn, since, landings, late>>

\* HandleEntitySpawn of a remote entity: without a point, and not at the origin, its position
\* becomes the point, be it the host's or not.
SpawnTold ==
    /\ online /\ setting = -1
    /\ \E p \in 0 .. Farthest :
        /\ IF point = -1 /\ p # 0
           THEN setting' = p /\ toldIn' = greetings /\ UNCHANGED remoteAt
           ELSE remoteAt' = remoteAt \cup {p} /\ UNCHANGED <<setting, toldIn>>
    /\ UNCHANGED <<step, motion, idle, online, point, tpDone, tpTimer, hostHere, greetings, since, landings, late>>

SetHostSpawnPoint ==
    /\ setting # -1 /\ setting' = -1 /\ point' = setting /\ remoteAt' = remoteAt \cup {setting}
    /\ since' = 0
    /\ UNCHANGED <<step, motion, idle, online, tpDone, tpTimer, hostHere, greetings, toldIn, landings, late>>

-----------------------------------------------------------------------------

HtTime ==
    /\ tpTimer' = IF tpTimer = -1 THEN -1 ELSE Bounded(tpTimer, TpWait)
    /\ since' = IF since = -1 THEN -1 ELSE Bounded(since, TpWait)
    /\ UNCHANGED <<step, motion, idle, online, point, tpDone, hostHere, remoteAt, setting, greetings, toldIn, landings, late>>

\* The character walks, and his updates arrive or are lost, as in OrchestratorStages.
HtMotion == (OwnMoves \/ PositionArrives \/ PositionLost) /\ UNCHANGED htVars

HtNext ==
    \/ PollLocalPositions \/ HandleHostTeleport \/ TeleportToNearestRemotePlayer \/ TeleportToNamed
    \/ OwnRegistered \/ Disconnected \/ WorldReloads \/ Handshake \/ HostAssignment \/ SpawnTold
    \/ SetHostSpawnPoint \/ HtTime \/ HtMotion

HtSpec == OsInit /\ HtInit /\ [][HtNext]_<<osVars, htVars>>

-----------------------------------------------------------------------------
\* A join moves the own characters once in a session and a world, after the full wait counted
\* from this session's point, and to a position this session's server told, although the
\* network thread sets the point while the game thread ends sessions.  Excepted: a note that
\* the end of its session overtook.
TeleportSound ==
    /\ landings <= 1
    /\ tpDone => since = TpWait
    /\ point # -1 /\ online /\ ~late => toldIn = greetings

HtTypeOK ==
    /\ {online, tpDone, hostHere, late} \subseteq BOOLEAN
    /\ {point, setting} \subseteq -1 .. Farthest /\ {tpTimer, since} \subseteq -1 .. TpWait
    /\ remoteAt \subseteq 0 .. Farthest /\ {greetings, toldIn} \subseteq 0 .. HtBound /\ landings \in Nat
=============================================================================
