---------------------------- MODULE ClientSession ----------------------------
(***************************************************************************)
(* One client from the main menu to play and back: the phases of Core, the  *)
(* detection of a loaded save, connecting, retrying, noticing a lost link,   *)
(* and the switches of the character hooks that follow from both.            *)
(*                                                                         *)
(* Two threads share this state.  The game thread runs a frame (Present      *)
(* hook, Overlay::Update, OnGameTick), the character-creation hook and the    *)
(* user's commands; the network thread runs NetworkClient::Update and the     *)
(* packet handlers.  A step is what one thread does between two accesses to   *)
(* state the other one writes.  The save, the socket and the server are       *)
(* external.  The PlayerReady message OnGameLoaded sends at its end is not    *)
(* recorded: nothing here depends on it.                                     *)
(***************************************************************************)
EXTENDS Naturals

CONSTANTS
    AutoConnect,       \* m_config.autoConnect: the default, and the launcher, say TRUE
    MaxAttempts,       \* m_maxConnectAttempts
    ClickBound,        \* bound: connection commands of the user
    HandlersOverlap    \* may a handler of the network thread be suspended while
                       \* the user acts, a stall lasts or Disconnect waits?

ASSUME SessionAssumption ==
    /\ AutoConnect \in BOOLEAN
    /\ MaxAttempts \in Nat \ {0}
    /\ ClickBound \in Nat
    /\ HandlersOverlap \in BOOLEAN

VARIABLES
    phase,          \* Core::m_clientPhase
    gameLoaded,     \* Core::m_gameLoaded
    connected,      \* Core::m_connected
    cConnected,     \* NetworkClient::m_connected
    cConnecting,    \* NetworkClient::m_connecting
    wire,           \* the ENet peer; "closed" is m_serverPeer = nullptr
    greeting,       \* handshake messages on this link and the answer
    ov,             \* Overlay's connection flags
    attempts,       \* Overlay::m_connectAttempt
    passthrough,    \* entity_hooks::s_loadingPassthrough
    combat,         \* CharacterDeath and CharacterKO hooks enabled
    world,          \* the game: no world, a save being loaded, a world
    gap,            \* time since the last Present: normal, over 2 s, over 10 s
    pc,             \* where the game thread is
    ret,            \* where OnGameLoaded, or a closed connection, continues
    net,            \* where the network thread is
    clicks

coreVars   == <<phase, gameLoaded, connected>>
clientVars == <<cConnected, cConnecting, wire, greeting>>
hookVars   == <<passthrough, combat>>
gameVars   == <<world, gap>>
ovVars     == <<ov, attempts>>
vars == <<coreVars, clientVars, ovVars, hookVars, gameVars, pc, ret, net, clicks>>

Phases == {"Startup", "MainMenu", "Loading", "GameReady", "Connecting", "Connected"}
GamePc == {"idle", "create", "gap1", "gap2", "gap3", "poll", "load1", "load2",
           "load3", "load4", "auto", "retry", "check1", "greet", "check2",
           "lost", "tick", "drop", "close", "start", "fault"}
NetPc  == {"idle", "ack2", "ack3", "ack4", "ack5"}
Overlay == [connecting : BOOLEAN, retry : BOOLEAN,
            autoPending : BOOLEAN, autoDone : BOOLEAN]

FlagsOK ==
    /\ gameLoaded \in BOOLEAN /\ connected \in BOOLEAN
    /\ cConnected \in BOOLEAN /\ cConnecting \in BOOLEAN
    /\ passthrough \in BOOLEAN /\ combat \in BOOLEAN

PlacesOK ==
    /\ phase \in Phases
    /\ wire \in {"closed", "opening", "open", "closing"}
    /\ greeting \in {"none", "sent", "answered", "twice"}
    /\ world \in {"menu", "loading", "up"}
    /\ gap \in {"none", "short", "long"}
    /\ pc \in GamePc /\ ret \in {"auto", "idle", "start"}
    /\ net \in NetPc

\* The state keeps its type; the overlay counts at most MaxAttempts attempts.
SessionTypeOK ==
    /\ FlagsOK
    /\ PlacesOK
    /\ ov \in Overlay
    /\ attempts \in 0 .. MaxAttempts
    /\ clicks \in 0 .. ClickBound

\* entity_hooks::Install leaves the creation hook in loading passthrough.
Init ==
    /\ phase = "Startup" /\ gameLoaded = FALSE /\ connected = FALSE
    /\ cConnected = FALSE /\ cConnecting = FALSE
    /\ wire = "closed" /\ greeting = "none"
    /\ ov = [connecting |-> FALSE, retry |-> FALSE,
             autoPending |-> FALSE, autoDone |-> FALSE]
    /\ attempts = 0
    /\ passthrough = TRUE /\ combat = FALSE
    /\ world = "menu" /\ gap = "none"
    /\ pc = "idle" /\ ret = "idle" /\ net = "idle" /\ clicks = 0

----------------------------------------------------------------------------
(* The game and the user's time: external.                                  *)

\* No handler is caught half way: it runs for microseconds, a stall for two
\* seconds, Disconnect for up to one, and the user is no faster.
HandlerDone == HandlersOverlap \/ net = "idle"

\* The user loads a save; a fast load leaves no gap.
LoadSave ==
    /\ pc = "idle" /\ world # "loading" /\ phase # "Startup" /\ HandlerDone
    /\ world' = "loading"
    /\ gap' \in {"none", "short", "long"}
    /\ UNCHANGED <<coreVars, clientVars, ovVars, hookVars, pc, ret, net, clicks>>

WorldUp ==
    /\ world = "loading"
    /\ world' = "up"
    /\ UNCHANGED <<coreVars, clientVars, ovVars, hookVars, gap, pc, ret, net, clicks>>

\* A zone load, or anything else, keeps the game from presenting.
Stall ==
    /\ pc = "idle" /\ gap = "none" /\ HandlerDone
    /\ gap' \in {"short", "long"}
    /\ UNCHANGED <<coreVars, clientVars, ovVars, hookVars, world, pc, ret, net, clicks>>

----------------------------------------------------------------------------
(* NetworkClient::ConnectAsync, and what its callers make of the result.     *)

\* ConnectAsync succeeds: it refuses while connected or connecting.
CanConnect == ~cConnected /\ ~cConnecting

ConnectAsync ==
    /\ cConnecting' = TRUE
    /\ wire' = "opening"
    /\ greeting' = "none"
    /\ UNCHANGED cConnected

\* The connect calls of Overlay and the user: on success the overlay is told
\* to watch the attempt; o is the state of its flags otherwise.
Attempt(o) ==
    \/ /\ CanConnect
       /\ ConnectAsync
       /\ ov' = [o EXCEPT !.connecting = TRUE]
       /\ phase' = "Connecting"
    \/ /\ ~CanConnect
       /\ ov' = o
       /\ UNCHANGED <<phase, clientVars>>

\* Mutant of SetOffline: the combat hooks stay enabled.
OfflineKeepsCombat(o) ==
    /\ connected' = FALSE
    /\ phase' = IF gameLoaded THEN "GameReady" ELSE phase
    /\ passthrough' = TRUE
    /\ combat' = combat
    /\ ov' = [o EXCEPT !.autoDone = FALSE, !.retry = FALSE, !.autoPending = FALSE]
    /\ attempts' = 0
    /\ UNCHANGED gameLoaded

\* Core::SetConnected(false) on top of an overlay state o.
SetOffline(o) ==
    /\ connected' = FALSE
    /\ phase' = IF gameLoaded THEN "GameReady" ELSE phase
    /\ passthrough' = TRUE
    /\ combat' = FALSE
    /\ ov' = [o EXCEPT !.autoDone = FALSE, !.retry = FALSE, !.autoPending = FALSE]
    /\ attempts' = 0
    /\ UNCHANGED gameLoaded

----------------------------------------------------------------------------
(* A frame: HookPresent ...                                                  *)

LoadingGap == \/ phase = "MainMenu" /\ gap # "none"
              \/ phase = "GameReady" /\ gap = "long"

\* HookPresent: Startup ends some time after the first Present; a gap makes it
\* call OnLoadingGapDetected.
Present ==
    /\ pc = "idle"
    /\ phase' \in IF phase = "Startup" THEN {"Startup", "MainMenu"} ELSE {phase}
    /\ pc' = IF LoadingGap THEN "gap1" ELSE "poll"
    /\ gap' = "none"
    /\ UNCHANGED <<gameLoaded, connected, clientVars, ovVars, hookVars, world, ret,
                   net, clicks>>

\* OnLoadingGapDetected: the phase is read again.
GapResets ==
    /\ pc = "gap1"
    /\ LET accepted == phase \in {"MainMenu", "GameReady"} IN
       /\ gameLoaded' = (gameLoaded /\ ~accepted)
       /\ pc' = IF accepted THEN "gap2" ELSE "poll"
    /\ UNCHANGED <<phase, connected, clientVars, ovVars, hookVars, gameVars, ret,
                   net, clicks>>

\* Mutant of GapPassthrough: the hook keeps its full body for the load.
GapForgetsPassthrough ==
    /\ pc = "gap2"
    /\ pc' = "gap3"
    /\ UNCHANGED <<coreVars, clientVars, ovVars, hookVars, gameVars, ret, net, clicks>>

\* The hook goes to its lightweight path before the phase says Loading.
GapPassthrough ==
    /\ pc = "gap2"
    /\ passthrough' = TRUE
    /\ pc' = "gap3"
    /\ UNCHANGED <<coreVars, clientVars, ovVars, combat, gameVars, ret, net, clicks>>

GapLoading ==
    /\ pc = "gap3"
    /\ phase' = "Loading"
    /\ pc' = "poll"
    /\ UNCHANGED <<gameLoaded, connected, clientVars, ovVars, hookVars, gameVars,
                   ret, net, clicks>>

(* ... Overlay::Update ...                                                   *)

\* PollForGameLoad in the Loading phase: creates that stopped, or one of the
\* time-outs, count as loaded.
PollFound ==
    /\ pc = "poll" /\ phase = "Loading" /\ ~gameLoaded
    /\ passthrough' = FALSE
    /\ pc' = "load1" /\ ret' = "auto"
    /\ UNCHANGED <<coreVars, clientVars, ovVars, combat, gameVars, net, clicks>>

PollNothing ==
    /\ pc = "poll"
    /\ pc' = "auto"
    /\ UNCHANGED <<coreVars, clientVars, ovVars, hookVars, gameVars, ret, net, clicks>>

\* Auto-connect queued by the menu, two seconds after the load.
AutoWaits == ov.autoPending /\ gameLoaded /\ ~ov.autoDone /\ ~ov.connecting

AutoFires ==
    /\ pc = "auto" /\ AutoWaits
    /\ LET done == [ov EXCEPT !.autoDone = TRUE, !.autoPending = FALSE] IN
       Attempt(done)
    /\ pc' = "retry"
    /\ UNCHANGED <<attempts, gameLoaded, connected, hookVars, gameVars, ret, net, clicks>>

AutoPasses ==
    /\ pc = "auto"
    /\ pc' = "retry"
    /\ UNCHANGED <<coreVars, clientVars, ovVars, hookVars, gameVars, ret, net, clicks>>

\* Mutant of RetryFires: the attempt is not counted.
RetryUncounted ==
    /\ pc = "retry" /\ ov.retry /\ ~ov.connecting
    /\ Attempt([ov EXCEPT !.retry = FALSE])
    /\ attempts' = IF CanConnect THEN attempts ELSE MaxAttempts
    /\ pc' = "check1"
    /\ UNCHANGED <<gameLoaded, connected, hookVars, gameVars, ret, net, clicks>>

\* The retry, five seconds after the failure.
RetryFires ==
    /\ pc = "retry" /\ ov.retry /\ ~ov.connecting
    /\ Attempt([ov EXCEPT !.retry = FALSE])
    /\ attempts' = IF CanConnect THEN attempts + 1 ELSE MaxAttempts
    /\ pc' = "check1"
    /\ UNCHANGED <<gameLoaded, connected, hookVars, gameVars, ret, net, clicks>>

RetryPasses ==
    /\ pc = "retry"
    /\ pc' = "check1"
    /\ UNCHANGED <<coreVars, clientVars, ovVars, hookVars, gameVars, ret, net, clicks>>

\* Mutant of Established: the overlay goes on watching.
EstablishedStillConnecting ==
    /\ pc = "check1" /\ ov.connecting /\ cConnected
    /\ ov' = [ov EXCEPT !.retry = FALSE]
    /\ attempts' = 0
    /\ pc' = "greet"
    /\ UNCHANGED <<coreVars, clientVars, hookVars, gameVars, ret, net, clicks>>

\* IsConnected() while the overlay watches an attempt ...
Established ==
    /\ pc = "check1" /\ ov.connecting /\ cConnected
    /\ ov' = [ov EXCEPT !.connecting = FALSE, !.retry = FALSE]
    /\ attempts' = 0
    /\ pc' = "greet"
    /\ UNCHANGED <<coreVars, clientVars, hookVars, gameVars, ret, net, clicks>>

NotEstablished ==
    /\ pc = "check1" /\ ~(ov.connecting /\ cConnected)
    /\ pc' = IF ov.connecting THEN "check2" ELSE "lost"
    /\ UNCHANGED <<coreVars, clientVars, ovVars, hookVars, gameVars, ret, net, clicks>>

\* ... sends the handshake, unless the link broke meanwhile.  If it breaks
\* between Send's test and its lock the null peer faults and the exception
\* guard of Overlay::Update skips the rest of the frame's update.
SendHandshake ==
    /\ pc = "greet"
    /\ \/ /\ wire = "open"
          /\ greeting' = IF greeting = "none" THEN "sent" ELSE "twice"
          /\ pc' = "lost"
       \/ /\ wire # "open"
          /\ pc' \in {"lost", "tick"}
          /\ UNCHANGED greeting
    /\ UNCHANGED <<coreVars, cConnected, cConnecting, wire, ovVars, hookVars,
                   gameVars, ret, net, clicks>>

\* Mutant of AttemptFailed: off by one in the limit.
OneAttemptTooMany ==
    /\ pc = "check2"
    /\ \/ cConnecting /\ UNCHANGED <<ovVars, phase>>
       \/ /\ ~cConnecting /\ attempts <= MaxAttempts
          /\ ov' = [ov EXCEPT !.connecting = FALSE, !.retry = TRUE]
          /\ UNCHANGED <<attempts, phase>>
    /\ pc' = "lost"
    /\ UNCHANGED <<gameLoaded, connected, clientVars, hookVars, gameVars, ret,
                   net, clicks>>

\* ... and IsConnecting(), read later than IsConnected().
AttemptFailed ==
    /\ pc = "check2"
    /\ \/ cConnecting /\ UNCHANGED <<ovVars, phase>>
       \/ /\ ~cConnecting /\ attempts < MaxAttempts
          /\ ov' = [ov EXCEPT !.connecting = FALSE, !.retry = TRUE]
          /\ UNCHANGED <<attempts, phase>>
       \/ /\ ~cConnecting /\ attempts = MaxAttempts
          /\ ov' = [ov EXCEPT !.connecting = FALSE]
          /\ attempts' = 0
          /\ phase' = IF gameLoaded THEN "GameReady" ELSE phase
    /\ pc' = "lost"
    /\ UNCHANGED <<gameLoaded, connected, clientVars, hookVars, gameVars, ret,
                   net, clicks>>

\* Mutant of DetectLoss: only in the phase Connected, which a load leaves.
LossSeenInConnectedPhase ==
    /\ pc = "lost"
    /\ IF connected /\ ~cConnected /\ phase = "Connected"
         THEN SetOffline([ov EXCEPT !.connecting = FALSE])
         ELSE UNCHANGED <<coreVars, hookVars, ovVars>>
    /\ pc' = "tick"
    /\ UNCHANGED <<clientVars, gameVars, ret, net, clicks>>

\* Disconnect detection.
DetectLoss ==
    /\ pc = "lost"
    /\ IF connected /\ ~cConnected
         THEN SetOffline([ov EXCEPT !.connecting = FALSE])
         ELSE UNCHANGED <<coreVars, hookVars, ovVars>>
    /\ pc' = "tick"
    /\ UNCHANGED <<clientVars, gameVars, ret, net, clicks>>

(* ... and OnGameTick, as far as it concerns the load.                       *)

\* The PlayerBase fallback: a connected client whose load nobody noticed.
TickFindsWorld ==
    /\ pc = "tick" /\ connected /\ ~gameLoaded /\ world # "menu"
    /\ pc' = "load1" /\ ret' = "idle"
    /\ UNCHANGED <<coreVars, clientVars, ovVars, hookVars, gameVars, net, clicks>>

TickPasses ==
    /\ pc = "tick"
    /\ pc' = "idle"
    /\ UNCHANGED <<coreVars, clientVars, ovVars, hookVars, gameVars, ret, net, clicks>>

----------------------------------------------------------------------------
(* Core::OnGameLoaded.                                                       *)

\* m_gameLoaded.exchange(true)
LoadedOnce ==
    /\ pc = "load1"
    /\ gameLoaded' = TRUE
    /\ pc' = IF gameLoaded THEN ret ELSE "load2"
    /\ UNCHANGED <<phase, connected, clientVars, ovVars, hookVars, gameVars, ret,
                   net, clicks>>

LoadedReady ==
    /\ pc = "load2"
    /\ phase' = "GameReady"
    /\ pc' = "load3"
    /\ UNCHANGED <<gameLoaded, connected, clientVars, ovVars, hookVars, gameVars,
                   ret, net, clicks>>

\* Mutant of LoadedResumes: nothing resumes what the handshake deferred.
LoadedDoesNotResume ==
    /\ pc = "load3"
    /\ pc' = "load4"
    /\ UNCHANGED <<coreVars, clientVars, ovVars, hookVars, gameVars, ret, net, clicks>>

\* The resume the handshake deferred because no world was loaded.
LoadedResumes ==
    /\ pc = "load3"
    /\ passthrough' = (passthrough /\ ~connected)
    /\ combat' = (combat \/ connected)
    /\ pc' = "load4"
    /\ UNCHANGED <<coreVars, clientVars, ovVars, gameVars, ret, net, clicks>>

\* Core's own auto-connect; the overlay is not told of the attempt.
LoadedConnects ==
    /\ pc = "load4"
    /\ IF ~connected /\ AutoConnect /\ CanConnect
         THEN ConnectAsync /\ phase' = "Connecting"
         ELSE UNCHANGED <<phase, clientVars>>
    /\ pc' = ret
    /\ UNCHANGED <<gameLoaded, connected, ovVars, hookVars, gameVars, ret, net, clicks>>

----------------------------------------------------------------------------
(* The character-creation hook outside passthrough, while not connected: it  *)
(* tests IsConnected, calls the factory, and may then go back to passthrough.*)

CreateOffline ==
    /\ pc = "idle" /\ world # "menu" /\ ~passthrough /\ ~connected
    /\ pc' = "create"
    /\ UNCHANGED <<coreVars, clientVars, ovVars, hookVars, gameVars, ret, net, clicks>>

CreateReturns ==
    /\ pc = "create"
    /\ passthrough' = TRUE \/ UNCHANGED passthrough
    /\ pc' = "idle"
    /\ UNCHANGED <<coreVars, clientVars, ovVars, combat, gameVars, ret, net, clicks>>

----------------------------------------------------------------------------
(* The user's commands, between two frames.                                  *)

Click ==
    /\ pc = "idle" /\ clicks < ClickBound /\ HandlerDone
    /\ clicks' = clicks + 1

\* NativeMenu::OnConnectClicked
MenuConnect ==
    /\ Click
    /\ ov' = [ov EXCEPT !.retry = FALSE]
    /\ attempts' = 0
    /\ pc' = IF cConnected \/ cConnecting THEN "drop" ELSE "start"
    /\ ret' = "start"
    /\ UNCHANGED <<coreVars, clientVars, hookVars, gameVars, net>>

\* /connect <ip>
CommandConnect ==
    /\ Click
    /\ ov' = [ov EXCEPT !.retry = FALSE]
    /\ attempts' = 0
    /\ pc' = IF connected THEN "drop" ELSE "start"
    /\ ret' = "start"
    /\ UNCHANGED <<coreVars, clientVars, hookVars, gameVars, net>>

\* /disconnect
CommandDisconnect ==
    /\ Click /\ connected
    /\ pc' = "drop" /\ ret' = "idle"
    /\ UNCHANGED <<coreVars, clientVars, ovVars, hookVars, gameVars, net>>

\* /sync, and /connect without an address
CommandSync ==
    /\ pc = "idle" /\ connected /\ gameLoaded /\ HandlerDone
    /\ passthrough' = FALSE
    /\ UNCHANGED <<coreVars, clientVars, ovVars, combat, gameVars, pc, ret, net, clicks>>

\* Host, or a server picked from the list before a save is loaded.
QueueAutoConnect ==
    /\ Click
    /\ ov' = [ov EXCEPT !.autoPending = TRUE, !.autoDone = FALSE]
    /\ UNCHANGED <<attempts, coreVars, clientVars, hookVars, gameVars, pc, ret, net>>

Closed ==
    /\ cConnected' = FALSE /\ cConnecting' = FALSE
    /\ wire' = "closed" /\ greeting' = "none"
    /\ SetOffline(ov)
    /\ pc' = ret

\* NetworkClient::Disconnect: an attempt is reset, a connection is asked to
\* close and then awaited without m_enetMutex; SetConnected(false) follows.
Disconnect ==
    /\ pc = "drop"
    /\ \/ ~cConnected /\ Closed
       \/ /\ cConnected
          /\ wire' = "closing"
          /\ pc' = "close"
          /\ UNCHANGED <<coreVars, cConnected, cConnecting, greeting, ovVars, hookVars>>
    /\ UNCHANGED <<gameVars, ret, net, clicks>>

\* The wait ends with the event, or with a reset of the peer.  When the network
\* thread took the event first, the reset is of a null peer: ENet faults.
DisconnectEnds ==
    /\ pc = "close" /\ HandlerDone
    /\ \/ wire # "closed" /\ Closed
       \/ /\ wire = "closed"
          /\ pc' = "fault"
          /\ UNCHANGED <<coreVars, clientVars, ovVars, hookVars>>
    /\ UNCHANGED <<gameVars, ret, net, clicks>>

StartConnect ==
    /\ pc = "start"
    /\ Attempt(ov)
    /\ pc' = "idle"
    /\ UNCHANGED <<attempts, gameLoaded, connected, hookVars, gameVars, ret, net, clicks>>

----------------------------------------------------------------------------
(* The network thread.                                                       *)

\* ENET_EVENT_TYPE_CONNECT
NetConnect ==
    /\ net = "idle" /\ wire = "opening"
    /\ wire' = "open"
    /\ cConnected' = TRUE /\ cConnecting' = FALSE
    /\ UNCHANGED <<coreVars, greeting, ovVars, hookVars, gameVars, pc, ret, net, clicks>>

\* ENET_EVENT_TYPE_DISCONNECT: the server or a time-out ended the link, the
\* attempt failed, or the server confirmed our Disconnect.
NetDisconnect ==
    /\ net = "idle" /\ wire # "closed"
    /\ wire' = "closed" /\ greeting' = "none"
    /\ cConnected' = FALSE /\ cConnecting' = FALSE
    /\ UNCHANGED <<coreVars, ovVars, hookVars, gameVars, pc, ret, net, clicks>>

\* HandleHandshakeAck
Ack ==
    /\ net = "idle" /\ wire = "open" /\ greeting = "sent"
    /\ greeting' = "answered"
    /\ connected' = TRUE
    /\ net' = "ack2"
    /\ UNCHANGED <<phase, gameLoaded, cConnected, cConnecting, wire, ovVars, hookVars,
                   gameVars, pc, ret, clicks>>

AckCombat ==
    /\ net = "ack2"
    /\ combat' = (combat \/ gameLoaded)
    /\ net' = "ack3"
    /\ UNCHANGED <<coreVars, clientVars, ovVars, passthrough, gameVars, pc, ret, clicks>>

AckPhase ==
    /\ net = "ack3"
    /\ phase' = "Connected"
    /\ net' = "ack4"
    /\ UNCHANGED <<gameLoaded, connected, clientVars, ovVars, hookVars, gameVars, pc,
                   ret, clicks>>

AckReadsLoaded ==
    /\ net = "ack4"
    /\ net' = IF gameLoaded THEN "ack5" ELSE "idle"
    /\ UNCHANGED <<coreVars, clientVars, ovVars, hookVars, gameVars, pc, ret, clicks>>

AckResumes ==
    /\ net = "ack5"
    /\ passthrough' = FALSE
    /\ net' = "idle"
    /\ UNCHANGED <<coreVars, clientVars, ovVars, combat, gameVars, pc, ret, clicks>>

\* HandleHandshakeReject
Reject ==
    /\ net = "idle" /\ wire = "open" /\ greeting = "sent"
    /\ greeting' = "answered"
    /\ phase' = IF gameLoaded THEN "GameReady" ELSE phase
    /\ UNCHANGED <<gameLoaded, connected, cConnected, cConnecting, wire, ovVars,
                   hookVars, gameVars, pc, ret, net, clicks>>

----------------------------------------------------------------------------

Frame ==
    \/ GapResets \/ GapPassthrough \/ GapLoading
    \/ PollFound \/ PollNothing \/ AutoFires \/ AutoPasses
    \/ RetryFires \/ RetryPasses \/ Established \/ NotEstablished
    \/ SendHandshake \/ AttemptFailed \/ DetectLoss
    \/ TickFindsWorld \/ TickPasses
    \/ LoadedOnce \/ LoadedReady \/ LoadedResumes \/ LoadedConnects
    \/ CreateReturns \/ Disconnect \/ DisconnectEnds \/ StartConnect

Handler == AckCombat \/ AckPhase \/ AckReadsLoaded \/ AckResumes

User == \/ MenuConnect \/ CommandConnect \/ CommandDisconnect \/ CommandSync
        \/ QueueAutoConnect \/ LoadSave

Next == \/ Present \/ Frame \/ CreateOffline \/ User
        \/ NetConnect \/ NetDisconnect \/ Ack \/ Reject \/ Handler
        \/ WorldUp \/ Stall

Spec == Init /\ [][Next]_vars

\* The game presents frames and finishes what a frame began; a handler returns;
\* ENet ends an attempt after five seconds; a load is recognised at the latest by
\* the 90-second time-out, a due retry is made.
FairSpec ==
    /\ Spec
    /\ SF_vars(Present) /\ WF_vars(Frame) /\ WF_vars(Handler)
    /\ SF_vars(PollFound) /\ SF_vars(RetryFires)
    /\ WF_vars(wire = "opening" /\ (NetConnect \/ NetDisconnect))

----------------------------------------------------------------------------
(* Properties.                                                               *)

Quiet == pc = "idle" /\ net = "idle"

\* Whichever of the handshake (network thread) and the end of loading (game
\* thread) comes last, and however their steps mix, a client that is connected
\* in a loaded world has its combat hooks enabled.
CombatWhenPlaying == Quiet /\ connected /\ gameLoaded => combat

\* A client that is not connected does not report deaths and knock-outs:
\* every way of losing a session disables the hooks, and no handler enables
\* them afterwards.
SilentWhenOffline == Quiet /\ ~connected => ~combat

\* While a save is being loaded (130+ creates) the creation hook is in its
\* lightweight mode, whatever handshake, resume or sync command came before.
LoadingIsLight == Quiet /\ phase = "Loading" => passthrough

\* The hooks follow the session, over every order of handshake, load, loss and
\* reconnection on the two threads.
HooksFollowSession == CombatWhenPlaying /\ SilentWhenOffline /\ LoadingIsLight

\* A link carries at most one handshake: neither a retry, a queued
\* auto-connect nor a second command makes the overlay greet twice.
OneHandshake == greeting # "twice"

\* A lost link is noticed: Core does not stay connected over a dead client.
LostNoticed ==
    (connected /\ ~cConnected) ~> (~connected \/ cConnected \/ pc = "fault")

\* The overlay's attempt comes to an end, established or given up, over all
\* retries and whatever the game loads meanwhile.
AttemptSettles ==
    (ov.connecting \/ ov.retry) ~> (~(ov.connecting \/ ov.retry) \/ pc = "fault")

\* The phase Connecting means that the handshake is under way: a link without
\* handshake is one the overlay watches and will greet.
SomebodyGreets ==
    Quiet /\ phase = "Connecting" /\ wire # "closed" /\ greeting = "none"
        => ov.connecting
=============================================================================
