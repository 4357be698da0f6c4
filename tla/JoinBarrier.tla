---------------------------- MODULE JoinBarrier ----------------------------
(***************************************************************************)
(* How a session forms: the server numbers the players, gives each a       *)
(* faction of the mod and waits until all have loaded (server.cpp,         *)
(* HandleHandshake, HandlePlayerReady, HandleLobbyReady); each client      *)
(* patches its faction into the game, loads the common save, looks for its *)
(* own character in it and links the others' (lobby_manager.cpp,           *)
(* shared_save_sync.cpp, FindAndClaimModCharacters, FindModCharacterBySlot *)
(* in core.cpp).                                                           *)
(*                                                                         *)
(* On a client two threads: the game thread claims the player's character  *)
(* and links what the network thread could not; the network thread links   *)
(* what the server announces.  Each looks in the registry whether a        *)
(* character is taken and enters it in a call of its own, so either may    *)
(* find it free before the other has entered it.                           *)
(*                                                                         *)
(* The save has the characters "Player 1", "Player 2", ..., here numbers.  *)
(***************************************************************************)
EXTENDS Naturals, Sequences, FiniteSets

CONSTANTS
    Clients,
    Characters,  \* the n of the save's characters "Player n"
    Nil, Own,    \* nobody, the client itself
    JoinBound    \* bound: handshakes over a behaviour

ASSUME JoinAssumption ==
    /\ {Nil, Own} \cap Nat = {} /\ Nil # Own
    /\ Characters \subseteq 1 .. 16
    /\ JoinBound \in Nat

VARIABLES
    nextId,     \* m_nextPlayerId
    players,    \* m_players: id -> isReady, lobbyReady
    departed,   \* a player has left
    id,         \* m_localPlayerId, Nil when not connected
    lobby,      \* LobbyManager: faction string and slot, Nil before the first assignment
    patched,    \* the faction string in the game's memory
    loaded,     \* IsGameLoaded
    claimed,    \* registry: characters with a local entity, the client's own
    linkedTo,   \* registry: characters with an entity of the player of their number
    holder,     \* registry, m_ptrToId: Own, a player's id or Nil
    claiming,   \* game thread: the character it found free and will register
    linking,    \* network thread: the player whose character it found free
    overlapped, \* characters registered while a link of them was under way
    shared,     \* s_ownCharName of the shared-save sync
    queue,      \* client to server
    inbox,      \* server to client
    opened      \* ids whose inbox ever had AllPlayersReady

serverSide == <<nextId, players, departed>>
registry == <<claimed, linkedTo, holder, claiming, linking, overlapped>>
clientSide == <<id, lobby, patched, loaded, shared, registry>>
jbVars == <<serverSide, clientSide, queue, inbox, opened>>

JbInit ==
    /\ nextId = 1 /\ players = << >> /\ departed = FALSE
    /\ id = [c \in Clients |-> Nil]
    /\ lobby = [c \in Clients |-> Nil]
    /\ patched = [c \in Clients |-> Nil]
    /\ loaded = [c \in Clients |-> FALSE]
    /\ claimed = [c \in Clients |-> {}]
    /\ linkedTo = [c \in Clients |-> {}]
    /\ holder = [c \in Clients |-> [n \in Characters |-> Nil]]
    /\ claiming = [c \in Clients |-> Nil]
    /\ linking = [c \in Clients |-> Nil]
    /\ overlapped = [c \in Clients |-> {}]
    /\ shared = [c \in Clients |-> Nil]
    /\ queue = [c \in Clients |-> << >>]
    /\ inbox = [c \in Clients |-> << >>]
    /\ opened = {}

-----------------------------------------------------------------------------
(* The server.                                                             *)

\* The FCS ids of the mod's factions, with the name of its file.
FactionStrings == <<"10-kenshi-online.mod", "12-kenshi-online.mod">>

\* Slots count from zero and are used again.
SlotOf(p) == (p - 1) % Len(FactionStrings)

With(f, p, r) == [q \in DOMAIN f \cup {p} |-> IF q = p THEN r ELSE f[q]]

Without(f, p) == [q \in DOMAIN f \ {p} |-> f[q]]

\* Mutant of NextPlayerId: an id is given out twice.
SamePlayerId == nextId' = nextId

NextPlayerId == nextId' = nextId + 1

\* HandleHandshake: acknowledgement and faction, in this order.
Handshake(c) ==
    /\ id[c] = Nil /\ \A p \in DOMAIN players : players[p].client # c
    /\ nextId <= JoinBound
    /\ NextPlayerId
    /\ players' = With(players, nextId, [client |-> c, isReady |-> FALSE, lobbyReady |-> FALSE])
    /\ inbox' = [inbox EXCEPT ![c] =
         <<[kind |-> "ack", id |-> nextId],
           [kind |-> "faction", faction |-> FactionStrings[SlotOf(nextId) + 1],
                                slot |-> SlotOf(nextId)]>>]
    /\ UNCHANGED <<departed, clientSide, queue, opened>>

Connected(ps) == {ps[p].client : p \in DOMAIN ps}

ToAll(ps, msg) ==
    [c \in Clients |-> IF c \in Connected(ps) THEN Append(inbox[c], msg) ELSE inbox[c]]

\* Mutant of ReadyPlayers: the player's own flag is set after the count.
ReadyPlayersBefore(p) == {q \in DOMAIN players : players[q].isReady}

\* GetReadyPlayerCount, after the flag of the sender has been set.
ReadyPlayers(p) == {q \in DOMAIN players : players[q].isReady \/ q = p}

HandlePlayerReady(p) ==
    IF players[p].isReady
    THEN UNCHANGED <<players, inbox, opened>>
    ELSE /\ players' = [players EXCEPT ![p].isReady = TRUE]
         /\ IF Cardinality(DOMAIN players) > 1 /\ ReadyPlayers(p) = DOMAIN players
            THEN /\ inbox' = ToAll(players, [kind |-> "allReady"])
                 /\ opened' = opened \cup DOMAIN players
            ELSE UNCHANGED <<inbox, opened>>

\* HandleLobbyReady may start the lobby again on every message.
HandleLobbyReady(p) ==
    /\ players' = [players EXCEPT ![p].lobbyReady = TRUE]
    /\ inbox' = IF \A q \in DOMAIN players : players'[q].lobbyReady
                THEN ToAll(players, [kind |-> "start"]) ELSE inbox
    /\ UNCHANGED opened

ServerTakes(c) ==
    /\ queue[c] # << >>
    /\ queue' = [queue EXCEPT ![c] = Tail(@)]
    /\ \E p \in DOMAIN players :
         /\ players[p].client = c
         /\ \/ Head(queue[c]) = "ready" /\ HandlePlayerReady(p)
            \/ Head(queue[c]) = "lobby" /\ HandleLobbyReady(p)
    /\ UNCHANGED <<nextId, departed, clientSide>>

\* The entities of the players in ps go, and the pointers they held lead nowhere.
Unregister(c, ps) ==
    /\ linkedTo' = [linkedTo EXCEPT ![c] = @ \ ps]
    /\ holder' = [holder EXCEPT ![c] =
         [n \in Characters |-> IF n \in linkedTo[c] \cap ps THEN Nil ELSE @[n]]]

\* HandleDisconnect tells those who stay and does not look at their flags.  The client
\* keeps its own entities and loses all others, so that a link under way finds none
\* (ClearRemoteEntities).
Depart(c) ==
    /\ id[c] # Nil
    /\ players' = Without(players, id[c])
    /\ departed' = TRUE
    /\ id' = [id EXCEPT ![c] = Nil]
    /\ Unregister(c, linkedTo[c])
    /\ linking' = [linking EXCEPT ![c] = Nil]
    /\ shared' = [shared EXCEPT ![c] = Nil]
    /\ queue' = [queue EXCEPT ![c] = << >>]
    /\ inbox' = [ToAll(players', [kind |-> "left", id |-> id[c]]) EXCEPT ![c] = << >>]
    /\ UNCHANGED <<nextId, lobby, patched, loaded, claimed, claiming, overlapped, opened>>

-----------------------------------------------------------------------------
(* A client.                                                               *)

\* HandleFactionAssignment patches the game at once when no save is being loaded.
Receive(c) ==
    /\ inbox[c] # << >> /\ linking[c] = Nil
    /\ inbox' = [inbox EXCEPT ![c] = Tail(@)]
    /\ LET msg == Head(inbox[c]) IN
       \/ /\ msg.kind = "ack"
          /\ id' = [id EXCEPT ![c] = msg.id]
          /\ UNCHANGED <<lobby, patched, linkedTo, holder>>
       \/ /\ msg.kind = "faction"
          /\ lobby' = [lobby EXCEPT ![c] = [faction |-> msg.faction, slot |-> msg.slot]]
          /\ patched' \in {patched, [patched EXCEPT ![c] = msg.faction]}
          /\ UNCHANGED <<id, linkedTo, holder>>
       \/ /\ msg.kind \in {"allReady", "start"}
          /\ UNCHANGED <<id, lobby, patched, linkedTo, holder>>
       \/ /\ msg.kind = "left"
          /\ Unregister(c, {msg.id})
          /\ UNCHANGED <<id, lobby, patched>>
    /\ UNCHANGED <<serverSide, loaded, shared, claimed, claiming, linking, overlapped, queue,
                   opened>>

HasFaction(c) == lobby[c] # Nil

\* A save is loaded: ApplyFactionPatch when the load is noticed, PlayerReady at its
\* end if the client is connected by then.
OnGameLoaded(c) ==
    /\ ~loaded[c]
    /\ loaded' = [loaded EXCEPT ![c] = TRUE]
    /\ patched' = IF HasFaction(c) THEN [patched EXCEPT ![c] = lobby[c].faction] ELSE patched
    /\ queue' = IF id[c] # Nil THEN [queue EXCEPT ![c] = Append(@, "ready")] ELSE queue
    /\ UNCHANGED <<serverSide, id, lobby, shared, registry, inbox, opened>>

\* The /ready command.
CommandReady(c) ==
    /\ id[c] # Nil /\ HasFaction(c)
    /\ queue[c] = << >> /\ ~players[id[c]].lobbyReady
    /\ queue' = [queue EXCEPT ![c] = Append(@, "lobby")]
    /\ UNCHANGED <<serverSide, clientSide, inbox, opened>>

\* Mutant of FindModCharacterBySlot: a character that is registered is taken again.
FindModCharacterAnyway(c, slot) == {slot} \cap Characters

\* FindModCharacterBySlot, and the caller's test that it is not registered yet.
FindModCharacterBySlot(c, slot) ==
    {n \in Characters \cap {slot} : holder[c][n] = Nil}

\* FindAndClaimModCharacters, from the entity scan of the tick or by /claim: only
\* with a slot above zero, and the character with the number of the slot.
FindAndClaimModCharacters(c) ==
    /\ id[c] # Nil /\ loaded[c] /\ HasFaction(c) /\ claiming[c] = Nil
    /\ lobby[c].slot > 0
    /\ lobby[c].slot \in FindModCharacterBySlot(c, lobby[c].slot)
    /\ claiming' = [claiming EXCEPT ![c] = lobby[c].slot]
    /\ UNCHANGED <<serverSide, id, lobby, patched, loaded, shared, claimed, linkedTo, holder,
                   linking, overlapped, queue, inbox, opened>>

\* Register: of a pointer that was entered meanwhile it returns the entity there is.
Register(c) ==
    LET n == claiming[c] IN
    /\ n # Nil
    /\ claiming' = [claiming EXCEPT ![c] = Nil]
    /\ IF holder[c][n] = Nil
       THEN /\ claimed' = [claimed EXCEPT ![c] = @ \cup {n}]
            /\ holder' = [holder EXCEPT ![c][n] = Own]
            /\ overlapped' = [overlapped EXCEPT ![c] = @ \cup ({n} \cap {linking[c]})]
       ELSE UNCHANGED <<claimed, holder, overlapped>>
    /\ UNCHANGED <<serverSide, id, lobby, patched, loaded, shared, linkedTo, linking, queue,
                   inbox, opened>>

\* Player p is there, as far as the client has heard.
HeardOf(c, p) ==
    p \in DOMAIN players \/ \E i \in DOMAIN inbox[c] : inbox[c][i] = [kind |-> "left", id |-> p]

\* HandleEntitySpawn and ProcessDeferredSpawn, on the network thread: the character
\* of another player is the one with the number of his id.
LookUpModCharacter(c, p) ==
    /\ id[c] \notin {Nil, p} /\ loaded[c] /\ HeardOf(c, p) /\ linking[c] = Nil
    /\ p \in FindModCharacterBySlot(c, p)
    /\ linking' = [linking EXCEPT ![c] = p]
    /\ UNCHANGED <<serverSide, id, lobby, patched, loaded, shared, claimed, linkedTo, holder,
                   claiming, overlapped, queue, inbox, opened>>

\* SetGameObject: the pointer leads to the player's entity, wherever it led before.
SetGameObject(c, p) ==
    /\ linkedTo' = [linkedTo EXCEPT ![c] = @ \cup {p}]
    /\ holder' = [holder EXCEPT ![c][p] = p]

\* The link itself, without another look.
LinkModCharacter(c) ==
    /\ linking[c] # Nil
    /\ SetGameObject(c, linking[c])
    /\ linking' = [linking EXCEPT ![c] = Nil]
    /\ UNCHANGED <<serverSide, id, lobby, patched, loaded, shared, claimed, claiming,
                   overlapped, queue, inbox, opened>>

\* OnGameLoaded and HandleSpawnQueue link what is left, on the thread that claims; the
\* network thread could only enter the same player meanwhile.
DeferredModLink(c, p) ==
    /\ id[c] \notin {Nil, p} /\ loaded[c] /\ HeardOf(c, p) /\ claiming[c] = Nil
    /\ p \in FindModCharacterBySlot(c, p)
    /\ SetGameObject(c, p)
    /\ UNCHANGED <<serverSide, id, lobby, patched, loaded, shared, claimed, claiming, linking,
                   overlapped, queue, inbox, opened>>

\* FactionToOwnName.
FactionToOwnName(faction) ==
    CASE faction = "10-kenshi-online" -> 1
      [] faction = "12-kenshi-online" -> 2
      [] OTHER -> Nil

\* shared_save_sync::Update tries Init on every tick until it has a name.
SharedSaveInit(c) ==
    /\ id[c] # Nil /\ loaded[c] /\ HasFaction(c) /\ shared[c] = Nil
    /\ shared' = [shared EXCEPT ![c] = FactionToOwnName(lobby[c].faction)]
    /\ UNCHANGED <<serverSide, id, lobby, patched, loaded, registry, queue, inbox, opened>>

JbNext ==
    \E c \in Clients :
       \/ Handshake(c) \/ ServerTakes(c) \/ Depart(c)
       \/ Receive(c) \/ OnGameLoaded(c) \/ CommandReady(c)
       \/ FindAndClaimModCharacters(c) \/ Register(c)
       \/ \E p \in 1 .. JoinBound : LookUpModCharacter(c, p) \/ DeferredModLink(c, p)
       \/ LinkModCharacter(c)
       \/ SharedSaveInit(c)

JbSpec == JbInit /\ [][JbNext]_jbVars

-----------------------------------------------------------------------------

JbTypeOK ==
    /\ nextId \in 1 .. JoinBound + 1
    /\ DOMAIN players \subseteq 1 .. nextId - 1
    /\ \A c \in Clients :
         /\ id[c] \in DOMAIN players \cup {Nil}
         /\ claimed[c] \cup linkedTo[c] \cup overlapped[c] \subseteq Characters
         /\ holder[c] \in [Characters -> Characters \cup {Own, Nil}]
         /\ {claiming[c], linking[c]} \subseteq Characters \cup {Nil}

\* As long as nobody left, players who are all ready have been told so: the last
\* one to report opens the barrier, whoever that is (server.cpp:2419).
BarrierOpens ==
    ~departed /\ Cardinality(DOMAIN players) > 1 /\ (\A p \in DOMAIN players : players[p].isReady)
       => DOMAIN players \subseteq opened

\* A character of the save has one master on a client, its own player or one other,
\* whatever order claims, spawns and departures come in (core.cpp:2000), with one
\* exception: a claim entered between the network thread's look and its link
\* (packet_handler.cpp:661, :671) leaves it both.
OneMaster ==
    \A c \in Clients : claimed[c] \cap linkedTo[c] \subseteq overlapped[c]
=============================================================================
