----------------------------- MODULE CombatSync -----------------------------
(***************************************************************************)
(* Knock-outs, deaths and wounds of characters: from the hooks of one      *)
(* client (hooks/combat_hooks.cpp) through the server's combat handlers    *)
(* (server.cpp, combat_resolver.cpp, authority_validator.cpp) to the other *)
(* clients (net/packet_handler.cpp) and back into their hooks.             *)
(*                                                                         *)
(* Per client two threads.  The game thread runs the game, the hooks, the  *)
(* command queue and the deferred events; the network thread applies a     *)
(* knock-out at once and queues a death for the game thread.  Reports go   *)
(* up on one reliable channel; the server answers on two, each in order by *)
(* itself and independent of the other.                                    *)
(*                                                                         *)
(* Left out: amounts of damage (a character is hurt or not), positions.    *)
(***************************************************************************)
EXTENDS Naturals, Sequences, SequencesExt, FiniteSets

CONSTANTS
    Machines,     \* clients, by player id
    Fighters,     \* characters: entity ids registered and linked everywhere
    Nobody,       \* INVALID_ENTITY as killer or attacker
    OwnerOf,      \* ServerEntity::owner
    RingSize,     \* MAX_DEFERRED_EVENTS; per client, for small instances to differ
    EventsPerTick,\* the cap of 64 in ProcessDeferredEvents
    FightBound    \* bound: blows the game deals of its own and faults of its
                  \* functions over a behaviour

ASSUME CombatAssumption ==
    /\ OwnerOf \in [Fighters -> Machines]
    /\ Nobody \notin Fighters
    /\ IsFiniteSet(Fighters)
    /\ RingSize \in [Machines -> Nat \ {0}]
    /\ {EventsPerTick, FightBound} \subseteq Nat

VARIABLES
    alive,      \* server: ServerEntity::alive
    online,     \* a client is connected, on both sides
    body,       \* the game's own state of a character on each client
    hurt,       \* the limb values in the character's memory on each client
    sent,       \* s_lastSentHealth on its owner's client
    ring,       \* s_eventRing between read and write index
    dropped,    \* s_dropCount was raised in this behaviour
    skipped,    \* characters whose death came off the ring behind the tick's cap
    applying,   \* the character whose native knock-out the network thread is in
    commands,   \* m_commandQueue: deaths to execute
    uplink,     \* client to server, reliable ordered
    ordered,    \* server to client, reliable ordered
    unordered,  \* server to client, the other reliable channel
    blows,      \* genuine knock-outs, deaths and wounds, and faults, so far
    knocked,    \* genuine knock-outs so far, per character
    koCasts,    \* S2C_CombatKO broadcasts so far, per character
    deathCasts  \* S2C_CombatDeath broadcasts so far, per character

game    == <<body, hurt, sent>>
client  == <<ring, dropped, skipped, applying, commands>>
network == <<uplink, ordered, unordered>>
tallies == <<blows, knocked, koCasts, deathCasts>>
csVars  == <<alive, online, game, client, network, tallies>>

\* Bits of state.
Online == {m \in Machines : online[m]}
Event(kind, f, other) == [kind |-> kind, f |-> f, other |-> other]
Limbs(f, h) == [kind |-> "limbs", f |-> f, hurt |-> h]

CsInit ==
    /\ alive = [f \in Fighters |-> TRUE]
    /\ online = [m \in Machines |-> TRUE]
    /\ body = [m \in Machines |-> [f \in Fighters |-> "up"]]
    /\ hurt = [m \in Machines |-> [f \in Fighters |-> FALSE]]
    /\ sent = [f \in Fighters |-> FALSE]
    /\ ring = [m \in Machines |-> << >>]
    /\ dropped = [m \in Machines |-> FALSE]
    /\ skipped = [m \in Machines |-> {}]
    /\ applying = [m \in Machines |-> Nobody]
    /\ commands = [m \in Machines |-> << >>]
    /\ uplink = [m \in Machines |-> << >>]
    /\ ordered = [m \in Machines |-> << >>]
    /\ unordered = [m \in Machines |-> << >>]
    /\ blows = 0
    /\ knocked = [f \in Fighters |-> 0]
    /\ koCasts = [f \in Fighters |-> 0]
    /\ deathCasts = [f \in Fighters |-> 0]

-----------------------------------------------------------------------------
(* The hooks, on the thread that calls the game's function.                *)

\* Mutant of Room: the ring takes one event more, and then reads as empty.
RoomToTheBrim(m) == Len(ring[m]) < RingSize[m]

\* The next write index is not the read index.
Room(m) == Len(ring[m]) < RingSize[m] - 1

\* PushEvent: a ring of RingSize slots holds one event less.
PushEvent(m, e) ==
    /\ ring' = IF Room(m) THEN [ring EXCEPT ![m] = Append(@, e)] ELSE ring
    /\ dropped' = IF Room(m) THEN dropped ELSE [dropped EXCEPT ![m] = TRUE]

\* Mutant of HookKO: the echo of the server's own knock-out is not suppressed.
HookKOEchoes(m, f, other, sourced) ==
    IF ~online[m] THEN UNCHANGED <<ring, dropped>> ELSE PushEvent(m, Event("ko", f, other))

\* Hook_CharacterKO: the original runs first; an event the packet handler caused
\* is not reported.  The test reads s_serverSourcedKO, which is global: a blow of
\* the game itself is taken for the server's while the network thread has it set.
HookKO(m, f, other, sourced) ==
    IF sourced \/ applying[m] # Nobody \/ ~online[m]
    THEN UNCHANGED <<ring, dropped>>
    ELSE PushEvent(m, Event("ko", f, other))

\* Hook_CharacterDeath: s_serverSourcedDeath is only ever set on this thread.
HookDeath(m, f, other, sourced) ==
    IF sourced \/ ~online[m]
    THEN UNCHANGED <<ring, dropped>>
    ELSE PushEvent(m, Event("death", f, other))

\* External: the game knocks a character out, kills it, or wounds it.
Strike ==
    /\ blows < FightBound
    /\ blows' = blows + 1

GameKO(m, f, other) ==
    /\ Strike /\ body[m][f] = "up" /\ other # f
    /\ body' = [body EXCEPT ![m][f] = "down"]
    /\ knocked' = [knocked EXCEPT ![f] = @ + 1]
    /\ HookKO(m, f, other, FALSE)
    /\ UNCHANGED <<alive, online, hurt, sent, skipped, applying, commands, network,
                   koCasts, deathCasts>>

GameDeath(m, f, other) ==
    /\ Strike /\ body[m][f] # "dead" /\ other # f
    /\ body' = [body EXCEPT ![m][f] = "dead"]
    /\ HookDeath(m, f, other, FALSE)
    /\ UNCHANGED <<alive, online, hurt, sent, skipped, applying, commands, network,
                   knocked, koCasts, deathCasts>>

GameWound(m, f) ==
    /\ Strike /\ ~hurt[m][f]
    /\ hurt' = [hurt EXCEPT ![m][f] = TRUE]
    /\ UNCHANGED <<alive, online, body, sent, client, network, knocked, koCasts,
                   deathCasts>>

-----------------------------------------------------------------------------
(* The game tick.                                                          *)

\* Of each event a report and, behind it, the snapshot SendLimbHealthUpdate reads at
\* that moment.
Reports(m, events) ==
    LET f(i) == events[i \div 2].f IN
    [i \in 1 .. 2 * Len(events) |-> IF i % 2 = 1 THEN events[(i + 1) \div 2]
                                                ELSE Limbs(f(i), hurt[m][f(i)])]

\* Mutant of Popped: the tick stops one event short of the end of the ring.
PoppedShort(m) == IF Len(ring[m]) > 0 THEN Len(ring[m]) - 1 ELSE 0

\* "while (PopEvent(evt) && processed < 64)": events taken off in one tick.  The
\* one after the cap is popped before the cap is tested, is not processed, and
\* s_dropCount does not count it.
Popped(m) ==
    IF Len(ring[m]) <= EventsPerTick THEN Len(ring[m]) ELSE EventsPerTick + 1

ProcessDeferredEvents(m) ==
    LET n == Popped(m)
        processed == SubSeq(ring[m], 1, IF n > EventsPerTick THEN EventsPerTick ELSE n)
        passed == {f \in Fighters : \E i \in EventsPerTick + 1 .. n :
                                      ring[m][i].kind = "death" /\ ring[m][i].f = f}
    IN  /\ ring[m] # << >>
        /\ IF ~online[m]
           THEN ring' = [ring EXCEPT ![m] = << >>] /\ UNCHANGED <<uplink, skipped>>
           ELSE /\ ring' = [ring EXCEPT ![m] = SubSeq(@, n + 1, Len(@))]
                /\ uplink' = [uplink EXCEPT ![m] = @ \o Reports(m, processed)]
                /\ skipped' = [skipped EXCEPT ![m] = @ \cup passed]
        /\ UNCHANGED <<alive, online, game, dropped, applying, commands, ordered,
                       unordered, tallies>>

\* The map of the registry goes through its entities in an order of its own.
Orders(S) == {q \in [1 .. Cardinality(S) -> S] : IsInjective(q)}

\* PollOwnedHealth: every 250 ms the owner samples its characters and reports
\* what changed since it last reported.
PollOwnedHealth(m) ==
    LET changed == {f \in Fighters : OwnerOf[f] = m /\ hurt[m][f] # sent[f]} IN
    /\ online[m] /\ changed # {}
    /\ sent' = [f \in Fighters |-> IF f \in changed THEN hurt[m][f] ELSE sent[f]]
    /\ \E order \in Orders(changed) :
         uplink' = [uplink EXCEPT ![m] =
           @ \o [i \in DOMAIN order |-> Limbs(order[i], hurt[m][order[i]])]]
    /\ UNCHANGED <<alive, online, body, hurt, client, ordered, unordered, tallies>>

\* Step 1.5 of OnGameTick: the queued death runs the game's function under
\* s_serverSourcedDeath; should it crash, every limb is set to -100.
RunDeathCommand(m) ==
    /\ commands[m] # << >>
    /\ commands' = [commands EXCEPT ![m] = Tail(@)]
    /\ body' = [body EXCEPT ![m][Head(commands[m])] = "dead"]
    /\ \/ UNCHANGED <<hurt, blows>>
       \/ Strike /\ hurt' = [hurt EXCEPT ![m][Head(commands[m])] = TRUE]
    /\ HookDeath(m, Head(commands[m]), Nobody, TRUE)
    /\ UNCHANGED <<alive, online, sent, skipped, applying, network, knocked, koCasts,
                   deathCasts>>

-----------------------------------------------------------------------------
(* The server's handlers.                                                  *)

Owns(m, f) == f # Nobody /\ OwnerOf[f] = m

\* Broadcast and BroadcastExcept: one packet per connected player.
Cast(channel, to, msg) ==
    [m \in Machines |-> IF m \in to THEN Append(channel[m], msg) ELSE channel[m]]

\* HandleCombatKO: of a living character, from its owner or the attacker's.
HandleCombatKO(m, e) ==
    IF alive[e.f] /\ (Owns(m, e.f) \/ Owns(m, e.other))
    THEN /\ unordered' = Cast(unordered, Online, e)
         /\ koCasts' = [koCasts EXCEPT ![e.f] = @ + 1]
         /\ UNCHANGED <<alive, ordered, deathCasts>>
    ELSE UNCHANGED <<alive, ordered, unordered, koCasts, deathCasts>>

\* Mutant of HandleCombatDeath: the test for a duplicate report is missing.
HandleCombatDeathAgain(m, e) ==
    IF Owns(m, e.f) \/ Owns(m, e.other)
    THEN /\ alive' = [alive EXCEPT ![e.f] = FALSE]
         /\ ordered' = Cast(ordered, Online, e)
         /\ deathCasts' = [deathCasts EXCEPT ![e.f] = @ + 1]
         /\ UNCHANGED <<unordered, koCasts>>
    ELSE UNCHANGED <<alive, ordered, unordered, koCasts, deathCasts>>

\* HandleCombatDeath: both players may report the same kill, the first one counts.
HandleCombatDeath(m, e) ==
    IF alive[e.f] /\ (Owns(m, e.f) \/ Owns(m, e.other))
    THEN /\ alive' = [alive EXCEPT ![e.f] = FALSE]
         /\ ordered' = Cast(ordered, Online, e)
         /\ deathCasts' = [deathCasts EXCEPT ![e.f] = @ + 1]
         /\ UNCHANGED <<unordered, koCasts>>
    ELSE UNCHANGED <<alive, ordered, unordered, koCasts, deathCasts>>

\* Mutant of HandleLimbHealth: anybody's snapshot is relayed.
HandleLimbHealthOfAnybody(m, e) ==
    /\ unordered' = Cast(unordered, Online \ {m}, e)
    /\ UNCHANGED <<alive, ordered, koCasts, deathCasts>>

\* HandleLimbHealth: only the owner's values are relayed, to everybody else.
HandleLimbHealth(m, e) ==
    /\ unordered' = IF Owns(m, e.f) THEN Cast(unordered, Online \ {m}, e) ELSE unordered
    /\ UNCHANGED <<alive, ordered, koCasts, deathCasts>>

ServerReceive(m) ==
    /\ uplink[m] # << >>
    /\ uplink' = [uplink EXCEPT ![m] = Tail(@)]
    /\ LET e == Head(uplink[m]) IN
       \/ e.kind = "ko" /\ HandleCombatKO(m, e)
       \/ e.kind = "death" /\ HandleCombatDeath(m, e)
       \/ e.kind = "limbs" /\ HandleLimbHealth(m, e)
    /\ UNCHANGED <<online, game, client, blows, knocked>>

\* ServerEntity::authority keeps its initial value: no code assigns another.
Authority(f) == "Server"

\* ServerAuthorityValidator: existing, alive, of a player's authority, his own.
CanClientCommandEntity(m, f) ==
    alive[f] /\ Authority(f) = "Player" /\ OwnerOf[f] = m

\* ResolveCombat: a random part loses health; the target may be out or dead.
ResolveCombat == {"hit", "ko", "death"}

\* HandleAttackIntent, sent by test clients: no character passes the validator.
HandleAttackIntent(m, f, target) ==
    /\ online[m] /\ f # target /\ blows < FightBound
    /\ blows' = blows + 1
    /\ IF CanClientCommandEntity(m, f) /\ alive[target]
       THEN \E result \in ResolveCombat :
              LET e == Event(result, target, f) IN
              /\ alive' = [alive EXCEPT ![target] = (result # "death")]
              /\ unordered' = Cast(unordered, Online, Event("hit", target, f))
              /\ ordered' = IF result = "hit" THEN ordered ELSE Cast(ordered, Online, e)
       ELSE UNCHANGED <<alive, ordered, unordered>>
    /\ UNCHANGED <<online, game, client, uplink, knocked, koCasts, deathCasts>>

-----------------------------------------------------------------------------
(* The packet handlers, on the network thread.                             *)

Idle(m) == applying[m] = Nobody

\* Mutant of QueueDeath: a client is taken to know of its own casualties.
QueueDeathOfOthers(m, f) ==
    commands' = IF OwnerOf[f] = m THEN commands ELSE [commands EXCEPT ![m] = Append(@, f)]

\* HandleCombatDeath: the death waits for the game thread, behind a raw pointer.
QueueDeath(m, f) ==
    commands' = [commands EXCEPT ![m] = Append(@, f)]

ReceiveOrdered(m) ==
    /\ ordered[m] # << >> /\ Idle(m) /\ online[m]
    /\ ordered' = [ordered EXCEPT ![m] = Tail(@)]
    /\ QueueDeath(m, Head(ordered[m]).f)
    /\ UNCHANGED <<alive, online, game, ring, dropped, skipped, applying, uplink,
                   unordered, tallies>>

\* HandleCombatKO sets the flag and calls the game's function; HandleLimbHealth
\* writes the values into the character.
ReceiveUnordered(m) ==
    /\ unordered[m] # << >> /\ Idle(m) /\ online[m]
    /\ unordered' = [unordered EXCEPT ![m] = Tail(@)]
    /\ LET e == Head(unordered[m]) IN
       \/ /\ e.kind = "ko"
          /\ applying' = [applying EXCEPT ![m] = e.f]
          /\ UNCHANGED hurt
       \/ /\ e.kind = "limbs"
          /\ hurt' = [hurt EXCEPT ![m][e.f] = e.hurt]
          /\ UNCHANGED applying
    /\ UNCHANGED <<alive, online, body, sent, ring, dropped, skipped, commands,
                   uplink, ordered, tallies>>

\* What the game makes of a knock-out: nothing of one who is already down.
KnockedOut(m, f) == [body EXCEPT ![m][f] = IF @ = "up" THEN "down" ELSE @]

\* The native function, with the hook inside it; then the flag is cleared.  Should
\* it fault, before or after it put the character down, the reported health goes
\* straight into the chest, if the pointers to it can be read.
ApplyKO(m) ==
    /\ applying[m] # Nobody
    /\ \/ body' = KnockedOut(m, applying[m]) /\ UNCHANGED <<hurt, blows>>
       \/ /\ Strike
          /\ body' \in {body, KnockedOut(m, applying[m])}
          /\ hurt' \in {hurt, [hurt EXCEPT ![m][applying[m]] = TRUE]}
    /\ HookKO(m, applying[m], Nobody, TRUE)
    /\ applying' = [applying EXCEPT ![m] = Nobody]
    /\ UNCHANGED <<alive, online, sent, skipped, commands, network, knocked, koCasts,
                   deathCasts>>

\* A client goes: what was under way to it and from it is gone with the peer.
Leave(m) ==
    /\ online[m] /\ Idle(m)
    /\ online' = [online EXCEPT ![m] = FALSE]
    /\ uplink' = [uplink EXCEPT ![m] = << >>]
    /\ ordered' = [ordered EXCEPT ![m] = << >>]
    /\ unordered' = [unordered EXCEPT ![m] = << >>]
    /\ UNCHANGED <<alive, game, client, tallies>>

-----------------------------------------------------------------------------

CsProgress(m) ==
    \/ ProcessDeferredEvents(m)
    \/ PollOwnedHealth(m)
    \/ RunDeathCommand(m)
    \/ ServerReceive(m)
    \/ ReceiveOrdered(m)
    \/ ReceiveUnordered(m)
    \/ ApplyKO(m)

CsNext ==
    \E m \in Machines :
       \/ \E f \in Fighters, other \in Fighters \cup {Nobody} : GameKO(m, f, other)
       \/ \E f \in Fighters, other \in Fighters \cup {Nobody} : GameDeath(m, f, other)
       \/ \E f \in Fighters : GameWound(m, f)
       \/ \E f, target \in Fighters : HandleAttackIntent(m, f, target)
       \/ CsProgress(m)
       \/ Leave(m)

\* Both threads of a client and the server keep running.
CsFairness ==
    \A m \in Machines :
       /\ WF_csVars(ProcessDeferredEvents(m))
       /\ WF_csVars(RunDeathCommand(m))
       /\ WF_csVars(ServerReceive(m))
       /\ WF_csVars(ReceiveOrdered(m))
       /\ WF_csVars(ReceiveUnordered(m))
       /\ WF_csVars(ApplyKO(m))

CsSpec == CsInit /\ [][CsNext]_csVars /\ CsFairness

-----------------------------------------------------------------------------

Messages ==
    [kind : {"ko", "death"}, f : Fighters, other : Fighters \cup {Nobody}]
        \cup [kind : {"limbs"}, f : Fighters, hurt : BOOLEAN]

\* The ring never holds RingSize events, so its read and write index differ
\* whenever it holds one (PushEvent, combat_hooks.cpp:75).
CsTypeOK ==
    /\ alive \in [Fighters -> BOOLEAN]
    /\ online \in [Machines -> BOOLEAN]
    /\ body \in [Machines -> [Fighters -> {"up", "down", "dead"}]]
    /\ \A m \in Machines :
         /\ ring[m] \in Seq(Messages) /\ Len(ring[m]) < RingSize[m]
         /\ \A c \in {uplink, ordered, unordered} : c[m] \in Seq(Messages)
         /\ commands[m] \in Seq(Fighters)
         /\ applying[m] \in Fighters \cup {Nobody}
         /\ skipped[m] \subseteq Fighters

\* What the server relays as a knock-out happened once in some game: the relayed
\* knock-outs go through the hooks of every client and none comes back as a new
\* report (combat_hooks.cpp:140, "Prevents infinite echo loops").
KOsGenuine == \A f \in Fighters : koCasts[f] <= knocked[f]

\* A death is broadcast once, although the victim's and the killer's client both
\* report it and every client runs the death again (server.cpp:1924).
DeathOnce == \A f \in Fighters : deathCasts[f] = (IF alive[f] THEN 0 ELSE 1)

\* A character has one reporter of its wounds: nobody sends its owner limb values,
\* although every report of a knock-out or death carries them (combat_hooks.cpp:279).
OneReporter ==
    \A m \in Machines : \A i \in DOMAIN unordered[m] :
       unordered[m][i].kind = "limbs" => OwnerOf[unordered[m][i].f] # m

\* Nothing is reported that did not happen, nothing twice, and nothing about a
\* character to the client that knows it best.
NoPhantoms == KOsGenuine /\ DeathOnce /\ OneReporter

\* A character that died on its owner's client dies on the server, unless the
\* client left, had to drop an event for want of room, or this very death came off
\* the ring behind a tick's cap (ProcessDeferredEvents, combat_hooks.cpp:222).
DeathReported ==
    \A f \in Fighters :
       LET m == OwnerOf[f] IN
       body[m][f] = "dead" ~> (~alive[f] \/ ~online[m] \/ dropped[m] \/ f \in skipped[m])

\* What is dead on the server dies on every client that stays.
DeathSpreads ==
    \A f \in Fighters, m \in Machines :
       ~alive[f] ~> (body[m][f] = "dead" \/ ~online[m])

\* A death the owner's client gets to process becomes a death everywhere: its report
\* reaches the server, and the server's word every client.
DeathSettles == DeathReported /\ DeathSpreads
=============================================================================
