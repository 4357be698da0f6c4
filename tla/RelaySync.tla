----------------------------- MODULE RelaySync -----------------------------
(***************************************************************************)
(* What the server relays between clients beside combat: items, worn gear, *)
(* faction relations, positions, doors and squads.  The hooks and polls of *)
(* a client (inventory_hooks.cpp, faction_hooks.cpp, sync_orchestrator.cpp)*)
(* report what its own game does; the handlers of server.cpp check, store  *)
(* some of it and cast it; packet_handler.cpp writes it into the games of  *)
(* the others.  A client that joins gets SendWorldSnapshot.                *)
(*                                                                         *)
(* The store of the server and the games agree only through these casts:   *)
(* nothing is ever compared or sent again.  Messages for which only test   *)
(* clients have a sender enter as handler calls with arbitrary arguments.  *)
(***************************************************************************)
EXTENDS Integers, Sequences, SequencesExt, FiniteSets

CONSTANTS
    Players,
    Founders,    \* connected, with all characters linked, from the start
    Things,      \* characters known to the server
    KeeperOf,     \* ServerEntity::owner
    Topics,      \* what the behaviour is about: one of these is chosen
    Relations,   \* faction relations the game sets
    Gear,        \* item templates; 0 is the empty slot
    Slot,        \* the equipment slot looked at
    Places,      \* positions
    None,        \* no stack of the item, no value in work
    ChangeBound  \* bound: changes the games make of their own

ASSUME RelayAssumption ==
    /\ Founders \subseteq Players
    /\ KeeperOf \in [Things -> Founders] /\ IsFiniteSet(Things)
    /\ Relations \subseteq Int /\ Relations # {} /\ None \notin {"before", "after"} \cup Nat
    /\ Gear \subseteq Nat /\ 0 \in Gear
    /\ Slot \in Nat /\ ChangeBound \in Nat
    /\ Topics \subseteq {"items", "gear", "relation", "place", "notice"}

VARIABLES
    topic,
    present,    \* m_players
    storeGear,  \* ServerEntity::equipment[Slot]
    storePlace, \* ServerEntity::position
    squads,     \* m_nextSquadId - 1
    progress,   \* ServerEntity::buildProgress of a building, in halves
    linked,     \* characters that have an object in a client's game
    stack,      \* size of the item's stack on a character, per client
    worn,       \* gear in the slot, per client
    cached,     \* lastEquipment in the owner's registry
    relation,   \* the relation of two factions, per client
    setting,   \* HandleFactionRelation's call: before or after the game's function
    seenPlace,  \* last position received, per client
    toServer, reliable, relayed,
    changes,
    astray,     \* <<client, character>>: the copy linked late, missed a packet, traded,
                \* or changed where the casts do not reach
    muted,      \* a change of a relation was not reported
    heard       \* the last position in range that the owner sent to the server

store   == <<present, storeGear, storePlace, squads, progress>>
games   == <<linked, stack, worn, cached, relation, setting, seenPlace>>
wires   == <<toServer, reliable, relayed>>
ghosts  == <<astray, muted, heard>>
rsVars  == <<topic, store, games, wires, changes, ghosts>>

RsInit ==
    /\ topic \in Topics
    /\ present = Founders
    /\ storeGear = [t \in Things |-> 0]
    /\ storePlace \in [Things -> {CHOOSE p \in Places : TRUE}]
    /\ squads = 0 /\ progress = 0
    /\ linked = [m \in Players |-> IF m \in Founders THEN Things ELSE {}]
    /\ \E content \in {None, 1} : stack = [m \in Players |-> [t \in Things |-> content]]
    /\ worn = [m \in Players |-> [t \in Things |-> 0]]
    /\ cached = [t \in Things |-> 0]
    /\ relation \in [Players -> {CHOOSE r \in Relations : TRUE}]
    /\ setting = [m \in Players |-> <<None, None>>]
    /\ seenPlace = [m \in Players |-> storePlace]
    /\ toServer = [m \in Players |-> << >>]
    /\ reliable = [m \in Players |-> << >>]
    /\ relayed = [m \in Players |-> << >>]
    /\ changes = 0
    /\ astray = {} /\ muted = FALSE /\ heard = [t \in Things |-> None]

-----------------------------------------------------------------------------
(* A client's own game, and what its hooks and polls report.               *)

Msg(kind, t, arg) == [kind |-> kind, t |-> t, arg |-> arg]

Send(m, msg) == toServer' = [toServer EXCEPT ![m] = Append(@, msg)]

Change(m, about) ==
    /\ topic = about /\ m \in present /\ changes < ChangeBound
    /\ changes' = changes + 1
    /\ UNCHANGED <<topic, store>>

Mine(m) == {t \in Things : KeeperOf[t] = m}

\* What m's game does to its copy of another's character goes no further: the hooks
\* report any character the registry knows, the server passes on the owner's reports.
Stays(m, t) == IF KeeperOf[t] = m THEN {} ELSE {<<m, t>>}

\* The game's function, then the report.  A failed trampoline returns before it.
Hook_ItemPickup(m, t) ==
    /\ Change(m, "items") /\ t \in linked[m]
    /\ stack' = [stack EXCEPT ![m][t] = IF @ = None THEN 1 ELSE @ + 1]
    /\ Send(m, Msg("pickup", t, 1))
    /\ astray' = astray \cup Stays(m, t)
    /\ UNCHANGED <<linked, worn, cached, relation, setting, seenPlace, reliable, relayed,
                   muted, heard>>

\* The game may drop the whole stack: the report has no quantity and stands for one.
Hook_ItemDrop(m, t) ==
    /\ Change(m, "items") /\ t \in linked[m] /\ stack[m][t] \notin {None, 0}
    /\ \E n \in {1, stack[m][t]} :
         /\ stack' = [stack EXCEPT ![m][t] = @ - n]
         /\ astray' = astray \cup IF n = 1 THEN Stays(m, t) ELSE Players \X {t}
    /\ Send(m, Msg("drop", t, 1))
    /\ UNCHANGED <<linked, worn, cached, relation, setting, seenPlace, reliable, relayed,
                   muted, heard>>

\* Bought goods are reported as a trade, whose result is only shown to the players.
Hook_BuyItem(m, t, seller) ==
    /\ Change(m, "items") /\ t \in linked[m]
    /\ stack' = [stack EXCEPT ![m][t] = IF @ = None THEN 1 ELSE @ + 1]
    /\ Send(m, Msg("buy", t, seller))
    /\ astray' = astray \cup IF KeeperOf[t] = m THEN (Players \ {m}) \X {t} ELSE Stays(m, t)
    /\ UNCHANGED <<linked, worn, cached, relation, setting, seenPlace, reliable, relayed,
                   muted, heard>>

\* Hook_FactionRelation: not reported while s_serverSourced is set, whoever set it.
Hook_FactionRelation(m, r) ==
    /\ Change(m, "relation")
    /\ relation' = [relation EXCEPT ![m] = r]
    /\ IF setting[m][1] = None
       THEN Send(m, Msg("relation", None, r)) /\ UNCHANGED muted
       ELSE UNCHANGED toServer /\ muted' = TRUE
    /\ UNCHANGED <<linked, stack, worn, cached, setting, seenPlace, reliable, relayed,
                   astray, heard>>

\* A test client gives an item of its character to any other.
GiveItem(m, from, to) ==
    /\ Change(m, "items") /\ from \in Mine(m) /\ to # from
    /\ stack[m][from] \notin {None, 0}
    /\ stack' = [stack EXCEPT ![m][from] = @ - 1, ![m][to] = IF @ = None THEN 1 ELSE @ + 1]
    /\ Send(m, Msg("transfer", from, to))
    /\ UNCHANGED <<linked, worn, cached, relation, setting, seenPlace, reliable, relayed,
                   ghosts>>

GameEquips(m, t, g) ==
    /\ Change(m, "gear") /\ t \in Mine(m) /\ worn[m][t] # g
    /\ worn' = [worn EXCEPT ![m][t] = g]
    /\ UNCHANGED <<linked, stack, cached, relation, setting, seenPlace, wires, ghosts>>

\* StagePollAndSendEquipment: every two seconds, against the registry's last value.
StagePollAndSendEquipment(m, t) ==
    /\ m \in present /\ t \in Mine(m) \cap linked[m]
    /\ worn[m][t] # cached[t]
    /\ cached' = [cached EXCEPT ![t] = worn[m][t]]
    /\ Send(m, Msg("gear", t, worn[m][t]))
    /\ UNCHANGED <<topic, store, linked, stack, worn, relation, setting, seenPlace,
                   reliable, relayed, changes, ghosts>>

-----------------------------------------------------------------------------
(* The server.                                                             *)

Broadcast(channel, msg) ==
    [m \in Players |-> IF m \in present THEN Append(channel[m], msg) ELSE channel[m]]

\* Mutant of BroadcastExcept: the sender is told of its own change.
BroadcastToAll(channel, sender, msg) == Broadcast(channel, msg)

BroadcastExcept(channel, sender, msg) ==
    [m \in Players |-> IF m \in present \ {sender} THEN Append(channel[m], msg)
                                                   ELSE channel[m]]

SendTo(channel, m, msg) == [channel EXCEPT ![m] = Append(@, msg)]

Owned(m, t) == t \in Things /\ KeeperOf[t] = m

HandleItemPickup(m, t, n) ==
    /\ relayed' = IF Owned(m, t) THEN BroadcastExcept(relayed, m, Msg("bag", t, n))
                                   ELSE relayed
    /\ UNCHANGED <<reliable, store>>

HandleItemDrop(m, t) ==
    /\ relayed' = IF Owned(m, t) THEN BroadcastExcept(relayed, m, Msg("bag", t, -1))
                                   ELSE relayed
    /\ UNCHANGED <<reliable, store>>

\* HandleTradeRequest: a denial to the buyer alone, a success to all.
HandleTradeRequest(m, t, seller, valid) ==
    /\ reliable' =
         CASE ~Owned(m, t) -> reliable
           [] Owned(m, t) /\ (~valid \/ seller \notin Things \cup {None}) ->
                SendTo(reliable, m, Msg("denied", t, None))
           [] OTHER -> Broadcast(reliable, Msg("traded", t, None))
    /\ UNCHANGED <<relayed, store>>

\* HandleItemTransfer: a removal and an addition, to everybody else.
HandleItemTransfer(m, from, to) ==
    /\ relayed' = IF Owned(m, from) /\ to \in Things
                    THEN BroadcastExcept(BroadcastExcept(relayed, m, Msg("bag", from, -1)),
                                         m, Msg("bag", to, 1))
                    ELSE relayed
    /\ UNCHANGED <<reliable, store>>

\* Mutant of SlotCount: the last slot is taken for out of range.
SlotCountShort == 13

\* EquipSlot::Count, the bound of the handlers at both ends.
SlotCount == 14

HandleEquipmentUpdate(m, t, g) ==
    IF Owned(m, t) /\ Slot < SlotCount
    THEN /\ storeGear' = [storeGear EXCEPT ![t] = g]
         /\ relayed' = BroadcastExcept(relayed, m, Msg("gear", t, g))
         /\ UNCHANGED <<reliable, present, storePlace, squads, progress>>
    ELSE UNCHANGED <<relayed, reliable, store>>

\* Mutant of RelationAudience: as for the other changes, the sender is left out.
RelationAudienceOthers(m, msg) == BroadcastExcept(reliable, m, msg)

\* "Broadcast to ALL players (including sender) to ensure consistency".
RelationAudience(m, msg) == Broadcast(reliable, msg)

HandleFactionRelation(m, causer, r) ==
    /\ reliable' = IF r \in -100 .. 100 /\ (causer = None \/ Owned(m, causer))
                  THEN RelationAudience(m, Msg("relation", None, r)) ELSE reliable
    /\ UNCHANGED <<relayed, store>>

\* HandlePacket for what the clients' hooks send.
Dispatch(m, msg) ==
    \/ msg.kind = "pickup"   /\ HandleItemPickup(m, msg.t, msg.arg)
    \/ msg.kind = "drop"     /\ HandleItemDrop(m, msg.t)
    \/ msg.kind = "transfer" /\ HandleItemTransfer(m, msg.t, msg.arg)
    \/ msg.kind = "buy"      /\ HandleTradeRequest(m, msg.t, msg.arg, TRUE)
    \/ msg.kind = "gear"     /\ HandleEquipmentUpdate(m, msg.t, msg.arg)
    \/ msg.kind = "relation" /\ HandleFactionRelation(m, None, msg.arg)

ServerUpdate(m) ==
    /\ m \in present /\ toServer[m] # << >>
    /\ toServer' = [toServer EXCEPT ![m] = Tail(@)]
    /\ Dispatch(m, Head(toServer[m]))
    /\ UNCHANGED <<topic, games, changes, ghosts>>

\* ServerEntity::authority keeps its initial value: no code assigns another.
AuthorityOf(t) == "Server"

ValidatePositionUpdate(m, t) == AuthorityOf(t) = "Player" /\ KeeperOf[t] = m

\* HandlePositionUpdate, on the unreliable channel: a lost packet is no step.
HandlePositionUpdate(m, t, p) ==
    /\ Change(m, "place")
    /\ heard' = IF Owned(m, t) THEN [heard EXCEPT ![t] = p] ELSE heard
    /\ storePlace' = IF ValidatePositionUpdate(m, t) THEN [storePlace EXCEPT ![t] = p]
                                                     ELSE storePlace
    /\ UNCHANGED <<games, wires, astray, muted>>

\* BroadcastPositions: all entities to everybody but their owners.
BroadcastPositions(m) ==
    /\ topic = "place" /\ m \in present
    /\ seenPlace' = [seenPlace EXCEPT ![m] =
                       [t \in Things |-> IF KeeperOf[t] = m THEN @[t] ELSE storePlace[t]]]
    /\ UNCHANGED <<topic, store, linked, stack, worn, cached, relation, setting, wires,
                   changes, ghosts>>

\* Requests only test clients send.

\* Squads get increasing ids; doors, stances, status effects and squad members are
\* passed on without being kept.
HandleSquadCreate(m, t) ==
    /\ squads' = IF Owned(m, t) THEN squads + 1 ELSE squads
    /\ reliable' = IF Owned(m, t) THEN Broadcast(reliable, Msg("squad", t, squads + 1))
                                 ELSE reliable
    /\ UNCHANGED <<relayed, present, storeGear, storePlace, progress>>

HandleSquadAddMember(m, t) ==
    /\ reliable' = IF Owned(m, t) THEN BroadcastExcept(reliable, m, Msg("member", t, None))
                                 ELSE reliable
    /\ UNCHANGED <<relayed, store>>

HandleDoorInteract(m, t, action) ==
    /\ reliable' = IF Owned(m, t) /\ action <= 3
                  THEN Broadcast(reliable, Msg("door", t, action)) ELSE reliable
    /\ UNCHANGED <<relayed, store>>

HandleCombatStance(m, t, stance) ==
    /\ relayed' = IF Owned(m, t) /\ stance <= 3
                    THEN BroadcastExcept(relayed, m, Msg("stance", t, stance))
                    ELSE relayed
    /\ UNCHANGED <<reliable, store>>

HandleStatusEffect(m, t, effect) ==
    /\ relayed' = IF Owned(m, t) /\ effect <= 3
                    THEN BroadcastExcept(relayed, m, Msg("status", t, effect))
                    ELSE relayed
    /\ UNCHANGED <<reliable, store>>

\* Mutant of Repaired: the clamp is missing.
RepairedOver(n) == n + 1

\* std::clamp at completion.
Repaired(n) == IF n < 2 THEN n + 1 ELSE 2

\* HandleBuildRepair by the building's owner or by the host, who may be anybody.
HandleBuildRepair(m, t) ==
    /\ progress' = Repaired(progress)
    /\ relayed' = BroadcastExcept(relayed, m, Msg("progress", t, progress'))
    /\ UNCHANGED <<reliable, present, storeGear, storePlace, squads>>

Notice(m, t) ==
    /\ topic = "notice" /\ m \in present /\ changes < ChangeBound
    /\ changes' = changes + 1
    /\ \/ HandleSquadCreate(m, t)
       \/ HandleSquadAddMember(m, t)
       \/ \E action \in {3, 4} : HandleDoorInteract(m, t, action)
       \/ \E stance \in {3, 4} : HandleCombatStance(m, t, stance)
       \/ \E effect \in {3, 4} : HandleStatusEffect(m, t, effect)
       \/ HandleBuildRepair(m, t)
    /\ UNCHANGED <<topic, games, toServer, ghosts>>

\* Join: the spawns on the ordered channel, worn gear on the other one.  Gear is the
\* only topic of which a snapshot says anything.
SendWorldSnapshot(m) ==
    LET things  == SetToSeq(Things)
        dressed == SetToSeq({t \in Things : storeGear[t] # 0})
    IN
    /\ m \notin present /\ topic = "gear"
    /\ present' = present \cup {m}
    /\ reliable' = [reliable EXCEPT ![m] =
         @ \o [i \in DOMAIN things |-> Msg("spawn", things[i], None)]]
    /\ relayed' = [relayed EXCEPT ![m] =
         @ \o [i \in DOMAIN dressed |-> Msg("gear", dressed[i], storeGear[dressed[i]])]]
    /\ UNCHANGED <<topic, storeGear, storePlace, squads, progress, games, toServer, changes,
                   ghosts>>

-----------------------------------------------------------------------------
(* The packet handlers of a client.                                        *)

\* AddItem enlarges a stack that is there, RemoveItem stops at zero.
AddItem(n, k) == n + k
RemoveItem(n, k) == IF n - k < 0 THEN 0 ELSE n - k

HandleInventoryUpdate(m, msg) ==
    IF msg.t \in linked[m] /\ stack[m][msg.t] # None
    THEN /\ stack' = [stack EXCEPT ![m][msg.t] = IF msg.arg > 0 THEN AddItem(@, msg.arg)
                                                 ELSE RemoveItem(@, -msg.arg)]
         /\ UNCHANGED <<worn, astray>>
    ELSE astray' = astray \cup {<<m, msg.t>>} /\ UNCHANGED <<stack, worn>>

\* SetEquipment looks for the item among the character's own; an empty slot has none.
HandleEquipment(m, msg) ==
    IF msg.t \in linked[m] /\ Slot < SlotCount /\ msg.arg # 0
    THEN /\ worn' \in {worn, [worn EXCEPT ![m][msg.t] = msg.arg]}
         /\ UNCHANGED <<stack, astray>>
    ELSE astray' = astray \cup {<<m, msg.t>>} /\ UNCHANGED <<stack, worn>>

TakeRelayed(m) ==
    /\ relayed[m] # << >>
    /\ relayed' = [relayed EXCEPT ![m] = Tail(@)]
    /\ LET msg == Head(relayed[m]) IN
       \/ msg.kind = "bag" /\ HandleInventoryUpdate(m, msg)
       \/ msg.kind = "gear" /\ HandleEquipment(m, msg)
       \/ /\ msg.kind \in {"stance", "status", "progress"}
          /\ UNCHANGED <<stack, worn, astray>>
    /\ UNCHANGED <<topic, store, linked, cached, relation, setting, seenPlace, toServer,
                   reliable, changes, muted, heard>>

Busy(m) == setting[m][1] # None

\* A spawn is served some time later (RemoteSpawns): the copy comes from the
\* template.  A relation is applied under the flag, in three steps.
TakeReliable(m) ==
    /\ reliable[m] # << >> /\ ~Busy(m)
    /\ reliable' = [reliable EXCEPT ![m] = Tail(@)]
    /\ LET msg == Head(reliable[m]) IN
       \/ /\ msg.kind = "spawn"
          /\ linked' \in {linked, [linked EXCEPT ![m] = @ \cup {msg.t}]}
          /\ astray' = astray \cup {<<m, msg.t>>}
          /\ UNCHANGED setting
       \/ /\ msg.kind = "relation"
          /\ setting' = [setting EXCEPT ![m] = <<"before", msg.arg>>]
          /\ UNCHANGED <<linked, astray>>
       \/ /\ msg.kind \in {"traded", "denied", "squad", "member", "door"}
          /\ UNCHANGED <<linked, setting, astray>>
    /\ UNCHANGED <<topic, store, stack, worn, cached, relation, seenPlace, toServer,
                   relayed, changes, muted, heard>>

\* HandleFactionRelation: the game's function by its trampoline, then the flag.
ApplyRelation(m) ==
    /\ setting[m][1] = "before"
    /\ relation' = [relation EXCEPT ![m] = setting[m][2]]
    /\ setting' = [setting EXCEPT ![m] = <<"after", @[2]>>]
    /\ UNCHANGED <<topic, store, linked, stack, worn, cached, seenPlace, wires, changes,
                   ghosts>>

ClearServerSourced(m) ==
    /\ setting[m][1] = "after"
    /\ setting' = [setting EXCEPT ![m] = <<None, None>>]
    /\ UNCHANGED <<topic, store, linked, stack, worn, cached, relation, seenPlace, wires,
                   changes, ghosts>>

-----------------------------------------------------------------------------

RsNext ==
    \E m \in Players :
       \/ \E t \in Things :
            \/ Hook_ItemPickup(m, t) \/ Hook_ItemDrop(m, t)
            \/ \E seller \in Things \cup {None} : Hook_BuyItem(m, t, seller)
            \/ \E g \in Gear : GameEquips(m, t, g)
            \/ StagePollAndSendEquipment(m, t)
            \/ \E p \in Places : HandlePositionUpdate(m, t, p)
            \/ \E to \in Things : GiveItem(m, t, to)
            \/ Notice(m, t)
       \/ \E r \in Relations : Hook_FactionRelation(m, r)
       \/ ServerUpdate(m)
       \/ BroadcastPositions(m)
       \/ SendWorldSnapshot(m)
       \/ TakeRelayed(m) \/ TakeReliable(m)
       \/ ApplyRelation(m) \/ ClearServerSourced(m)

\* The poll of a client and the update loop of the server keep running.
RsFairness ==
    \A m \in Players :
       /\ WF_rsVars(\E t \in Things : StagePollAndSendEquipment(m, t))
       /\ WF_rsVars(ServerUpdate(m))

RsSpec == RsInit /\ [][RsNext]_rsVars /\ RsFairness

-----------------------------------------------------------------------------

\* Types, and stacks that never go below zero.
RsTypeOK ==
    /\ present \in SUBSET Players
    /\ storeGear \in [Things -> Gear] /\ cached \in [Things -> Gear]
    /\ worn \in [Players -> [Things -> Gear]]
    /\ stack \in [Players -> [Things -> Nat \cup {None}]]
    /\ relation \in [Players -> Relations]
    /\ progress \in 0 .. 2 /\ squads \in Nat
    /\ linked \in [Players -> SUBSET Things]

Quiet == \A m \in Players :
    toServer[m] = << >> /\ reliable[m] = << >> /\ relayed[m] = << >> /\ ~Busy(m)

\* Once everything has arrived, every copy that missed nothing and was changed by no
\* game of its own holds as many items as the owner's character: pickups, drops and
\* transfers of several clients reach everybody once and nobody twice, and a report
\* about another's character reaches nobody (server.cpp:1561, :1597, :2012).
StacksAgree ==
    Quiet => \A t \in Things, m \in present :
                {<<m, t>>, <<KeeperOf[t], t>>} \cap astray = {}
                   => stack[m][t] = stack[KeeperOf[t]][t]

\* Once everything has arrived, the clients that were there all the time have the
\* same relation, whoever changed it last, unless a change went unreported
\* (server.cpp:1766, "Broadcast to ALL players (including sender) to ensure consistency").
RelationsAgree ==
    Quiet /\ ~muted => \A m, n \in Founders : relation[m] = relation[n]

\* The server ends up with the gear its owner's game shows: what a client that joins
\* is told (sync_orchestrator.cpp:591, server.cpp:1249).  The report that a lost one is
\* made up by is a stage of SyncOrchestrator, which runs only where the sync orchestrator
\* is switched on; by default it is not (config.h:18).
GearSettles ==
    \A t \in Things : <>[](storeGear[t] = worn[KeeperOf[t]][t])

\* A position the owner sent, in range, is the position the server passes on.
PositionsTaken ==
    \A t \in Things : heard[t] # None => storePlace[t] = heard[t]
=============================================================================
