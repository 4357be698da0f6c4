--------------------------- MODULE GameServerLedger ---------------------------
(***************************************************************************)
(* GameServer implements OwnershipLedger: disconnecting, timing out and     *)
(* reconnecting, with new player ids each time, never change whose an       *)
(* entity is, and a save followed by a crash and a load gives every entity   *)
(* back to the name it was saved under.                                     *)
(***************************************************************************)
EXTENDS GameServer

\* Whose an entity is: its owner's name, or the name it is filed under.
Claimant(e) ==
    IF entities[e].owner \in DOMAIN players
    THEN players[entities[e].owner].name
    ELSE CHOOSE n \in DOMAIN saved : e \in saved[n]

diskLedger ==
    [e \in DOMAIN disk.entities |->
        CHOOSE n \in DOMAIN disk.players : e \in disk.players[n]]

liveLedger == IF running THEN [e \in DOMAIN entities |-> Claimant(e)]
                         ELSE diskLedger

Ledger == INSTANCE OwnershipLedger
            WITH ledger <- liveLedger, snapshot <- diskLedger, Ids <- EntityId

\* The server's steps, seen through Claimant, are ledger steps or invisible.
ImplementsLedger == Ledger!LedgerSpec
=============================================================================
