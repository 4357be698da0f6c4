---------------------------- MODULE OwnershipLedger ----------------------------
(***************************************************************************)
(* What the server promises about who an entity belongs to, without         *)
(* sessions, ids or files: a ledger from entities to player names, and the   *)
(* last persisted copy of it.  An entry is created once, keeps its name for  *)
(* as long as it exists, and only a restart rolls the ledger back.           *)
(***************************************************************************)
EXTENDS Naturals, Functions

CONSTANTS Ids, Names

VARIABLES ledger, snapshot

ledgerVars == <<ledger, snapshot>>

LedgerInit == /\ ledger = [e \in {} |-> e]
              /\ snapshot = [e \in {} |-> e]

Create(e, n) ==
    /\ e \notin DOMAIN ledger
    /\ ledger' = [x \in DOMAIN ledger \cup {e} |-> IF x = e THEN n ELSE ledger[x]]
    /\ UNCHANGED snapshot

\* An entity goes; a load may miss several at once.
Remove(E) ==
    /\ ledger' = Restrict(ledger, DOMAIN ledger \ E)
    /\ UNCHANGED snapshot

Persist == /\ snapshot' = ledger
           /\ UNCHANGED ledger

RollBack == /\ ledger' = snapshot
            /\ UNCHANGED snapshot

LedgerNext ==
    \/ \E e \in Ids, n \in Names : Create(e, n)
    \/ \E E \in SUBSET DOMAIN ledger : Remove(E)
    \/ Persist
    \/ RollBack

LedgerSpec == LedgerInit /\ [][LedgerNext]_ledgerVars
=============================================================================
