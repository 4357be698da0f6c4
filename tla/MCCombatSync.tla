---------------------------- MODULE MCCombatSync ----------------------------
(* Two clients with a character each, for TLC: the first one's ring is full *)
(* with one event, the second's holds one more than a tick processes.       *)
EXTENDS CombatSync, TLC

CONSTANTS m1, m2, f1, f2

MCOwnerOf == (f1 :> m1) @@ (f2 :> m2)
MCRingSize == (m1 :> 2) @@ (m2 :> 3)
=============================================================================
