---------------------------- MODULE MCWorldSync ----------------------------
(***************************************************************************)
(* How a session forms, what it relays and what a client makes of it, for  *)
(* TLC: two clients that join, claim and link; two founders and a          *)
(* late-comer that trade, dress and ally; the way another's character      *)
(* moves.                                                                  *)
(*                                                                         *)
(* The parts share no variable, so their interleavings add nothing: a      *)
(* behaviour is about one of them, its focus, and the others stay in one   *)
(* of their initial states.                                                *)
(***************************************************************************)
EXTENDS RelaySync, JoinBarrier, RemoteMotion, TLC

CONSTANTS Parts,            \* the foci to check
          ann, bob, cyd, hat, axe

VARIABLE focus

MCKeeperOf == (hat :> ann) @@ (axe :> bob)
MCRelations == {-100, 100}

vars == <<focus, rsVars, jbVars, rmVars>>

Init ==
    /\ focus \in Parts /\ RsInit /\ JbInit /\ RmInit
    /\ focus # "relay" => topic = "notice" /\ \A p \in Players, t \in Things : stack[p][t] = None

Next ==
    /\ UNCHANGED focus
    /\ \/ focus = "relay"  /\ RsNext /\ UNCHANGED <<jbVars, rmVars>>
       \/ focus = "join"   /\ JbNext /\ UNCHANGED <<rsVars, rmVars>>
       \/ focus = "motion" /\ RmNext /\ UNCHANGED <<rsVars, jbVars>>

\* RsFairness and RmFairness, each for the behaviours about its part.
Fairness ==
    /\ \A p \in Players :
         /\ WF_rsVars(focus = "relay" /\ \E t \in Things : StagePollAndSendEquipment(p, t))
         /\ WF_rsVars(focus = "relay" /\ ServerUpdate(p))
    /\ WF_rmVars(focus = "motion" /\ GoesOn)

Spec == Init /\ [][Next]_vars /\ Fairness

\* The types of all parts.
WorldTypeOK == RsTypeOK /\ JbTypeOK /\ RmTypeOK

\* Stacks and relations are the same for everybody once the mail is in.
CopiesAgree == StacksAgree /\ RelationsAgree

\* What must happen: gear reaches its wearers, and a body comes to rest where it is.
WorldSettles == GearSettles /\ (focus = "motion" => MotionSettles)
=============================================================================
