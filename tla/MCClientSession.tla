--------------------------- MODULE MCClientSession ---------------------------
(***************************************************************************)
(* The client for TLC: its session with the default settings and a short   *)
(* retry count, and the characters its game creates and announces.         *)
(*                                                                         *)
(* The parts share no variable, so their interleavings add nothing: a      *)
(* behaviour is about one of them, its focus, and the other stays as it    *)
(* began.                                                                  *)
(***************************************************************************)
EXTENDS ClientSession, CharacterCreation

CONSTANT Parts   \* the foci to check

VARIABLE focus

mcVars == <<focus, vars, ccVars>>

MCInit == focus \in Parts /\ Init /\ CcInit

MCNext ==
    /\ UNCHANGED focus
    /\ \/ focus = "session"  /\ Next   /\ UNCHANGED ccVars
       \/ focus = "creation" /\ CcNext /\ UNCHANGED vars

\* FairSpec's fairness and CcFairness, each for the behaviours about its part.
MCFairness ==
    /\ SF_vars(focus = "session" /\ Present)
    /\ WF_vars(focus = "session" /\ Frame)
    /\ WF_vars(focus = "session" /\ Handler)
    /\ SF_vars(focus = "session" /\ PollFound)
    /\ SF_vars(focus = "session" /\ RetryFires)
    /\ WF_vars(focus = "session" /\ wire = "opening" /\ (NetConnect \/ NetDisconnect))
    /\ WF_ccVars(focus = "creation" /\ InWork)

MCSpec == MCInit /\ [][MCNext]_mcVars /\ MCFairness

\* What must happen: an attempt to connect comes to an end, and so does the
\* search for the squad of a client that is connected.
SessionSettles == AttemptSettles /\ ScanEnds
=============================================================================
