---------------------------- MODULE MCGameServer ----------------------------
(* TLC instances of GameServer.                                            *)
EXTENDS GameServerLedger, TLC

Symmetry == Permutations(Peers) \cup Permutations(Names)
=============================================================================
