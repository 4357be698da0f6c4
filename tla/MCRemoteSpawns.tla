--------------------------- MODULE MCRemoteSpawns ---------------------------
(***************************************************************************)
(* What a client does about remote players, for TLC.  Spawns: two entities *)
(* of one remote player, whose mod character is one object, and characters *)
(* the game can create.  Templates: two players, and what memory may hold. *)
(* Engines: three ids, three zones, an entity near two of them, one at home *)
(* and an own one.  Pump and motion: the orchestrator's stages, the spawn  *)
(* queue with two entities or the own character's steps.  Teleport: the    *)
(* own character and the positions he may be put to.                       *)
(*                                                                         *)
(* The parts share no variable: a behaviour is about one of them, its      *)
(* focus, and the others stay in one of their initial states.              *)
(***************************************************************************)
EXTENDS RemoteSpawns, SpawnTemplates, SyncEngines, OrchestratorStages, HostTeleport, TLC

CONSTANTS Parts, p1, m1, f1, c1, c2, odd, main, stray

VARIABLE focus

MCOwnerOf == [id \in ServerIds |-> p1]
MCModCharOf == [p \in Players |-> m1]

\* Characters the game creates are alike.
CharacterSymmetry == Permutations(Objects \ {m1})

\* Player 1 has a faction and a character of his name, player 2 a character whose
\* id cannot be read; something else in memory passes for GameData.
MCEntries == <<f1, c1, odd, c2>>
MCHeaps == {{f1, c1, c2, odd}}
MCEntryName == f1 :> "Player 1" @@ c1 :> "Player 1" @@ c2 :> "Player 2" @@ odd :> "odd"
MCEntryManager == [d \in {f1, c1, c2} |-> main] @@ (odd :> stray)
MCEntryId == f1 :> 1 @@ c1 :> 2 @@ c2 :> 0 @@ odd :> 0
MCIsCharacter(d) == d \in {c1, c2}
MCSlotName == <<"Player 1", "Player 2">>
MCDisplayName == <<"Ann", "Ann">>
MCPointers == {<<c2>>, <<odd, c1>>}

MCGrid == {<<0, 0>>, <<1, 0>>, <<3, 1>>}
MCPlaced == [shared |-> <<2, 1>>, home |-> <<0, 0>>, mine |-> <<1, 0>>]
MCMine == {"mine"}

\* The offset and GameWorld hold nothing, the manager, or (the offset) something else.
MCInit ==
    /\ focus \in Parts /\ SpawnInit /\ StInit /\ SeInit /\ OsInit /\ HtInit
    /\ focus # "engines" => place = <<0, 0>>
    /\ IF focus = "templates"
       THEN image.hard # main /\ image.world # stray /\ Nothing \in {image.hard, image.world}
       ELSE image = [hard |-> Nothing, world |-> Nothing, heap |-> {f1, c1, c2, odd}]

MCNext ==
    /\ UNCHANGED focus
    /\ \/ focus = "spawns"    /\ Next   /\ UNCHANGED <<stVars, seVars, osVars, htVars>>
       \/ focus = "templates" /\ StNext /\ UNCHANGED <<vars, seVars, osVars, htVars>>
       \/ focus = "engines"   /\ SeNext /\ UNCHANGED <<vars, stVars, osVars, htVars>>
       \/ focus = "pump"      /\ OsNext /\ UNCHANGED <<vars, stVars, seVars, motion, htVars>>
       \/ focus = "motion"    /\ OsNext /\ UNCHANGED <<vars, stVars, seVars, asks, packet, pump, precall, spawns, htVars>>
       \/ focus = "teleport"  /\ HtNext /\ UNCHANGED <<vars, stVars, seVars>>

MCSpec == MCInit /\ [][MCNext]_<<focus, vars, stVars, seVars, osVars, htVars>>

\* For behaviours about spawns.
MCFairSpec == MCSpec /\ SpawnFairness

\* The types of all parts, requests that are not used up, the right templates, and the
\* orchestrator's engines and stages in agreement with the server.
BodiesRight ==
    /\ SpawnTypeOK /\ StTypeOK /\ SeTypeOK /\ OsTypeOK /\ HtTypeOK
    /\ TemplatesRight /\ EnginesSound /\ StagesSound /\ TeleportSound
=============================================================================
