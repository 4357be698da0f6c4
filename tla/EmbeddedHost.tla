---------------------------- MODULE EmbeddedHost ----------------------------
(***************************************************************************)
(* Hosting inside the game process (net/embedded_server.cpp): the game     *)
(* thread asks for a server and stops it, the server thread maps the port  *)
(* (upnp.cpp), binds it, loads the world, ticks, and on request saves the  *)
(* world and gives the port back (GameServer::Start and Stop).  The two    *)
(* share m_state and m_stopRequested.  A save may fail: the server logs it *)
(* and goes on.                                                            *)
(***************************************************************************)
EXTENDS Naturals

CONSTANTS HostBound    \* how many times hosting is asked for

ASSUME HostAssumption == HostBound \in Nat

VARIABLES hostState,   \* m_state
          stopAsked,   \* m_stopRequested
          worker,      \* where the server thread is; "none" without a thread object
          ui,          \* the game thread: free, or waiting in a join
          mapped,      \* the router forwards the port
          ours,        \* our socket is bound to the port
          taken,       \* another process has the port
          inMemory,    \* the world is in memory
          unsaved,     \* it has changes that are not on the disk, or had when it ended
          saveFailed,  \* the last save of this run returned false
          hosted       \* requests for hosting so far

ehVars == <<hostState, stopAsked, worker, ui, mapped, ours, taken, inMemory, unsaved, saveFailed,
           hosted>>

threads == <<hostState, stopAsked, worker, ui, hosted>>
content == <<inMemory, unsaved, saveFailed>>
machine == <<mapped, ours, taken, content>>

EhInit ==
    /\ hostState = "Stopped" /\ stopAsked = FALSE /\ worker = "none" /\ ui = "free"
    /\ mapped = FALSE /\ ours = FALSE /\ taken \in BOOLEAN
    /\ inMemory = FALSE /\ unsaved = FALSE /\ saveFailed = FALSE /\ hosted = 0

IsActive == hostState \in {"Starting", "Running"}

(***************************************************************************)
(* The game thread.                                                        *)
(***************************************************************************)

(* State Starting is taken, from Stopped or Failed, before the thread of   *)
(* an earlier run is reaped.                                               *)
StartAsync ==
    /\ hostState \in {"Stopped", "Failed"} /\ hosted < HostBound
    /\ hosted' = hosted + 1
    /\ hostState' = "Starting"
    /\ ui' = "reaping"
    /\ UNCHANGED <<stopAsked, worker, machine>>

\* The menu's HOST GAME button and the command /host: both refuse an active server.
OnHostClicked == ui = "free" /\ ~IsActive /\ StartAsync

HostCommand == ui = "free" /\ ~IsActive /\ StartAsync

(* Mutant of ClearedStop: the request that stopped the earlier run stays. *)
ClearedStopNot == stopAsked

\* StartAsync forgets an earlier request to stop.
ClearedStop == FALSE

Launch ==
    /\ ui = "reaping" /\ worker \in {"none", "exited"}
    /\ stopAsked' = ClearedStop
    /\ worker' = "mapping" /\ ui' = "free"
    /\ UNCHANGED <<hostState, machine, hosted>>

\* /stophost stops an active server, Core::Shutdown any; both then join the thread.
Stop(wait) ==
    /\ ui = "free"
    /\ wait = "stopping" => IsActive
    /\ stopAsked' = TRUE /\ ui' = wait
    /\ UNCHANGED <<hostState, worker, machine, hosted>>

JoinReturns ==
    /\ ui \in {"stopping", "leaving"} /\ worker \in {"none", "exited"}
    /\ worker' = "none"
    /\ hostState' = IF IsActive THEN "Stopped" ELSE hostState
    /\ ui' = IF ui = "leaving" THEN "gone" ELSE "free"
    /\ UNCHANGED <<stopAsked, machine, hosted>>

(***************************************************************************)
(* The server thread: RunLoop.                                             *)
(***************************************************************************)

(* Start: the port is mapped before the socket listens.  The router may    *)
(* refuse; a firewall rule is then tried instead.                          *)
AddMapping ==
    /\ worker = "mapping" /\ worker' = "binding"
    /\ mapped' \in {mapped, TRUE}
    /\ UNCHANGED <<hostState, stopAsked, ui, ours, taken, content, hosted>>

(* Mutant of AfterBind: a failed start goes on to the loop's end. *)
AfterBindAnyway(ok) == IF ok THEN "loading" ELSE "saving"

\* Where RunLoop goes after Start: a failed start saves nothing.
AfterBind(ok) == IF ok THEN "loading" ELSE "exited"

(* Mutant of BoundState: a failed start is not published. *)
BoundStateKept(ok) == hostState

BoundState(ok) == IF ok THEN hostState ELSE "Failed"

\* enet_host_create fails when another process has the port.  The mapping stays.
Bind ==
    /\ worker = "binding" /\ worker' = AfterBind(~taken)
    /\ ours' = ~taken
    /\ hostState' = BoundState(~taken)
    /\ UNCHANGED <<stopAsked, ui, mapped, taken, content, hosted>>

LoadWorld ==
    /\ worker = "loading" /\ worker' = "running"
    /\ inMemory' = TRUE /\ unsaved' = FALSE /\ saveFailed' = FALSE
    /\ hostState' = "Running"
    /\ UNCHANGED <<stopAsked, ui, mapped, ours, taken, hosted>>

\* SaveWorldToFile: the file cannot be written or moved into place, or it is there.
Save(ok) == unsaved' = (unsaved /\ ~ok) /\ saveFailed' = ~ok

\* Update: the players change the world; the auto-save tries to write it.
UpdateServer(saves) ==
    /\ worker = "running" /\ ~stopAsked
    /\ \/ ~saves /\ unsaved' = TRUE /\ UNCHANGED saveFailed
       \/ saves /\ \E ok \in BOOLEAN : Save(ok)
    /\ UNCHANGED <<threads, mapped, ours, taken, inMemory>>

(* Mutant of LeaveLoop: the world is not saved. *)
LeaveLoopUnsaved ==
    /\ worker = "running" /\ stopAsked
    /\ worker' = "closing"
    /\ UNCHANGED <<hostState, stopAsked, ui, hosted, machine>>

LeaveLoop ==
    /\ worker = "running" /\ stopAsked
    /\ worker' = "saving"
    /\ UNCHANGED <<hostState, stopAsked, ui, hosted, machine>>

\* Nobody asks how it went.
SaveWorld ==
    /\ worker = "saving" /\ worker' = "closing"
    /\ \E ok \in BOOLEAN : Save(ok)
    /\ UNCHANGED <<hostState, stopAsked, ui, hosted, mapped, ours, taken, inMemory>>

(* Mutant of ClosingState: the new state is published before the port is closed. *)
ClosingStateEarly == "Stopped"

\* The state while Stop removes the mapping and destroys the host.
ClosingState == hostState

\* RemoveMapping may fail; the players are cut off and the socket is closed.
CloseServer ==
    /\ worker = "closing" /\ worker' = "closed"
    /\ mapped' \in {FALSE, mapped}
    /\ hostState' = ClosingState
    /\ UNCHANGED <<stopAsked, ui, hosted, ours, taken, content>>

SocketCloses ==
    /\ worker = "closed" /\ worker' = "exited"
    /\ ours' = FALSE /\ inMemory' = FALSE
    /\ hostState' = "Stopped"
    /\ UNCHANGED <<stopAsked, ui, hosted, mapped, taken, unsaved, saveFailed>>

\* Another server on this machine takes or frees the port.
PortChanges ==
    /\ ~ours
    /\ taken' = ~taken
    /\ UNCHANGED <<threads, mapped, ours, content>>

WorkerStep ==
    \/ AddMapping \/ Bind \/ LoadWorld \/ LeaveLoop \/ SaveWorld \/ CloseServer \/ SocketCloses

EhNext ==
    \/ OnHostClicked \/ HostCommand \/ Launch \/ Stop("stopping") \/ Stop("leaving") \/ JoinReturns
    \/ WorkerStep \/ UpdateServer(TRUE) \/ UpdateServer(FALSE) \/ PortChanges

\* Threads make progress: each step of RunLoop ends, and so does a join that may.
EhFairness ==
    /\ WF_ehVars(WorkerStep)
    /\ WF_ehVars(Launch \/ JoinReturns)

EhSpec == EhInit /\ [][EhNext]_ehVars /\ EhFairness

(***************************************************************************)
(* Properties.                                                             *)
(***************************************************************************)

\* Types.
EhTypeOK ==
    /\ hostState \in {"Stopped", "Starting", "Running", "Failed"}
    /\ worker \in {"none", "mapping", "binding", "loading", "running", "saving",
                   "closing", "closed", "exited"}
    /\ ui \in {"free", "reaping", "stopping", "leaving", "gone"}
    /\ {stopAsked, mapped, ours, taken, inMemory, unsaved, saveFailed} \subseteq BOOLEAN
    /\ hosted \in 0..HostBound

(* What m_state tells the game thread is complete: Running means a bound   *)
(* port and a loaded world; Stopped and Failed mean that our socket is     *)
(* closed (after Failed the port is another process's), that no thread of  *)
(* ours is left to wait for, and that changes of the world were lost only  *)
(* if the last save failed, which nobody but the log is told (server.cpp:  *)
(* 1535, embedded_server.cpp:117).  A world is saved only after it was     *)
(* loaded, so a failed start never writes an empty world over the old one, *)
(* and the server leaves its loop only while somebody waits for it to stop.*)
HostSound ==
    /\ hostState = "Running" => ours /\ inMemory
    /\ hostState \in {"Stopped", "Failed"} =>
         ~ours /\ (unsaved => saveFailed) /\ worker \in {"none", "exited"}
    /\ ~(ours /\ taken)
    /\ worker = "saving" => inMemory
    /\ worker \in {"saving", "closing", "closed"} => ui \in {"stopping", "leaving"}
    /\ ui = "gone" => worker = "none" /\ ~IsActive

(* A stop returns whatever the server thread is doing, a start comes to an *)
(* answer, and /stophost leaves no server behind.                          *)
HostSettles ==
    /\ ui \in {"stopping", "leaving"} ~> ui \in {"free", "gone"}
    /\ hostState = "Starting" ~> hostState # "Starting"
    /\ (ui = "stopping" ~> hostState \in {"Stopped", "Failed"})
=============================================================================
