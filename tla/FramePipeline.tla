---------------------------- MODULE FramePipeline ----------------------------
(***************************************************************************)
(* The client's frame pipeline: TaskOrchestrator (sys/task_orchestrator.cpp)*)
(* and the double-buffered frames that SyncOrchestrator, or Core's older     *)
(* pipeline, runs on it.                                                     *)
(*                                                                         *)
(* One game thread (Present hook: ticks, disconnects, shutdown) posts two    *)
(* frame tasks per tick to a pool of workers and, in the next tick, waits    *)
(* for them before it swaps the buffers.  Every access to an atomic, every   *)
(* critical section and every notify is a step of its own: a condition       *)
(* variable's wait tests its predicate, then blocks, and only a notify that  *)
(* comes after the blocking wakes it.                                        *)
(***************************************************************************)
EXTENDS Integers, Sequences, FiniteSets

CONSTANTS
    Workers,              \* TaskOrchestrator::Start(2)
    UseSyncOrchestrator,  \* m_config.useSyncOrchestrator
    MaxDisconnects        \* bound: disconnects of one run of the game

ASSUME PipelineAssumption ==
    /\ IsFiniteSet(Workers)
    /\ UseSyncOrchestrator \in BOOLEAN
    /\ MaxDisconnects \in Nat

VARIABLES
    running,      \* TaskOrchestrator::m_running
    queue,        \* m_tasks
    taskMutex,    \* holder of m_taskMutex across a step, "free" otherwise
    pending,      \* m_pendingFrameWork
    wpc,          \* where each worker is in WorkerLoop
    wtask,        \* the task it took
    wbuf,         \* the buffer its task writes: m_writeBuffer at task start
    mpc,          \* where the game thread is
    posted,       \* frame tasks posted so far in this tick
    connected,    \* Core::m_connected
    started,      \* m_pipelineStarted
    writeBuffer, readBuffer,
    frames,       \* m_frameData
    disconnects

vars == <<running, queue, taskMutex, pending, wpc, wtask, wbuf, mpc, posted,
          connected, started, writeBuffer, readBuffer, frames, disconnects>>

workerVars  == <<wpc, wtask, wbuf>>
poolVars    == <<running, queue, taskMutex, pending>>
bufferVars  == <<started, writeBuffer, readBuffer, frames>>
sessionVars == <<connected, disconnects>>

\* The two tasks of a tick, in the order KickBackgroundWork posts them.
FrameTasks == <<"BackgroundReadEntities", "BackgroundInterpolate">>
Task       == {FrameTasks[i] : i \in 1 .. 2}

\* A frame: which results it holds and whether it was declared ready.
FrameData  == [parts : SUBSET Task, ready : BOOLEAN]
EmptyFrame == [parts |-> {}, ready |-> FALSE]

Init ==
    /\ running = TRUE
    /\ queue = <<>>
    /\ taskMutex = "free"
    /\ pending = 0
    /\ wpc = [w \in Workers |-> "top"]
    /\ wtask = [w \in Workers |-> FrameTasks[1]]
    /\ wbuf = [w \in Workers |-> 0]
    /\ mpc = "idle"
    /\ posted = 0
    /\ connected = FALSE
    /\ started = FALSE
    /\ writeBuffer = 0
    /\ readBuffer = 1
    /\ frames = [b \in 0 .. 1 |-> EmptyFrame]
    /\ disconnects = 0

-----------------------------------------------------------------------------
(* WorkerLoop                                                              *)

Goto(w, pc) == wpc' = [wpc EXCEPT ![w] = pc]

\* while (m_running): read outside the mutex.
LoopTest(w) ==
    /\ wpc[w] = "top"
    /\ Goto(w, IF running THEN "enter" ELSE "exit")
    /\ UNCHANGED <<wtask, wbuf, poolVars, mpc, posted, bufferVars, sessionVars>>

\* Under m_taskMutex, on entry and after every wake-up: a task is there.
TakeTask(w) ==
    /\ wpc[w] = "enter"
    /\ taskMutex = "free"
    /\ queue # <<>>
    /\ wtask' = [wtask EXCEPT ![w] = Head(queue)]
    /\ queue' = Tail(queue)
    /\ Goto(w, "taken")
    /\ UNCHANGED <<wbuf, running, taskMutex, pending, mpc, posted, bufferVars,
                   sessionVars>>

\* No task: return when stopped, else be about to block with the mutex held.
FindNothing(w) ==
    /\ wpc[w] = "enter"
    /\ taskMutex = "free"
    /\ queue = <<>>
    /\ IF running
       THEN Goto(w, "deciding") /\ taskMutex' = w
       ELSE Goto(w, "exit") /\ UNCHANGED taskMutex
    /\ UNCHANGED <<wtask, wbuf, running, queue, pending, mpc, posted,
                   bufferVars, sessionVars>>

Block(w) ==
    /\ wpc[w] = "deciding"
    /\ Goto(w, "blocked")
    /\ taskMutex' = "free"
    /\ UNCHANGED <<wtask, wbuf, running, queue, pending, mpc, posted,
                   bufferVars, sessionVars>>

\* BackgroundReadEntities, BackgroundInterpolate: auto& writeFrame =
\* m_frameData[m_writeBuffer], then the results, or an access violation that
\* SEH_ExecuteWorkerTask swallows.
StartTask(w) ==
    /\ wpc[w] = "taken"
    /\ wbuf' = [wbuf EXCEPT ![w] = writeBuffer]
    /\ Goto(w, "run")
    /\ UNCHANGED <<wtask, poolVars, mpc, posted, bufferVars, sessionVars>>

Filled(f, task) ==
    [parts |-> f.parts \cup {task},
     ready |-> f.ready \/ task = "BackgroundReadEntities"]

RunTask(w) ==
    /\ wpc[w] = "run"
    /\ Goto(w, "finished")
    /\ \/ frames' = [frames EXCEPT ![wbuf[w]] = Filled(@, wtask[w])]
       \/ UNCHANGED frames
    /\ UNCHANGED <<wtask, wbuf, poolVars, mpc, posted, started, writeBuffer,
                   readBuffer, sessionVars>>

\* fetch_sub(1) <= 1 decides whether this worker notifies.
Decrement(w) ==
    /\ wpc[w] = "finished"
    /\ pending' = pending - 1
    /\ Goto(w, IF pending <= 1 THEN "notify" ELSE "top")
    /\ UNCHANGED <<wtask, wbuf, running, queue, taskMutex, mpc, posted,
                   bufferVars, sessionVars>>

\* m_frameCV.notify_all, without m_frameMutex.
NotifyFrame(w) ==
    /\ wpc[w] = "notify"
    /\ Goto(w, "top")
    /\ mpc' = IF mpc = "blocked" THEN "wait" ELSE mpc
    /\ UNCHANGED <<wtask, wbuf, poolVars, posted, bufferVars, sessionVars>>

-----------------------------------------------------------------------------
(* The game thread                                                         *)

\* A tick waits only when an earlier tick kicked work.
TickStart ==
    /\ mpc = "idle"
    /\ connected
    /\ mpc' = IF started THEN "wait" ELSE "apply"
    /\ UNCHANGED <<workerVars, poolVars, posted, bufferVars, sessionVars>>

\* Mutant: the wait is off by one.
CheckFrameWorkEarly ==
    /\ mpc = "wait"
    /\ mpc' = IF pending <= 1 THEN "swap" ELSE "deciding"
    /\ UNCHANGED <<workerVars, poolVars, posted, bufferVars, sessionVars>>

\* WaitForFrameWork: the predicate, tested on entry and after each wake-up.
\* Only the game thread ever locks m_frameMutex.
CheckFrameWork ==
    /\ mpc = "wait"
    /\ mpc' = IF pending <= 0 THEN "swap" ELSE "deciding"
    /\ UNCHANGED <<workerVars, poolVars, posted, bufferVars, sessionVars>>

BlockOnFrameWork ==
    /\ mpc = "deciding"
    /\ mpc' = "blocked"
    /\ UNCHANGED <<workerVars, poolVars, posted, bufferVars, sessionVars>>

SwapBuffers ==
    /\ mpc = "swap"
    /\ writeBuffer' = readBuffer
    /\ readBuffer' = writeBuffer
    /\ mpc' = "apply"
    /\ UNCHANGED <<workerVars, poolVars, posted, started, frames, sessionVars>>

\* The stages between swap and kick read m_frameData[m_readBuffer]; a crash
\* in one of them ends the tick (SEH_SyncOrchestratorTick, SEH_OnGameTick).
ApplyFrame ==
    /\ mpc = "apply"
    /\ mpc' \in {"clear", "idle"}
    /\ UNCHANGED <<workerVars, poolVars, posted, bufferVars, sessionVars>>

ClearWriteFrame ==
    /\ mpc = "clear"
    /\ frames' = [frames EXCEPT ![writeBuffer] = EmptyFrame]
    /\ posted' = 0
    /\ mpc' = "count"
    /\ UNCHANGED <<workerVars, poolVars, started, writeBuffer, readBuffer,
                   sessionVars>>

\* Mutant: a kick is counted once for its two tasks.
CountPerKick ==
    /\ mpc = "count"
    /\ pending' = IF posted = 0 THEN pending + 1 ELSE pending
    /\ mpc' = "push"
    /\ UNCHANGED <<workerVars, running, queue, taskMutex, posted, bufferVars,
                   sessionVars>>

\* PostFrameWork: count, push under the mutex, notify_one.
CountFrameWork ==
    /\ mpc = "count"
    /\ pending' = pending + 1
    /\ mpc' = "push"
    /\ UNCHANGED <<workerVars, running, queue, taskMutex, posted, bufferVars,
                   sessionVars>>

PushTask ==
    /\ mpc = "push"
    /\ taskMutex = "free"
    /\ queue' = Append(queue, FrameTasks[posted + 1])
    /\ posted' = posted + 1
    /\ mpc' = "signal"
    /\ UNCHANGED <<workerVars, running, taskMutex, pending, bufferVars,
                   sessionVars>>

Blocked == {w \in Workers : wpc[w] = "blocked"}

\* Mutant: the push is not signalled.
NotifyNobody ==
    /\ mpc = "signal"
    /\ IF posted < 2 THEN mpc' = "count" /\ UNCHANGED started
                     ELSE mpc' = "idle" /\ started' = TRUE
    /\ UNCHANGED <<workerVars, poolVars, posted, writeBuffer, readBuffer,
                   frames, sessionVars>>

NotifyOne ==
    /\ mpc = "signal"
    /\ \/ Blocked = {} /\ UNCHANGED wpc
       \/ \E w \in Blocked : Goto(w, "enter")
    /\ IF posted < 2 THEN mpc' = "count" /\ UNCHANGED started
                     ELSE mpc' = "idle" /\ started' = TRUE
    /\ UNCHANGED <<wtask, wbuf, poolVars, posted, writeBuffer, readBuffer,
                   frames, sessionVars>>

\* HandshakeAck, on the network thread: at any moment.
Connect ==
    /\ ~connected
    /\ running
    /\ connected' = TRUE
    /\ UNCHANGED <<workerVars, poolVars, mpc, posted, bufferVars, disconnects>>

\* SetConnected(false): both frames are cleared and the pipeline restarts
\* without a wait; SyncOrchestrator::Reset also rewinds the indices.
Disconnect ==
    /\ mpc = "idle"
    /\ connected
    /\ disconnects < MaxDisconnects
    /\ disconnects' = disconnects + 1
    /\ connected' = FALSE
    /\ started' = FALSE
    /\ frames' = [b \in 0 .. 1 |-> EmptyFrame]
    /\ IF UseSyncOrchestrator
       THEN writeBuffer' = 0 /\ readBuffer' = 1
       ELSE UNCHANGED <<writeBuffer, readBuffer>>
    /\ UNCHANGED <<workerVars, poolVars, mpc, posted>>

\* Core::Shutdown and TaskOrchestrator::Stop: clear the flag, notify_all,
\* join, drop what is left.
Stop ==
    /\ mpc = "idle"
    /\ running
    /\ running' = FALSE
    /\ connected' = FALSE
    /\ mpc' = "notifyStop"
    /\ UNCHANGED <<workerVars, queue, taskMutex, pending, posted, bufferVars,
                   disconnects>>

NotifyStop ==
    /\ mpc = "notifyStop"
    /\ wpc' = [w \in Workers |-> IF wpc[w] = "blocked" THEN "enter" ELSE wpc[w]]
    /\ mpc' = "join"
    /\ UNCHANGED <<wtask, wbuf, poolVars, posted, bufferVars, sessionVars>>

Join ==
    /\ mpc = "join"
    /\ \A w \in Workers : wpc[w] = "exit"
    /\ queue' = <<>>
    /\ pending' = 0
    /\ mpc' = "stopped"
    /\ UNCHANGED <<workerVars, running, taskMutex, posted, bufferVars,
                   sessionVars>>

-----------------------------------------------------------------------------
WorkerStep(w) ==
    \/ LoopTest(w)
    \/ TakeTask(w)
    \/ FindNothing(w)
    \/ Block(w)
    \/ StartTask(w)
    \/ RunTask(w)
    \/ Decrement(w)
    \/ NotifyFrame(w)

\* What the game thread does once it is inside a tick or a shutdown.
GameStep ==
    \/ CheckFrameWork
    \/ BlockOnFrameWork
    \/ SwapBuffers
    \/ ApplyFrame
    \/ ClearWriteFrame
    \/ CountFrameWork
    \/ PushTask
    \/ NotifyOne
    \/ NotifyStop
    \/ Join

Next ==
    \/ \E w \in Workers : WorkerStep(w)
    \/ GameStep
    \/ TickStart
    \/ Connect
    \/ Disconnect
    \/ Stop

Spec == Init /\ [][Next]_vars

\* Threads that can run do run; nobody is obliged to tick, connect or stop,
\* and no spurious wake-up is promised.
FairSpec == /\ Spec
            /\ \A w \in Workers : WF_vars(WorkerStep(w))
            /\ WF_vars(GameStep)

-----------------------------------------------------------------------------
(* Properties                                                              *)

WorkerPc == {"top", "enter", "deciding", "blocked", "taken", "run",
             "finished", "notify", "exit"}
GamePc   == {"idle", "wait", "deciding", "blocked", "swap", "apply", "clear",
             "count", "push", "signal", "notifyStop", "join", "stopped"}

\* Types; in particular m_pendingFrameWork, a signed counter, is never negative.
TypeOK ==
    /\ running \in BOOLEAN
    /\ queue \in Seq(Task)
    /\ taskMutex \in Workers \cup {"free"}
    /\ pending \in Nat
    /\ wpc \in [Workers -> WorkerPc]
    /\ wtask \in [Workers -> Task]
    /\ wbuf \in [Workers -> 0 .. 1]
    /\ mpc \in GamePc
    /\ posted \in 0 .. 2
    /\ connected \in BOOLEAN
    /\ started \in BOOLEAN
    /\ writeBuffer \in 0 .. 1
    /\ readBuffer = 1 - writeBuffer
    /\ frames \in [0 .. 1 -> FrameData]
    /\ disconnects \in 0 .. MaxDisconnects

Busy == {w \in Workers : wpc[w] \in {"taken", "run", "finished"}}

\* m_pendingFrameWork is the exact number of frame tasks announced and not
\* finished: it never lets WaitForFrameWork return early, nor keeps it waiting
\* for a task that was lost.
PendingExact ==
    pending = Len(queue) + Cardinality(Busy) + (IF mpc = "push" THEN 1 ELSE 0)

\* "WaitForFrameWork() guarantees workers are done - safe to swap": while the
\* game thread swaps and while it reads the swapped frame, no task is queued
\* or under way, whatever disconnects came before.
QuiescentSwap ==
    (mpc = "swap" \/ (mpc = "apply" /\ started)) => queue = <<>> /\ Busy = {}

\* A posted task is executed, even if the game thread is stuck: the push is
\* made under m_taskMutex, so no worker sleeps through it.
TasksRun == (queue # <<>> /\ running) ~> (queue = <<>> \/ ~running)

\* "Block until all PostFrameWork tasks have completed": the wait ends.
FrameWaitReturns == (mpc = "wait") ~> (mpc = "swap")
=============================================================================
