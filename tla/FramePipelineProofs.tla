------------------------- MODULE FramePipelineProofs -------------------------
(* Theorems about FramePipeline, for every number of workers and of         *)
(* disconnects: the pending counter is exact, so a swap is always quiescent. *)
EXTENDS FramePipeline, FiniteSetTheorems, TLAPS

\* A tick never posts more than its two tasks.
PostedInRange == mpc \in {"count", "push"} => posted < 2

FrameInv == TypeOK /\ PostedInRange /\ PendingExact /\ QuiescentSwap

-----------------------------------------------------------------------------
(* How the set of busy workers moves                                       *)

\* The busy workers are finitely many, and their number is 0 only if none is.
LEMMA BusyFinite == /\ IsFiniteSet(Busy)
                    /\ Cardinality(Busy) \in Nat
                    /\ Cardinality(Busy) = 0 <=> Busy = {}
  <1>1. Busy \in SUBSET Workers
    BY DEF Busy
  <1>2. IsFiniteSet(Busy)
    BY <1>1, PipelineAssumption, FS_Subset
  <1>3. QED
    BY <1>2, FS_CardinalityType, FS_EmptySet

\* A worker that takes a task enters the busy set.
LEMMA BusyEnter ==
    ASSUME TypeOK, NEW w \in Workers, w \notin Busy, Goto(w, "taken")
    PROVE  Cardinality(Busy') = Cardinality(Busy) + 1
  <1>1. Busy' = Busy \cup {w}
    BY DEF TypeOK, Busy, Goto
  <1>2. QED
    BY <1>1, BusyFinite, FS_AddElement

\* A worker that has counted its task down leaves the busy set.
LEMMA BusyLeave ==
    ASSUME TypeOK, NEW w \in Workers, w \in Busy, NEW pc \in {"notify", "top"},
           Goto(w, pc)
    PROVE  Cardinality(Busy') = Cardinality(Busy) - 1
  <1>1. Busy' = Busy \ {w}
    BY DEF TypeOK, Busy, Goto
  <1>2. QED
    BY <1>1, BusyFinite, FS_RemoveElement

-----------------------------------------------------------------------------
\* Before the first tick nothing is pending.
LEMMA FrameInit == Init => FrameInv
  <1> SUFFICES ASSUME Init PROVE FrameInv OBVIOUS
  <1>1. Busy = {}
    BY DEF Init, Busy
  <1>2. TypeOK
    <2>1. FrameTasks[1] \in Task
      BY DEF Task
    <2>2. EmptyFrame \in FrameData
      BY DEF EmptyFrame, FrameData
    <2>3. frames \in [0 .. 1 -> FrameData] /\ wtask \in [Workers -> Task]
      BY <2>1, <2>2 DEF Init
    <2>4. disconnects \in 0 .. MaxDisconnects /\ readBuffer = 1 - writeBuffer
      BY PipelineAssumption DEF Init
    <2>5. wpc \in [Workers -> WorkerPc] /\ mpc \in GamePc
      BY DEF Init, WorkerPc, GamePc
    <2>6. queue \in Seq(Task) /\ wbuf \in [Workers -> 0 .. 1]
      BY DEF Init
    <2>7. writeBuffer \in 0 .. 1 /\ posted \in 0 .. 2 /\ pending \in Nat
      BY DEF Init
    <2>8. running \in BOOLEAN /\ connected \in BOOLEAN /\ started \in BOOLEAN
      BY DEF Init
    <2>9. QED
      BY <2>3, <2>4, <2>5, <2>6, <2>7, <2>8 DEF Init, TypeOK
  <1>3. PendingExact
    BY <1>1, BusyFinite DEF Init, PendingExact
  <1>4. QED
    BY <1>2, <1>3 DEF FrameInv, Init, PostedInRange, QuiescentSwap

\* A worker's step keeps the invariant.
LEMMA FrameWorker ==
    ASSUME FrameInv, NEW w \in Workers, WorkerStep(w)
    PROVE  FrameInv'
  <1> USE DEF FrameInv, poolVars, bufferVars, sessionVars, workerVars
  <1>1. CASE \/ LoopTest(w) \/ FindNothing(w) \/ Block(w) \/ StartTask(w)
             \/ RunTask(w)
    <2>0. ASSUME RunTask(w) PROVE frames' \in [0 .. 1 -> FrameData]
      <3>1. wbuf[w] \in 0 .. 1 /\ wtask[w] \in Task /\ frames[wbuf[w]] \in FrameData
        BY DEF TypeOK
      <3>2. Filled(frames[wbuf[w]], wtask[w]) \in FrameData
        BY <3>1 DEF Filled, FrameData
      <3>3. QED
        BY <2>0, <3>1, <3>2 DEF RunTask, TypeOK
    <2>1. TypeOK'
      BY <1>1, <2>0 DEF TypeOK, LoopTest, FindNothing, Block, StartTask, RunTask,
                  Goto, WorkerPc
    <2>2. Busy' = Busy
      BY <1>1 DEF TypeOK, LoopTest, FindNothing, Block, StartTask, RunTask,
                  Goto, Busy
    <2>3. UNCHANGED <<queue, pending, mpc, posted, started>>
      BY <1>1 DEF LoopTest, FindNothing, Block, StartTask, RunTask
    <2>4. QED
      BY <2>1, <2>2, <2>3 DEF PostedInRange, PendingExact, QuiescentSwap
  <1>2. CASE TakeTask(w)
    <2>1. TypeOK'
      BY <1>2 DEF TypeOK, TakeTask, Goto, WorkerPc
    <2>2. w \notin Busy
      BY <1>2 DEF TakeTask, Busy
    <2>3. Cardinality(Busy') = Cardinality(Busy) + 1
      BY <1>2, <2>2, BusyEnter DEF TakeTask
    <2>4. Len(queue') = Len(queue) - 1 /\ Len(queue) \in Nat
      BY <1>2 DEF TakeTask, TypeOK
    <2>5. PendingExact'
      BY <1>2, <2>3, <2>4, BusyFinite DEF TakeTask, PendingExact
    <2>6. ~(mpc = "swap" \/ (mpc = "apply" /\ started))
      BY <1>2 DEF QuiescentSwap, TakeTask
    <2>7. QED
      BY <1>2, <2>1, <2>5, <2>6 DEF TakeTask, PostedInRange, QuiescentSwap
  <1>3. CASE Decrement(w)
    <2>1. w \in Busy
      BY <1>3 DEF Decrement, Busy
    <2>2. Cardinality(Busy') = Cardinality(Busy) - 1
      BY <1>3, <2>1, BusyLeave DEF Decrement
    <2>3. Cardinality(Busy) >= 1 /\ pending >= 1
      BY <2>1, BusyFinite DEF PendingExact, TypeOK
    <2>4. TypeOK'
      BY <1>3, <2>3 DEF TypeOK, Decrement, Goto, WorkerPc
    <2>5. PendingExact'
      BY <1>3, <2>2, BusyFinite DEF Decrement, PendingExact, TypeOK
    <2>6. ~(mpc = "swap" \/ (mpc = "apply" /\ started))
      BY <2>1 DEF QuiescentSwap
    <2>7. QED
      BY <1>3, <2>4, <2>5, <2>6 DEF Decrement, PostedInRange, QuiescentSwap
  <1>4. CASE NotifyFrame(w)
    <2>1. TypeOK'
      BY <1>4 DEF TypeOK, NotifyFrame, Goto, WorkerPc, GamePc
    <2>2. Busy' = Busy
      BY <1>4 DEF TypeOK, NotifyFrame, Goto, Busy
    <2>3. /\ UNCHANGED <<queue, pending, posted, started>>
          /\ mpc' = mpc \/ (mpc = "blocked" /\ mpc' = "wait")
      BY <1>4 DEF NotifyFrame
    <2>4. QED
      BY <2>1, <2>2, <2>3 DEF PostedInRange, PendingExact, QuiescentSwap
  <1>5. QED
    BY <1>1, <1>2, <1>3, <1>4 DEF WorkerStep

\* A step of the game thread, or of the network thread, keeps the invariant.
LEMMA FrameGame ==
    ASSUME FrameInv, GameStep \/ TickStart \/ Connect \/ Disconnect \/ Stop
    PROVE  FrameInv'
  <1> USE DEF FrameInv, poolVars, bufferVars, sessionVars, workerVars
  <1>1. CASE CheckFrameWork
    <2>1. TypeOK' /\ Busy' = Busy
      BY <1>1 DEF CheckFrameWork, TypeOK, Busy, GamePc
    <2>2. CASE pending <= 0
      <3>1. Len(queue) = 0 /\ Cardinality(Busy) = 0
        BY <1>1, <2>2, BusyFinite DEF CheckFrameWork, PendingExact, TypeOK
      <3>2. queue = <<>> /\ Busy = {}
        BY <3>1, BusyFinite DEF TypeOK
      <3>3. QED
        BY <1>1, <2>1, <2>2, <3>2
           DEF CheckFrameWork, PendingExact, QuiescentSwap, PostedInRange
    <2>3. CASE ~(pending <= 0)
      BY <1>1, <2>1, <2>3
         DEF CheckFrameWork, PendingExact, QuiescentSwap, PostedInRange
    <2>4. QED
      BY <2>2, <2>3
  <1>2. CASE TickStart \/ BlockOnFrameWork \/ SwapBuffers \/ ApplyFrame
    <2>1. TypeOK'
      BY <1>2 DEF TickStart, BlockOnFrameWork, SwapBuffers, ApplyFrame, TypeOK,
                  GamePc
    <2>2. Busy' = Busy /\ UNCHANGED <<queue, pending, posted, started>>
      BY <1>2 DEF TickStart, BlockOnFrameWork, SwapBuffers, ApplyFrame, Busy
    <2>3. QED
      BY <1>2, <2>1, <2>2
         DEF TickStart, BlockOnFrameWork, SwapBuffers, ApplyFrame,
             PendingExact, QuiescentSwap, PostedInRange
  <1>3. CASE ClearWriteFrame
    <2>1. TypeOK'
      BY <1>3 DEF ClearWriteFrame, TypeOK, GamePc, FrameData, EmptyFrame
    <2>2. Busy' = Busy
      BY <1>3 DEF ClearWriteFrame, Busy
    <2>3. QED
      BY <1>3, <2>1, <2>2
         DEF ClearWriteFrame, PendingExact, QuiescentSwap, PostedInRange
  <1>4. CASE CountFrameWork
    <2>1. TypeOK'
      BY <1>4 DEF CountFrameWork, TypeOK, GamePc
    <2>2. Busy' = Busy
      BY <1>4 DEF CountFrameWork, Busy
    <2>3. Len(queue) \in Nat
      BY DEF TypeOK
    <2>4. QED
      BY <1>4, <2>1, <2>2, <2>3, BusyFinite
         DEF CountFrameWork, PendingExact, QuiescentSwap, PostedInRange
  <1>5. CASE PushTask
    <2>1. FrameTasks[posted + 1] \in Task
      BY <1>5 DEF PushTask, PostedInRange, TypeOK, Task
    <2>2. TypeOK'
      BY <1>5, <2>1 DEF PushTask, TypeOK, GamePc, PostedInRange
    <2>3. Busy' = Busy
      BY <1>5 DEF PushTask, Busy
    <2>4. Len(queue') = Len(queue) + 1 /\ Len(queue) \in Nat
      BY <1>5, <2>1 DEF PushTask, TypeOK
    <2>5. QED
      BY <1>5, <2>2, <2>3, <2>4, BusyFinite
         DEF PushTask, PendingExact, QuiescentSwap, PostedInRange
  <1>6. CASE NotifyOne
    <2>1. TypeOK'
      BY <1>6 DEF NotifyOne, TypeOK, GamePc, Goto, WorkerPc, Blocked
    <2>2. Busy' = Busy
      BY <1>6 DEF NotifyOne, Busy, Blocked, Goto, TypeOK
    <2>3. UNCHANGED <<queue, pending, posted>>
      BY <1>6 DEF NotifyOne
    <2>4. mpc = "signal" /\ ((mpc' = "count" /\ posted < 2) \/ mpc' = "idle")
      BY <1>6 DEF NotifyOne
    <2>5. QED
      BY <2>1, <2>2, <2>3, <2>4 DEF PendingExact, QuiescentSwap, PostedInRange
  <1>7. CASE Connect \/ Disconnect \/ Stop
    <2>1. TypeOK'
      <3>1. EmptyFrame \in FrameData
        BY DEF EmptyFrame, FrameData
      <3>2. CASE Disconnect
        <4>1. frames' \in [0 .. 1 -> FrameData]
          BY <3>1, <3>2 DEF Disconnect
        <4>2. disconnects' \in 0 .. MaxDisconnects
          BY <3>2, PipelineAssumption DEF Disconnect, TypeOK
        <4>3. writeBuffer' \in 0 .. 1 /\ readBuffer' = 1 - writeBuffer'
          BY <3>2, PipelineAssumption DEF Disconnect, TypeOK
        <4>4. QED
          BY <3>2, <4>1, <4>2, <4>3 DEF Disconnect, TypeOK
      <3>3. CASE Connect \/ Stop
        BY <3>3 DEF Connect, Stop, TypeOK, GamePc
      <3>4. QED
        BY <1>7, <3>2, <3>3
    <2>2. Busy' = Busy
      BY <1>7 DEF Connect, Disconnect, Stop, Busy
    <2>3. QED
      BY <1>7, <2>1, <2>2
         DEF Connect, Disconnect, Stop, PendingExact, QuiescentSwap,
             PostedInRange
  <1>8. CASE NotifyStop
    <2>1. TypeOK'
      BY <1>8 DEF NotifyStop, TypeOK, GamePc, WorkerPc
    <2>2. Busy' = Busy
      BY <1>8 DEF NotifyStop, Busy, TypeOK
    <2>3. QED
      BY <1>8, <2>1, <2>2
         DEF NotifyStop, PendingExact, QuiescentSwap, PostedInRange
  <1>9. CASE Join
    <2>1. TypeOK'
      BY <1>9 DEF Join, TypeOK, GamePc
    <2>2. Busy = {} /\ Busy' = Busy
      BY <1>9 DEF Join, Busy
    <2>3. Cardinality(Busy') = 0
      BY <2>2, BusyFinite
    <2>4. QED
      BY <1>9, <2>1, <2>3
         DEF Join, PendingExact, QuiescentSwap, PostedInRange
  <1>10. QED
    BY <1>1, <1>2, <1>3, <1>4, <1>5, <1>6, <1>7, <1>8, <1>9 DEF GameStep

\* The invariant holds throughout.
LEMMA FrameInvariant == Spec => []FrameInv
  <1>1. FrameInv /\ [Next]_vars => FrameInv'
    <2> SUFFICES ASSUME FrameInv, [Next]_vars PROVE FrameInv' OBVIOUS
    <2>1. CASE UNCHANGED vars
      BY <2>1 DEF vars, FrameInv, TypeOK, PostedInRange, PendingExact,
                  QuiescentSwap, Busy
    <2>2. QED
      BY <2>1, FrameWorker, FrameGame DEF Next
  <1>2. QED
    BY <1>1, FrameInit, PTL DEF Spec

\* The counter of WaitForFrameWork is exact for any number of workers: no
\* interleaving of posts, takes and count-downs makes it drift.
THEOREM PendingIsExact == Spec => []PendingExact
  <1>1. FrameInv => PendingExact
    BY DEF FrameInv
  <1>2. QED
    BY <1>1, FrameInvariant, PTL

\* When the game thread swaps and reads a frame, no worker is on it, whatever
\* disconnects and crashes of ticks came before.
THEOREM SwapIsQuiescent == Spec => []QuiescentSwap
  <1>1. FrameInv => QuiescentSwap
    BY DEF FrameInv
  <1>2. QED
    BY <1>1, FrameInvariant, PTL
=============================================================================
