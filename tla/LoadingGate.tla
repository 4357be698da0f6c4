---------------------------- MODULE LoadingGate ----------------------------
(***************************************************************************)
(* The gate in front of the spawn queue: LoadingOrchestrator, reached      *)
(* through AssetFacilitator, and the test at the head of                   *)
(* Core::HandleSpawnQueue.  The gate's methods belong to two threads: the  *)
(* game thread reports bursts, zones and the loaded world, ticks and       *)
(* tests; a loader thread reports resources at any moment, also within a   *)
(* test.                                                                   *)
(*                                                                         *)
(* Times are ages that stop counting at the limit they are compared with.  *)
(***************************************************************************)
EXTENDS Naturals

CONSTANTS Resources,    \* names of meshes, textures and materials
          Cooldown,     \* SPAWN_COOLDOWN_MS, in steps of the clock
          ZoneSettle,   \* ZONE_SETTLE_MS
          BurstTimeout, \* BURST_TIMEOUT_MS
          ForceAfter,   \* the 8 seconds after which the queue is forced
          LoadEvents    \* how many loads of any kind begin

ASSUME GateAssumption ==
    /\ {Cooldown, ZoneSettle, BurstTimeout, ForceAfter} \subseteq Nat \ {0}
    /\ LoadEvents \in Nat

VARIABLES phase, orchLoaded, inBurst,    \* m_phase, m_gameLoaded, m_inBurst
          pendingRes,                    \* m_pendingResources
          burstAge, doneAge, zoneAge,    \* since m_burstStartTime, m_lastLoadCompleteTime, m_zoneLoadEndTime
          bound,                         \* AssetFacilitator::m_orch
          world,                         \* Core::m_gameLoaded
          queued,                        \* a spawn request waits
          timing, blockAge,              \* s_gateTimerStarted, since s_gateBlockStart
          test,                          \* where the game thread is within IsSafeToSpawn
          fresh,                         \* resources requested since that test began (not in the code)
          endAge,                        \* since a load really ended (not in the code)
          begun                          \* loads begun so far

lgVars == <<phase, orchLoaded, inBurst, pendingRes, burstAge, doneAge, zoneAge,
            bound, world, queued, timing, blockAge, test, fresh, endAge, begun>>

timer == <<timing, blockAge>>
ages  == <<burstAge, doneAge, zoneAge, endAge, timer>>
orch  == <<phase, orchLoaded, inBurst, pendingRes>>
queue == <<bound, world, queued, test, fresh>>

\* The time points start at the epoch of the clock, long ago.
LgInit ==
    /\ phase = "InitialLoad" /\ orchLoaded = FALSE /\ inBurst = FALSE
    /\ pendingRes = {}
    /\ burstAge = BurstTimeout /\ doneAge = Cooldown /\ zoneAge = ZoneSettle
    /\ bound = TRUE /\ world = FALSE /\ queued = FALSE
    /\ timing = FALSE /\ blockAge = ForceAfter
    /\ test = "none" /\ fresh = {} /\ endAge = Cooldown /\ begun = 0

Begins == begun < LoadEvents /\ begun' = begun + 1

GameThread == test = "none"

(***************************************************************************)
(* The loader thread.                                                      *)
(***************************************************************************)

OnResourceRequested(r) ==
    /\ Begins
    /\ pendingRes' = pendingRes \cup {r}
    /\ fresh' = fresh \cup {r}
    /\ UNCHANGED <<phase, orchLoaded, inBurst, ages, bound, world, queued, test>>

(* Mutant of ResourceDone: the time of completion is not noted. *)
ResourceDoneUnnoted(r) == pendingRes' = pendingRes \ {r} /\ UNCHANGED doneAge

\* OnResourceLoaded and OnResourceFailed differ in statistics only.
ResourceDone(r) == pendingRes' = pendingRes \ {r} /\ doneAge' = 0

OnResourceLoaded(r) ==
    /\ r \in pendingRes
    /\ ResourceDone(r) /\ endAge' = 0
    /\ UNCHANGED <<phase, orchLoaded, inBurst, burstAge, zoneAge, timer, queue, begun>>

(***************************************************************************)
(* The game thread: bursts, zones, the loaded world.                       *)
(***************************************************************************)

OnBurstDetected ==
    /\ GameThread /\ Begins
    /\ inBurst' = TRUE /\ burstAge' = 0
    /\ phase' = IF phase = "Idle" /\ orchLoaded THEN "ZoneTransition" ELSE phase
    /\ UNCHANGED <<orchLoaded, pendingRes, doneAge, zoneAge, endAge, timer, queue>>

Settled == IF phase \in {"InitialLoad", "ZoneTransition"} THEN "Idle" ELSE phase

OnBurstEnded ==
    /\ GameThread /\ inBurst
    /\ inBurst' = FALSE /\ doneAge' = 0 /\ endAge' = 0
    /\ phase' = Settled
    /\ UNCHANGED <<orchLoaded, pendingRes, burstAge, zoneAge, timer, queue, begun>>

\* Core::OnGameLoaded reports the loaded world; the gate never hears of a reload.
OnWorldLoaded ==
    /\ GameThread /\ ~world
    /\ world' = TRUE /\ orchLoaded' = TRUE /\ doneAge' = 0 /\ endAge' = 0
    /\ phase' = IF phase = "InitialLoad" THEN "Idle" ELSE phase
    /\ UNCHANGED <<inBurst, pendingRes, burstAge, zoneAge, timer, bound, queued, test, fresh, begun>>

WorldUnloads ==
    /\ GameThread /\ world /\ Begins
    /\ world' = FALSE
    /\ UNCHANGED <<orch, ages, bound, queued, test, fresh>>

OnZoneLoadStart ==
    /\ GameThread /\ Begins
    /\ phase' = IF orchLoaded THEN "ZoneTransition" ELSE phase
    /\ UNCHANGED <<orchLoaded, inBurst, pendingRes, ages, queue>>

OnZoneLoadEnd ==
    /\ GameThread /\ phase = "ZoneTransition"
    /\ zoneAge' = 0 /\ doneAge' = 0 /\ endAge' = 0
    /\ UNCHANGED <<orch, burstAge, timer, queue, begun>>

(* Mutant of BurstTimesOut: a burst lasts until its end is reported. *)
BurstNeverTimesOut == FALSE

BurstTimesOut == inBurst /\ burstAge = BurstTimeout

(* Tick: the phase is read once, before a burst that lasts too long is     *)
(* ended; the settling of a zone uses that value and the new flag.         *)
GateTick ==
    /\ GameThread
    /\ inBurst' = (inBurst /\ ~BurstTimesOut)
    /\ doneAge' = IF BurstTimesOut THEN 0 ELSE doneAge
    /\ endAge' = IF BurstTimesOut THEN 0 ELSE endAge
    /\ phase' = IF \/ BurstTimesOut
                   \/ phase = "ZoneTransition" /\ ~inBurst' /\ zoneAge = ZoneSettle
                THEN Settled ELSE phase
    /\ UNCHANGED <<orchLoaded, pendingRes, burstAge, zoneAge, timer, queue, begun>>

(***************************************************************************)
(* HandleSpawnQueue, up to the point where the queue is served.  IsSafe-   *)
(* ToSpawn reads phase, burst, load and, under its lock, the pending       *)
(* resources; then, without the lock, the time of the last completion.     *)
(***************************************************************************)

NoLoadRuns == phase = "Idle" /\ ~inBurst /\ orchLoaded /\ pendingRes = {}

CooledDown == doneAge = Cooldown

(* Mutant of SafeReads: the cooldown is read first. *)
SafeReadsSwapped == <<CooledDown, NoLoadRuns>>

\* IsSafeToSpawn: the two reads of the gate, in their order.
SafeReads == <<NoLoadRuns, CooledDown>>

TestBegins ==
    /\ GameThread /\ world /\ bound
    /\ test' = IF SafeReads[1] THEN "cooldown" ELSE "shut"
    /\ fresh' = {}
    /\ UNCHANGED <<orch, ages, bound, world, queued, begun>>

TestEnds ==
    /\ test = "cooldown"
    /\ test' = IF SafeReads[2] THEN "open" ELSE "shut"
    /\ UNCHANGED <<orch, ages, bound, world, queued, fresh, begun>>

\* The gate is open, or there is none: the queue is served.
QueueServes(byGate) ==
    /\ IF byGate THEN test = "open" ELSE GameThread /\ world /\ ~bound
    /\ queued' = FALSE /\ test' = "none"
    /\ UNCHANGED <<orch, ages, bound, world, fresh, begun>>

(* Mutant of BlockTimer: the timer starts again on every blocked frame. *)
BlockTimerRestarts == 0

\* The timer of a blocked queue is started once.
BlockTimer == IF timing THEN blockAge ELSE 0

(* The gate is shut.  A queue that has been blocked for ForceAfter is      *)
(* served all the same.  The timer is stopped by that, or by a blocked     *)
(* frame without requests, but not by a gate that opens.                   *)
Blocked ==
    /\ test = "shut" /\ test' = "none"
    /\ queued' = (queued /\ BlockTimer # ForceAfter)
    /\ timing' = queued'
    /\ blockAge' = IF queued' THEN BlockTimer ELSE blockAge
    /\ UNCHANGED <<orch, burstAge, doneAge, zoneAge, endAge, bound, world, fresh, begun>>

QueueSpawn ==
    /\ ~queued /\ Begins
    /\ queued' = TRUE
    /\ UNCHANGED <<orch, ages, bound, world, test, fresh>>

\* Core::Shutdown.
Unbind ==
    /\ GameThread /\ bound /\ begun = LoadEvents
    /\ bound' = FALSE
    /\ UNCHANGED <<orch, ages, world, queued, test, fresh, begun>>

Older(age, limit) == IF age = limit THEN limit ELSE age + 1

TimePasses ==
    /\ burstAge' = Older(burstAge, BurstTimeout)
    /\ doneAge' = Older(doneAge, Cooldown)
    /\ zoneAge' = Older(zoneAge, ZoneSettle)
    /\ endAge' = Older(endAge, Cooldown)
    /\ blockAge' = Older(blockAge, ForceAfter)
    /\ UNCHANGED <<orch, queue, timing, begun>>

LgNext ==
    \/ \E r \in Resources : OnResourceRequested(r) \/ OnResourceLoaded(r)
    \/ OnBurstDetected \/ OnBurstEnded \/ OnWorldLoaded \/ WorldUnloads
    \/ OnZoneLoadStart \/ OnZoneLoadEnd \/ GateTick
    \/ TestBegins \/ TestEnds \/ QueueServes(TRUE) \/ QueueServes(FALSE) \/ Blocked
    \/ QueueSpawn \/ Unbind \/ TimePasses

\* Every frame ticks and then tests, and time passes; ends of bursts may be missed.
LgFairness ==
    /\ WF_lgVars(TimePasses)
    /\ SF_lgVars(GateTick)
    /\ SF_lgVars(TestBegins)
    /\ WF_lgVars(TestEnds \/ QueueServes(TRUE) \/ Blocked)

LgSpec == LgInit /\ [][LgNext]_lgVars /\ LgFairness

(***************************************************************************)
(* Properties.                                                             *)
(***************************************************************************)

\* Types and the limits of the ages.
LgTypeOK ==
    /\ phase \in {"Idle", "InitialLoad", "ZoneTransition"}
    /\ {orchLoaded, inBurst, bound, world, queued} \subseteq BOOLEAN
    /\ pendingRes \cup fresh \subseteq Resources
    /\ burstAge \in 0..BurstTimeout /\ {doneAge, endAge} \subseteq 0..Cooldown /\ zoneAge \in 0..ZoneSettle
    /\ timing \in BOOLEAN /\ blockAge \in 0..ForceAfter
    /\ test \in {"none", "cooldown", "open", "shut"} /\ begun \in 0..LoadEvents

(* The gate answers "open" only when the world is loaded, no burst runs,   *)
(* every resource that was requested before the test is finished, and the  *)
(* whole cooldown has passed since any of them finished, also when the     *)
(* last one finishes in the middle of the test.                            *)
GateHonest ==
    [][test' = "open" /\ test # "open" =>
         endAge = Cooldown /\ orchLoaded /\ ~inBurst /\ pendingRes \subseteq fresh]_lgVars

(* The gate does not stay shut: when no resource is outstanding, a loaded  *)
(* world is accepted again, although the end of a burst was never          *)
(* reported.                                                               *)
GateReopens == []<>(~orchLoaded \/ pendingRes # {} \/ (NoLoadRuns /\ CooledDown))

(* A request is served in the end even if a resource is never finished. *)
QueueServed == queued ~> ~queued \/ ~world \/ ~bound
=============================================================================
