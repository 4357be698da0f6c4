-------------------------- MODULE OrchestratorStages --------------------------
(***************************************************************************)
(* The stages of SyncOrchestrator::Tick that send the own character's      *)
(* position and that serve the spawn queue.  Core::OnGameTick runs its own *)
(* HandleSpawnQueue right after the orchestrator, on the same queue        *)
(* (RemoteSpawns models it whole; here it takes a request and links, drops *)
(* or requeues it).                                                        *)
(*                                                                         *)
(* A tick is a round of the game thread: poll, spawns, Core.  The network  *)
(* thread registers entities, queues requests and removes players in       *)
(* between.  What a body looks like and where it stands is left out.       *)
(***************************************************************************)
EXTENDS Integers, FiniteSets, Sequences

CONSTANTS Remotes,      \* entities of one remote player
          MaxAsk,       \* MAX_SPAWN_RETRIES
          Patience,     \* time a queue waits for the hook before a direct spawn: 15 s
          Gap,          \* time between two direct spawns: 3 s
          DirectTries,  \* direct spawns while the queue does not run empty: 5
          ScanTries,    \* heap scans: 5
          Farthest,     \* bound: positions of the own character are 0 .. Farthest
          Threshold,    \* KMP_POS_CHANGE_THRESHOLD
          SpawnBound    \* bound: spawn messages

ASSUME StagesAssumption ==
    /\ {MaxAsk, Patience, Gap, DirectTries, ScanTries, Threshold} \subseteq Nat \ {0}
    /\ {Farthest, SpawnBound} \subseteq Nat /\ 0 \notin Remotes

VARIABLES step,       \* the game thread: where it is in a tick
          hand,       \* the request the spawn stage works on
          packet,     \* the network thread: where it is in a handler, and for whom
          bodyOf,     \* EntityRegistry: "absent", "none" (no object), or "body"
          pending,    \* SpawnManager::m_spawnQueue
          waiting,    \* m_hasPendingTimer, m_firstPendingTime as an age, m_directSpawnAttempts
                      \* and the time since m_lastDirectAttempt
          precall,    \* SpawnManager::HasPreCallData
          heap,       \* m_heapScanned, m_heapScanAttempts; m_lastHeapScan is old enough
          modFound,   \* GetModTemplateCount() > 0
          dropped,    \* entities whose request was given up, or went with a session (not in the code)
          spawns,     \* spawn messages so far
          at,         \* external: where the own character stands
          own,        \* his object is in the registry
          last,       \* EntityInfo::lastPosition
          sent,       \* his position update on its way, -1 if none (the newest wins)
          heard,      \* the last position of his that reached the server (RelaySync has its fate there)
          lost,       \* the server was not told of `last`, or the message was lost (not in the code)
          moved       \* he moved since the last poll (not in the code)

asks     == <<bodyOf, pending, dropped>>
motion   == <<at, own, last, sent, heard, lost, moved>>
pump     == <<waiting, heap, modFound>>
osVars   == <<step, hand, packet, asks, pump, precall, spawns, motion>>

NoRequest == [id |-> 0, retry |-> 0]
Resting == [on |-> FALSE, age |-> 0, tries |-> 0, since |-> 0]
Wanted(q) == {q[i].id : i \in DOMAIN q}

OsInit ==
    /\ step = "poll" /\ hand = NoRequest /\ packet = [pc |-> "idle", id |-> 0]
    /\ bodyOf = [e \in Remotes |-> "absent"] /\ pending = <<>> /\ dropped = {}
    /\ waiting = Resting /\ precall = FALSE
    /\ heap = [done |-> FALSE, tries |-> 0, due |-> TRUE] /\ modFound = FALSE /\ spawns = 0
    /\ at = 0 /\ own = TRUE /\ last = 0 /\ sent = -1 /\ heard = 0 /\ lost = FALSE /\ moved = FALSE

-----------------------------------------------------------------------------
(* Stage 4: positions. *)

Distance(x, y) == IF x > y THEN x - y ELSE y - x

\* Mutant of Changed: only an update farther than before is worth it.
ChangedForward(x) == x >= last + Threshold

\* Is this position worth an update?
Changed(x) == Distance(x, last) >= Threshold

\* Read the own character's position and send it if it changed.  An invalid object is
\* dropped from the registry for good.
Poll ==
    /\ moved' = FALSE
    /\ \E valid \in BOOLEAN :
        /\ own' = (own /\ valid)
        /\ IF own' /\ Changed(at)
           THEN sent' = at /\ last' = at /\ lost' = FALSE
           ELSE UNCHANGED <<sent, last, lost>>
    /\ UNCHANGED <<at, heard>>

StagePollAndSendPositions ==
    /\ step = "poll" /\ step' = "spawns" /\ Poll
    /\ UNCHANGED <<hand, packet, asks, pump, precall, spawns>>

\* The tick interval is not over.
PollNotDue ==
    /\ step = "poll" /\ step' = "spawns"
    /\ UNCHANGED <<hand, packet, asks, pump, precall, spawns, motion>>

-----------------------------------------------------------------------------
(* Stage 5: the spawn pending. *)

ScanNeeded == ~heap.done \/ (~modFound /\ heap.tries < ScanTries)

\* Mutant of ScanDone: one heap is enough.
ScanDoneOnce(tries, any) == TRUE

\* Is the search over?
ScanDone(tries, any) == any \/ tries >= ScanTries

\* ScanGameDataHeap and FindModTemplates may find nothing; without a factory, or with many
\* templates and no manager, they are not called.
HeapScan ==
    \/ /\ ScanNeeded /\ heap.due
       /\ \E any \in {modFound, TRUE} :
            /\ modFound' = any
            /\ heap' = [done |-> heap.done \/ ScanDone(heap.tries + 1, any),
                        tries |-> heap.tries + 1, due |-> FALSE]
    \/ UNCHANGED <<heap, modFound>>

\* The timer runs from the first tick that sees a request to the first that sees none.
Timer ==
    IF pending = <<>> THEN [Resting EXCEPT !.since = waiting.since]
    ELSE IF waiting.on THEN waiting
    ELSE [waiting EXCEPT !.on = TRUE, !.age = 0]

DirectDue(w) ==
    /\ pending # <<>> /\ w.on /\ w.age >= Patience /\ w.tries < DirectTries /\ precall
    /\ w.tries = 0 \/ w.since >= Gap

\* Up to PopSpawn.  The network thread may have emptied the queue since it was counted:
\* then the attempt is used up.
StageProcessSpawns ==
    /\ step = "spawns" /\ HeapScan
    /\ IF DirectDue(Timer)
       THEN /\ waiting' = [Timer EXCEPT !.tries = @ + 1, !.since = 0]
            /\ step' = "pop"
       ELSE waiting' = Timer /\ step' = "core"
    /\ UNCHANGED <<hand, packet, asks, precall, spawns, motion>>

PopSpawn ==
    /\ step = "pop"
    /\ IF pending = <<>>
       THEN step' = "core" /\ UNCHANGED <<hand, pending>>
       ELSE step' = "direct" /\ hand' = Head(pending) /\ pending' = Tail(pending)
    /\ UNCHANGED <<packet, bodyOf, dropped, pump, precall, spawns, motion>>

\* SpawnCharacterDirect made a body; an entity that is gone by then is left alone.
DirectSpawned ==
    /\ step = "direct" /\ step' = IF bodyOf[hand.id] = "absent" THEN "core" ELSE "link"
    /\ hand' = IF step' = "core" THEN NoRequest ELSE hand
    /\ UNCHANGED <<packet, asks, pump, precall, spawns, motion>>

\* SetGameObject and the rest of the set-up; the registry ignores an entity it does not have.
LinkBody ==
    /\ step = "link" /\ step' = "core" /\ hand' = NoRequest
    /\ bodyOf' = [bodyOf EXCEPT ![hand.id] = IF @ = "absent" THEN @ ELSE "body"]
    /\ UNCHANGED <<packet, pending, dropped, pump, precall, spawns, motion>>

\* Mutant of Requeued: a request is tried once.
RequeuedNever(r) == r.retry + 1 < 0

\* Is a failed request tried again?
Requeued(r) == r.retry + 1 < MaxAsk

\* The factory returned null.
DirectFailed ==
    /\ step = "direct" /\ step' = "core" /\ hand' = NoRequest
    /\ IF Requeued(hand)
       THEN pending' = Append(pending, [hand EXCEPT !.retry = @ + 1]) /\ UNCHANGED dropped
       ELSE UNCHANGED pending /\ dropped' = IF hand.retry + 1 >= MaxAsk THEN dropped \cup {hand.id} ELSE dropped
    /\ UNCHANGED <<packet, bodyOf, pump, precall, spawns, motion>>

\* Core::HandleSpawnQueue after the orchestrator: nothing, or it takes a request and links
\* the entity, drops it (it has an object, its player has a body, retries are used up) or
\* tries again later.
CoreSpawnQueue ==
    /\ step = "core" /\ step' = "poll"
    /\ \/ UNCHANGED asks
       \/ /\ pending # <<>>
          /\ LET r == Head(pending) IN
             \/ /\ pending' = Tail(pending) /\ UNCHANGED dropped
                /\ bodyOf' = [bodyOf EXCEPT ![r.id] = IF @ = "absent" THEN @ ELSE "body"]
             \/ pending' = Tail(pending) /\ dropped' = dropped \cup {r.id} /\ UNCHANGED bodyOf
             \/ /\ r.retry + 1 < MaxAsk
                /\ pending' = Append(Tail(pending), [r EXCEPT !.retry = @ + 1]) /\ UNCHANGED <<dropped, bodyOf>>
    /\ UNCHANGED <<hand, packet, pump, precall, spawns, motion>>

-----------------------------------------------------------------------------
(* The network thread. *)

\* A spawn message, which may be a repetition: a zone request causes them.
HandleSpawn ==
    /\ packet.pc = "idle" /\ spawns < SpawnBound /\ spawns' = spawns + 1
    /\ \E e \in Remotes :
        /\ bodyOf' = [bodyOf EXCEPT ![e] = IF @ = "absent" THEN "none" ELSE @]
        /\ dropped' = dropped \ {e}
        /\ packet' = [pc |-> "queue", id |-> e]
    /\ UNCHANGED <<step, hand, pending, pump, precall, motion>>

QueueSpawn ==
    /\ packet.pc = "queue" /\ packet' = [pc |-> "idle", id |-> 0]
    /\ pending' = Append(pending, [id |-> packet.id, retry |-> 0])
    /\ UNCHANGED <<step, hand, bodyOf, dropped, pump, precall, spawns, motion>>

\* HandlePlayerLeft: his requests go first, then his entities.
ClearSpawns ==
    /\ packet.pc = "idle" /\ \E e \in Remotes : bodyOf[e] # "absent"
    /\ packet' = [pc |-> "left", id |-> 0] /\ pending' = <<>>
    /\ UNCHANGED <<step, hand, bodyOf, dropped, pump, precall, spawns, motion>>

UnregisterOwned ==
    /\ packet.pc = "left" /\ packet' = [pc |-> "idle", id |-> 0]
    /\ bodyOf' = [e \in Remotes |-> "absent"]
    /\ UNCHANGED <<step, hand, pending, dropped, pump, precall, spawns, motion>>

-----------------------------------------------------------------------------
(* The world, the server and the end of a session. *)

\* SetPreCallData: the game created a character.
GameCreates ==
    /\ ~precall /\ precall' = TRUE
    /\ UNCHANGED <<step, hand, packet, asks, pump, spawns, motion>>

Bounded(t, limit) == IF t < limit THEN t + 1 ELSE t

TimePassed ==
    /\ step = "poll"
    /\ waiting' = [waiting EXCEPT !.age = IF waiting.on THEN Bounded(@, Patience) ELSE @,
                                  !.since = Bounded(@, Gap)]
    /\ heap' = [heap EXCEPT !.due = TRUE]
    /\ UNCHANGED <<step, hand, packet, asks, modFound, precall, spawns, motion>>

OwnMoves ==
    /\ step = "poll" /\ \E x \in {at - 1, at + 1} \cap 0 .. Farthest : at' = x
    /\ moved' = TRUE
    /\ UNCHANGED <<step, hand, packet, asks, pump, precall, spawns, own, last, sent, heard, lost>>

\* HandlePositionUpdate reads it.
PositionArrives ==
    /\ sent # -1 /\ heard' = sent /\ sent' = -1
    /\ UNCHANGED <<step, hand, packet, asks, pump, precall, spawns, at, own, last, lost, moved>>

PositionLost ==
    /\ sent # -1 /\ sent' = -1 /\ lost' = TRUE
    /\ UNCHANGED <<step, hand, packet, asks, pump, precall, spawns, at, own, last, heard, moved>>

\* SetConnected(false) between two ticks: the registry forgets the remote entities ...
ForgetRemotes ==
    /\ step = "poll" /\ step' = "reset" /\ \E e \in Remotes : bodyOf[e] # "absent"
    /\ bodyOf' = [e \in Remotes |-> "absent"]
    /\ UNCHANGED <<hand, packet, pending, dropped, pump, precall, spawns, motion>>

\* ... the orchestrator's spawn state is reset (not m_lastDirectAttempt) ...
ResetStages ==
    /\ step = "reset" /\ step' = "clear"
    /\ waiting' = [Resting EXCEPT !.since = waiting.since]
    /\ heap' = [done |-> FALSE, tries |-> 0, due |-> TRUE]
    /\ UNCHANGED <<hand, packet, asks, modFound, precall, spawns, motion>>

\* ... and the queue is emptied.  A handler that was under way may have registered its
\* entity since the first step: its request goes here, the entity stays.
EmptyQueue ==
    /\ step = "clear" /\ step' = "poll"
    /\ pending' = <<>> /\ dropped' = dropped \cup Wanted(pending)
    /\ UNCHANGED <<hand, packet, bodyOf, pump, precall, spawns, motion>>

OsNext ==
    \/ StagePollAndSendPositions \/ PollNotDue \/ StageProcessSpawns \/ PopSpawn
    \/ DirectSpawned \/ LinkBody \/ DirectFailed \/ CoreSpawnQueue
    \/ HandleSpawn \/ QueueSpawn \/ ClearSpawns \/ UnregisterOwned
    \/ GameCreates \/ TimePassed \/ OwnMoves \/ PositionArrives \/ PositionLost
    \/ ForgetRemotes \/ ResetStages \/ EmptyQueue

OsSpec == OsInit /\ [][OsNext]_osVars

-----------------------------------------------------------------------------
\* Two pumps and the network thread share the queue, and yet no request is lost: an entity
\* without a body has one in the queue, in a handler's hands, or gave it up: on purpose, or as
\* one that the end of a session overtook.
NoRequestLost ==
    \A e \in Remotes :
        bodyOf[e] = "none" /\ e \notin dropped /\ packet.pc # "left" =>
            e \in Wanted(pending) \cup {hand.id, packet.id}

\* The heap search ends with templates found or all tries used, not before.
ScanHonest == heap.tries <= ScanTries /\ (heap.done => modFound \/ heap.tries = ScanTries)

\* The direct spawns of one wait are limited, and none happens before the wait is over.
DirectLimited ==
    /\ waiting.tries <= DirectTries
    /\ waiting.tries > 0 => waiting.on /\ waiting.age = Patience

\* The server was sent the own character's position but for less than the threshold, unless he
\* moved since the last poll, his object was lost, or the last update was.
PositionHeard ==
    /\ own /\ ~moved => Distance(at, last) < Threshold
    /\ sent = -1 /\ ~lost => heard = last

\* What the orchestrator's stages owe the remote entities and the server.
StagesSound == NoRequestLost /\ ScanHonest /\ DirectLimited /\ PositionHeard

OsTypeOK ==
    /\ step \in {"poll", "spawns", "pop", "direct", "link", "core", "reset", "clear"}
    /\ bodyOf \in [Remotes -> {"absent", "none", "body"}]
    /\ hand \in [id : Remotes \cup {0}, retry : 0 .. MaxAsk]
    /\ packet \in [pc : {"idle", "queue", "left"}, id : Remotes \cup {0}]
    /\ \A i \in DOMAIN pending : pending[i] \in [id : Remotes, retry : 0 .. MaxAsk]
    /\ waiting \in [on : BOOLEAN, age : 0 .. Patience, tries : 0 .. DirectTries, since : 0 .. Gap]
    /\ heap \in [done : BOOLEAN, tries : 0 .. ScanTries, due : BOOLEAN]
    /\ {at, last, heard} \subseteq 0 .. Farthest /\ sent \in -1 .. Farthest
=============================================================================
