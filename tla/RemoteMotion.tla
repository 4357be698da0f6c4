---------------------------- MODULE RemoteMotion ----------------------------
(***************************************************************************)
(* How a client moves the characters of others: position updates and       *)
(* AuthorityValidator, PendingSnapshotQueue for entities that are not      *)
(* spawned yet, and Interpolation with its ring of snapshots, its adaptive *)
(* delay and its snap correction.                                          *)
(*                                                                         *)
(* Positions are points of a line in whole units, to which divisions are   *)
(* rounded down; time is in ticks of 50 ms.  The jitter estimate is open:  *)
(* a packet may set the delay to anything between its bounds.  Every       *)
(* entity here has its object (RemoteSpawns is about that).  The server    *)
(* broadcasts as player 0; nobody sends move commands, whose hook is not   *)
(* installed, or world snapshots.                                          *)
(***************************************************************************)
EXTENDS Integers, Sequences, FiniteSets

CONSTANTS Bodies,      \* entities of others
          ServerOwned, \* those of player 0
          Spots,       \* where they can be
          RingSize,    \* KMP_MAX_SNAPSHOTS
          Delays,      \* from KMP_INTERP_DELAY_MIN to KMP_INTERP_DELAY_MAX
          FirstDelay,  \* KMP_INTERP_DELAY_SEC
          ExtrapMax,   \* KMP_EXTRAP_MAX_SEC
          VelocityMax, \* the 2 s after which no velocity is computed
          SnapMin, SnapMax, SnapTime, \* KMP_SNAP_THRESHOLD_MIN, _MAX, KMP_SNAP_CORRECT_SEC
          PendingAge,  \* the 10 s after which a pending update is dropped
          MailEnd,     \* no message arrives, or is in work, after this time
          MailBound,   \* how many messages there are
          FrameTimes,  \* how long a frame can take
          Horizon      \* when the clock stops

ASSUME MotionAssumption ==
    /\ ServerOwned \subseteq Bodies /\ Spots \subseteq Int
    /\ RingSize \in Nat \ {0} /\ FirstDelay \in Delays /\ Delays \subseteq Nat
    /\ {ExtrapMax, VelocityMax, SnapMin, SnapMax, PendingAge, MailEnd, MailBound, Horizon} \subseteq Nat
    /\ SnapTime \in Nat \ {0} /\ FrameTimes \subseteq Nat

VARIABLES clock,      \* SessionTime
          registered, \* the entities in the registry
          motion,     \* Interpolation::m_entities
          waiting,    \* PendingSnapshotQueue::s_pending
          judged,     \* an update between its validation and what is done with it
          frame,      \* m_deltaTime, and whether the worker of this frame has yet to interpolate
          mails,      \* messages so far
          shown,      \* where the last frame put each body
          history     \* the last RingSize + 1 snapshots of each body (not in the code)

rmVars == <<clock, registered, motion, waiting, judged, frame, mails, shown, history>>

Slots == 0..(RingSize - 1)
Blank == [at |-> 0, pos |-> 0, vel |-> 0]
Fresh == [buffer |-> [i \in Slots |-> Blank], head |-> 0, count |-> 0,
          delay |-> FirstDelay, timed |-> FALSE, err |-> 0, timer |-> 0]
NoUpdate == [id |-> {}, pos |-> 0, pends |-> FALSE]

\* m_entities has entries only for what AddSnapshot was called for; the others
\* read as empty rings.
RmInit ==
    /\ clock = 0 /\ registered = {}
    /\ motion = [e \in Bodies |-> Fresh]
    /\ waiting = [e \in Bodies |-> << >>] /\ judged = NoUpdate
    /\ frame = [dt |-> 0, due |-> FALSE] /\ mails = 0
    /\ shown = [e \in Bodies |-> {}]
    /\ history = [e \in Bodies |-> << >>]

Abs(n) == IF n < 0 THEN -n ELSE n

(***************************************************************************)
(* The ring.                                                               *)
(***************************************************************************)

PushSnapshot(m, s) ==
    [m EXCEPT !.buffer[m.head] = s, !.head = (@ + 1) % RingSize,
              !.count = IF @ < RingSize THEN @ + 1 ELSE @]

(* Mutant of GetByAge: age 0 is the slot that will be written next. *)
GetByAgeShifted(m, age) == m.buffer[(m.head - age + 2 * RingSize) % RingSize]

\* EntityInterpState::Get: 0 is the newest.
GetByAge(m, age) == m.buffer[(m.head - 1 - age + 2 * RingSize) % RingSize]

\* The velocity from the previous snapshot.
VelocityTo(prev, t, p) ==
    LET dt == t - prev.at
    IN IF dt > 0 /\ dt < VelocityMax THEN (p - prev.pos) \div dt ELSE 0

\* A jump within the thresholds is blended out, a longer one is made at once.
SnapAfter(m, prev, t, p) ==
    LET err == p - (prev.pos + prev.vel * (t - prev.at))
    IN IF Abs(err) > SnapMax THEN [m EXCEPT !.timer = 0, !.err = 0]
       ELSE IF Abs(err) > SnapMin THEN [m EXCEPT !.err = err, !.timer = SnapTime]
       ELSE m

\* AddSnapshot at time t, after which the estimator asks for delay d.
AddSnapshot(m, t, p, d) ==
    LET prev == GetByAge(m, 0)
        snap == IF m.count > 0 THEN SnapAfter(m, prev, t, p) ELSE m
        vel  == IF m.count > 0 THEN VelocityTo(prev, t, p) ELSE 0
    IN [PushSnapshot(snap, [at |-> t, pos |-> p, vel |-> vel])
          EXCEPT !.delay = IF m.timed THEN d ELSE @, !.timed = TRUE]

\* AddSnapshot for each element of q.
Flushed(m, q, d) ==
    LET after[i \in 0 .. Len(q)] ==
            IF i = 0 THEN m ELSE AddSnapshot(after[i - 1], q[i].at, q[i].pos, d)
    IN after[Len(q)]

Heard(h, s) ==
    LET all == Append(h, s) IN IF Len(all) > RingSize + 1 THEN Tail(all) ELSE all

HeardAll(h, q) ==
    LET after[i \in 0 .. Len(q)] == IF i = 0 THEN h ELSE Heard(after[i - 1], q[i])
    IN after[Len(q)]

(***************************************************************************)
(* InterpolateEntity.                                                      *)
(***************************************************************************)

\* The scan goes from the newest to the oldest and replaces only by something
\* better (later, or earlier with sign -1), so that of equal times the newest wins.
Best(m, ages, sign) ==
    CHOOSE i \in ages : \A j \in ages \ {i} :
        \/ sign * GetByAge(m, i).at > sign * GetByAge(m, j).at
        \/ GetByAge(m, i).at = GetByAge(m, j).at /\ i < j

(* Mutant of Reckon: no limit on the extrapolation. *)
ReckonOn(from, over) == from.pos + from.vel * over

\* Dead reckoning, and back to the last position when it takes too long.
Reckon(from, over) == IF over > 0 /\ over <= ExtrapMax THEN from.pos + from.vel * over ELSE from.pos

(* Mutant of Between: the fraction is taken from the later end. *)
BetweenReversed(from, to, t) ==
    IF to.at = from.at THEN from.pos ELSE to.pos + ((from.pos - to.pos) * (t - from.at)) \div (to.at - from.at)

Between(from, to, t) ==
    IF to.at = from.at THEN from.pos ELSE from.pos + ((to.pos - from.pos) * (t - from.at)) \div (to.at - from.at)

\* Of a ring with a snapshot at least.
InterpolateEntity(m, time) ==
    LET t    == time - m.delay
        ages == 0..(m.count - 1)
        past == {i \in ages : GetByAge(m, i).at <= t}
        next == {i \in ages : GetByAge(m, i).at >= t}
        before == Best(m, past, 1)
        after == Best(m, next, -1)
    IN IF past = {} THEN GetByAge(m, after).pos
       ELSE IF next = {} \/ after = before THEN Reckon(GetByAge(m, before), t - GetByAge(m, before).at)
       ELSE Between(GetByAge(m, before), GetByAge(m, after), t)

(* Mutant of Decay: the blend goes on when its time is over. *)
DecayNot(m, dt) == m

\* SnapCorrection::Apply, which every GetInterpolated calls: the time that is left after dt; none ends the correction.
Decay(m, dt) ==
    IF m.timer > dt THEN [m EXCEPT !.timer = @ - dt] ELSE [m EXCEPT !.timer = 0, !.err = 0]

Correction(m) == (m.err * m.timer) \div SnapTime

(***************************************************************************)
(* Messages.  The network thread validates an update and then queues it or *)
(* adds it; meanwhile the game thread can register and remove entities.    *)
(***************************************************************************)

Mail == clock <= MailEnd /\ mails < MailBound /\ mails' = mails + 1

\* HandlePositionUpdate up to its decision: an update whose source, 0, is not the owner is dropped.
ValidateInboundSnapshot(e, p) ==
    /\ Mail /\ judged = NoUpdate
    /\ e \in registered => e \in ServerOwned
    /\ judged' = [id |-> {e}, pos |-> p, pends |-> e \notin registered]
    /\ UNCHANGED <<clock, registered, motion, waiting, frame, shown, history>>

\* PendingSnapshotQueue::Queue.
QueueUpdate ==
    /\ judged.pends /\ judged' = NoUpdate
    /\ waiting' = [e \in Bodies |->
                     IF e \in judged.id THEN Append(waiting[e], [at |-> clock, pos |-> judged.pos])
                     ELSE waiting[e]]
    /\ UNCHANGED <<clock, registered, motion, frame, shown, history, mails>>

Receives(e, q) ==
    \E d \in Delays : /\ motion' = [motion EXCEPT ![e] = Flushed(@, q, d)]
                      /\ history' = [history EXCEPT ![e] = HeardAll(@, q)]

ApplyUpdate ==
    /\ judged # NoUpdate /\ ~judged.pends /\ judged' = NoUpdate
    /\ \E e \in judged.id : Receives(e, <<[at |-> clock, pos |-> judged.pos]>>)
    /\ UNCHANGED <<clock, registered, waiting, frame, shown, mails>>

\* An entity is registered, what waited for it flushed, and then its spawn
\* position added: by the network thread, or by the game thread when the
\* spawn was deferred.
HandleEntitySpawn(e, p, deferred) ==
    /\ Mail /\ (judged = NoUpdate \/ deferred)
    /\ registered' = registered \cup {e}
    /\ Receives(e, Append(waiting[e], [at |-> clock, pos |-> p]))
    /\ waiting' = [waiting EXCEPT ![e] = << >>]
    /\ UNCHANGED <<clock, judged, frame, shown>>

(* Mutant of RemoveEntity: the ring keeps what is known of the entity. *)
RemoveEntityNot(es) == UNCHANGED motion

RemoveEntity(es) == motion' = [e \in Bodies |-> IF e \in es THEN Fresh ELSE motion[e]]

\* Despawned by the server, swept by a heartbeat, or freed by the game.
Despawn(es) ==
    /\ es # {} /\ registered' = registered \ es
    /\ RemoveEntity(es)
    /\ history' = [e \in Bodies |-> IF e \in es THEN << >> ELSE history[e]]
    /\ shown' = [e \in Bodies |-> IF e \in es THEN {} ELSE shown[e]]
    /\ UNCHANGED <<clock, waiting, judged, frame, mails>>

(***************************************************************************)
(* A frame: Update, now and then CleanupOld, ApplyRemotePositionsDirect.   *)
(* The worker of the same frame interpolates as well.                      *)
(***************************************************************************)

Drawn == {e \in registered : motion[e].count > 0}

CleanupOld(q, time) ==
    LET kept[i \in 0 .. Len(q)] ==
            IF i = 0 THEN << >>
            ELSE IF q[i].at < time - PendingAge THEN kept[i - 1]
            ELSE Append(kept[i - 1], q[i])
    IN kept[Len(q)]

Frame(dt, cleans) ==
    LET time == IF clock + dt < Horizon THEN clock + dt ELSE Horizon IN
    /\ judged # NoUpdate => time <= MailEnd
    /\ clock' = time
    /\ frame' = [dt |-> dt, due |-> TRUE]
    /\ motion' = [e \in Bodies |-> IF e \in Drawn THEN Decay(motion[e], dt) ELSE motion[e]]
    /\ shown' = [e \in Bodies |->
                   IF e \in Drawn THEN {InterpolateEntity(motion[e], time) - Correction(motion'[e])}
                   ELSE shown[e]]
    /\ waiting' = IF cleans THEN [e \in Bodies |-> CleanupOld(waiting[e], time)] ELSE waiting
    /\ UNCHANGED <<registered, judged, history, mails>>

BackgroundInterpolate ==
    /\ frame.due /\ frame' = [frame EXCEPT !.due = FALSE]
    /\ motion' = [e \in Bodies |-> IF e \in Drawn THEN Decay(motion[e], frame.dt) ELSE motion[e]]
    /\ UNCHANGED <<clock, registered, waiting, judged, shown, history, mails>>

RmNext ==
    \/ \E e \in Bodies, p \in Spots :
         \/ ValidateInboundSnapshot(e, p)
         \/ \E deferred \in BOOLEAN : HandleEntitySpawn(e, p, deferred)
    \/ QueueUpdate \/ ApplyUpdate
    \/ Despawn(registered) \/ \E e \in registered : Despawn({e})
    \/ \E dt \in FrameTimes, cleans \in BOOLEAN : Frame(dt, cleans)
    \/ BackgroundInterpolate

\* The game draws frames, and an update in work is done with.
GoesOn ==
    \/ QueueUpdate \/ ApplyUpdate
    \/ \E dt \in FrameTimes, cleans \in BOOLEAN : Frame(dt, cleans)

RmFairness == WF_rmVars(GoesOn)

RmSpec == RmInit /\ [][RmNext]_rmVars /\ RmFairness

(***************************************************************************)
(* Properties.                                                             *)
(***************************************************************************)

\* Types, and the bounds of the ring.
RmTypeOK ==
    /\ clock \in 0..Horizon /\ mails \in 0..MailBound /\ registered \subseteq Bodies
    /\ \A e \in Bodies :
         /\ motion[e].head \in Slots /\ motion[e].count \in 0..RingSize
         /\ motion[e].delay \in Delays /\ motion[e].timer \in 0..SnapTime
         /\ Len(history[e]) <= RingSize + 1 /\ Cardinality(shown[e]) <= 1

\* The snapshots of h that the ring still has.
Kept(h) == {i \in DOMAIN h : i > Len(h) - RingSize}

\* Of equal times the snapshot that came last.
LastOf(h, I) == CHOOSE i \in I : \A j \in I : h[j].at < h[i].at \/ (h[j].at = h[i].at /\ j <= i)
FirstOf(h, I) == CHOOSE i \in I : \A j \in I : h[i].at < h[j].at \/ (h[j].at = h[i].at /\ j <= i)

SpeedBefore(h, i) ==
    IF i = 1 \/ h[i].at <= h[i - 1].at THEN 0 ELSE Abs((h[i].pos - h[i - 1].pos) \div (h[i].at - h[i - 1].at))

(* What is drawn follows from what was received, whatever the ring went    *)
(* through: on the straight line between the two messages around the       *)
(* moment drawn (interpolation.cpp:125, where english.md:618 promises a    *)
(* Hermite spline), rounded down to a unit; where the first one says when all *)
(* are younger; and past the last one at most ExtrapMax of its speed away, *)
(* and then where it says.  The correction on top of it is never longer    *)
(* than a teleport.                                                        *)
MotionSound ==
    \A e \in Bodies : history[e] # << >> =>
        LET h == history[e]
            t == clock - motion[e].delay
            past == {i \in Kept(h) : h[i].at <= t}
            next == {i \in Kept(h) : h[i].at >= t}
            p == InterpolateEntity(motion[e], clock)
            l == h[LastOf(h, past)]
            n == h[FirstOf(h, next)]
        IN /\ past = {} => p = n.pos
           /\ past # {} /\ next # {} =>
                IF l.at = n.at THEN p = l.pos
                ELSE (n.pos - l.pos) * (t - l.at) - (p - l.pos) * (n.at - l.at) \in 0 .. n.at - l.at - 1
           /\ next = {} => /\ Abs(p - l.pos) <= ExtrapMax * SpeedBefore(h, LastOf(h, past))
                           /\ t - l.at > ExtrapMax => p = l.pos
           /\ Abs(Correction(motion[e])) <= SnapMax

(* When no more mail comes, every body comes to stand where the youngest   *)
(* message about it says.                                                  *)
MotionSettles ==
    <>[](\A e \in registered : history[e] # << >> =>
           shown[e] = {history[e][LastOf(history[e], Kept(history[e]))].pos})
=============================================================================
