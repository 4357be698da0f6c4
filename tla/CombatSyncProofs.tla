-------------------------- MODULE CombatSyncProofs --------------------------
(***************************************************************************)
(* Proofs about knock-outs, deaths and wounds, for any number of clients,  *)
(* characters and blows and any size of the ring.                          *)
(*                                                                         *)
(* That no relayed knock-out comes back as a new one is a matter of        *)
(* counting: every report under way, in a ring or on a wire, stands for a  *)
(* blow of its own that has not been broadcast yet.  The reports of one    *)
(* character are therefore mapped, one to one, into the blows left.        *)
(***************************************************************************)
EXTENDS CombatSync, Integers, FiniteSetTheorems, TLAPS

-----------------------------------------------------------------------------
(* Counting by one-to-one maps.                                            *)

Fits(S, n) == \E g \in [S -> 1 .. n] : \A p, q \in S : g[p] = g[q] => p = q

\* What maps one to one into a set that fits, fits.
LEMMA FitsThrough ==
    ASSUME NEW S, NEW T, NEW n, Fits(S, n),
           NEW h \in [T -> S], \A p, q \in T : h[p] = h[q] => p = q
    PROVE  Fits(T, n)
<1>1. PICK g \in [S -> 1 .. n] : \A p, q \in S : g[p] = g[q] => p = q
  BY DEF Fits
<1> DEFINE k == [p \in T |-> g[h[p]]]
<1>2. k \in [T -> 1 .. n]
  BY <1>1
<1>3. \A p, q \in T : k[p] = k[q] => p = q
  BY <1>1
<1> HIDE DEF k
<1> QED
  BY <1>2, <1>3 DEF Fits

LEMMA FitsPart ==
    ASSUME NEW S, NEW T, NEW n, Fits(S, n), T \subseteq S
    PROVE  Fits(T, n)
<1> DEFINE h == [p \in T |-> p]
<1>1. h \in [T -> S] /\ \A p, q \in T : h[p] = h[q] => p = q
  OBVIOUS
<1> HIDE DEF h
<1> QED
  BY <1>1, FitsThrough

\* One blow more leaves room for one report more.
LEMMA FitsOneMore ==
    ASSUME NEW S, NEW n \in Nat, Fits(S, n), NEW x
    PROVE  Fits(S \cup {x}, n + 1)
<1>1. PICK g \in [S -> 1 .. n] : \A p, q \in S : g[p] = g[q] => p = q
  BY DEF Fits
<1> DEFINE k == [p \in S \cup {x} |-> IF p = x THEN n + 1 ELSE g[p]]
<1>2. \A p \in S : g[p] \in 1 .. n + 1 /\ g[p] # n + 1
  BY <1>1
<1>3. n + 1 \in 1 .. n + 1
  OBVIOUS
<1>4. k \in [S \cup {x} -> 1 .. n + 1]
  BY <1>2, <1>3
<1>5. \A p, q \in S \cup {x} : k[p] = k[q] => p = q
  BY <1>1, <1>2
<1> HIDE DEF k
<1> QED
  BY <1>4, <1>5 DEF Fits

\* A report that is gone had a blow, and leaves one less for the others.
LEMMA FitsOneLess ==
    ASSUME NEW S, NEW n \in Nat, Fits(S, n), NEW x \in S
    PROVE  n - 1 \in Nat /\ Fits(S \ {x}, n - 1)
<1>1. PICK g \in [S -> 1 .. n] : \A p, q \in S : g[p] = g[q] => p = q
  BY DEF Fits
<1> DEFINE k == [p \in S \ {x} |-> IF g[p] = n THEN g[x] ELSE g[p]]
<1>2. \A p \in S : g[p] \in 1 .. n
  BY <1>1
<1>3. n - 1 \in Nat
  BY <1>2
<1>4. ASSUME NEW p \in S \ {x} PROVE k[p] \in 1 .. n - 1
  <2>1. g[p] # g[x] /\ g[p] \in 1 .. n /\ g[x] \in 1 .. n
    BY <1>1, <1>2
  <2> QED
    BY <2>1
<1>5. k \in [S \ {x} -> 1 .. n - 1]
  BY <1>4
<1>6. \A p, q \in S \ {x} : k[p] = k[q] => p = q
  BY <1>1
<1> HIDE DEF k
<1> QED
  BY <1>3, <1>5, <1>6 DEF Fits

-----------------------------------------------------------------------------
(* The invariant.                                                          *)

Happenings == [kind : {"ko", "death"}, f : Fighters, other : Fighters \cup {Nobody}]

CombatTypes ==
    /\ alive \in [Fighters -> BOOLEAN]
    /\ online \in [Machines -> BOOLEAN]
    /\ body \in [Machines -> [Fighters -> {"up", "down", "dead"}]]
    /\ hurt \in [Machines -> [Fighters -> BOOLEAN]]
    /\ ring \in [Machines -> Seq(Happenings)]
    /\ \A m \in Machines : Len(ring[m]) < RingSize[m]
    /\ uplink \in [Machines -> Seq(Messages)]
    /\ ordered \in [Machines -> Seq(Messages)]
    /\ unordered \in [Machines -> Seq(Messages)]
    /\ commands \in [Machines -> Seq(Fighters)]
    /\ applying \in [Machines -> Fighters \cup {Nobody}]
    /\ knocked \in [Fighters -> Nat]
    /\ koCasts \in [Fighters -> Nat]
    /\ deathCasts \in [Fighters -> Nat]

\* The i-th message of q reports a knock-out of f.
TellsKO(q, i, f) == i \in 1 .. Len(q) /\ q[i].kind = "ko" /\ q[i].f = f

\* The reports of knock-outs of f under way, by machine and place.
Tickets(f) ==
    {p \in {"ring", "wire"} \X Machines \X Nat :
       TellsKO(IF p[1] = "ring" THEN ring[p[2]] ELSE uplink[p[2]], p[3], f)}

EachHasItsBlow ==
    \A f \in Fighters :
       /\ koCasts[f] <= knocked[f]
       /\ Fits(Tickets(f), knocked[f] - koCasts[f])

CombatInv == CombatTypes /\ DeathOnce /\ OneReporter /\ EachHasItsBlow

LEMMA MessageFacts ==
    /\ Happenings \subseteq Messages
    /\ \A e \in Happenings : e.f \in Fighters /\ e.kind \in {"ko", "death"}
    /\ \A e \in Messages :
         /\ e.f \in Fighters /\ e.kind \in {"ko", "death", "limbs"}
         /\ e.kind # "limbs" => e \in Happenings
         /\ e.kind = "limbs" => e.hurt \in BOOLEAN
    /\ \A f \in Fighters, other \in Fighters \cup {Nobody} :
         /\ Event("ko", f, other) \in Happenings /\ Event("ko", f, other).f = f
         /\ Event("death", f, other) \in Happenings /\ Event("death", f, other).kind = "death"
    /\ \A f \in Fighters, h \in BOOLEAN : Limbs(f, h) \in Messages /\ Limbs(f, h).kind = "limbs"
BY DEF Happenings, Messages, Event, Limbs

\* A step that starts no report keeps the count.
LEMMA TicketsKept ==
    ASSUME CombatInv, UNCHANGED <<knocked, koCasts>>, \A f \in Fighters : Tickets(f)' \subseteq Tickets(f)
    PROVE  EachHasItsBlow'
<1> SUFFICES ASSUME NEW f \in Fighters
             PROVE  koCasts[f] <= knocked[f] /\ Fits(Tickets(f)', knocked[f] - koCasts[f])
  BY DEF EachHasItsBlow
<1>1. koCasts[f] <= knocked[f] /\ Fits(Tickets(f), knocked[f] - koCasts[f])
  BY DEF CombatInv, EachHasItsBlow
<1> QED
  BY <1>1, FitsPart

LEMMA TicketsSame ==
    ASSUME CombatInv, UNCHANGED <<knocked, koCasts, ring, uplink>>
    PROVE  EachHasItsBlow'
<1>1. \A f \in Fighters : Tickets(f)' \subseteq Tickets(f)
  BY DEF Tickets
<1> QED
  BY <1>1, TicketsKept

\* PushEvent adds at most one report.
LEMMA PushIsBounded ==
    ASSUME CombatInv, NEW m \in Machines, NEW e \in Happenings, PushEvent(m, e)
    PROVE  /\ ring' \in [Machines -> Seq(Happenings)]
           /\ \A d \in Machines : Len(ring'[d]) < RingSize[d]
           /\ ring' = ring \/ ring' = [ring EXCEPT ![m] = Append(@, e)]
<1>1. /\ ring \in [Machines -> Seq(Happenings)] /\ RingSize \in [Machines -> Nat]
      /\ \A d \in Machines : Len(ring[d]) < RingSize[d]
  BY CombatAssumption DEF CombatInv, CombatTypes
<1>2. CASE Room(m)
  <2>1. ring' = [ring EXCEPT ![m] = Append(@, e)]
    BY <1>2 DEF PushEvent
  <2>2. Append(ring[m], e) \in Seq(Happenings) /\ Len(Append(ring[m], e)) = Len(ring[m]) + 1
    BY <1>1
  <2>3. Len(ring[m]) \in Nat /\ Len(ring[m]) + 1 < RingSize[m]
    BY <1>1, <1>2 DEF Room
  <2> QED
    BY <1>1, <2>1, <2>2, <2>3
<1>3. CASE ~Room(m)
  BY <1>1, <1>3 DEF PushEvent
<1> QED
  BY <1>2, <1>3

\* Where the reports are once one was added to the ring.
LEMMA PushedTickets ==
    ASSUME CombatInv, NEW m \in Machines, NEW e \in Happenings, UNCHANGED uplink,
           ring' = ring \/ ring' = [ring EXCEPT ![m] = Append(@, e)],
           NEW f \in Fighters
    PROVE  /\ Tickets(f)' \subseteq Tickets(f) \cup {<<"ring", m, Len(ring[m]) + 1>>}
           /\ ~(e.kind = "ko" /\ e.f = f) => Tickets(f)' \subseteq Tickets(f)
<1>1. ring \in [Machines -> Seq(Happenings)]
  BY DEF CombatInv, CombatTypes
<1>2. CASE ring' = ring
  BY <1>2 DEF Tickets
<1>3. CASE ring' = [ring EXCEPT ![m] = Append(@, e)]
  <2>1. /\ ring'[m] = Append(ring[m], e) /\ \A d \in Machines \ {m} : ring'[d] = ring[d]
        /\ Len(ring'[m]) = Len(ring[m]) + 1 /\ ring'[m][Len(ring[m]) + 1] = e
        /\ \A i \in 1 .. Len(ring[m]) : ring'[m][i] = ring[m][i]
        /\ Len(ring[m]) \in Nat
    BY <1>1, <1>3
  <2>2. ASSUME NEW p \in {"ring", "wire"}, NEW d \in Machines, NEW i \in Nat, <<p, d, i>> \in Tickets(f)'
        PROVE  \/ <<p, d, i>> \in Tickets(f)
               \/ p = "ring" /\ d = m /\ i = Len(ring[m]) + 1 /\ e.kind = "ko" /\ e.f = f
    <3>1. TellsKO(IF p = "ring" THEN ring'[d] ELSE uplink[d], i, f)
      BY <2>2 DEF Tickets
    <3>2. CASE p = "ring" /\ d = m
      <4>1. i \in 1 .. Len(ring[m]) + 1 /\ ring'[m][i].kind = "ko" /\ ring'[m][i].f = f
        BY <2>1, <3>1, <3>2 DEF TellsKO
      <4>2. CASE i = Len(ring[m]) + 1
        BY <2>1, <3>2, <4>1, <4>2
      <4>3. CASE i # Len(ring[m]) + 1
        <5>1. i \in 1 .. Len(ring[m])
          BY <2>1, <4>1, <4>3
        <5>2. TellsKO(ring[m], i, f)
          BY <2>1, <4>1, <5>1 DEF TellsKO
        <5> QED
          BY <3>2, <5>2 DEF Tickets
      <4> QED
        BY <4>2, <4>3
    <3>3. CASE ~(p = "ring" /\ d = m)
      BY <2>1, <3>1, <3>3 DEF Tickets
    <3> QED
      BY <3>2, <3>3
  <2>3. \A z \in Tickets(f)' : z = <<z[1], z[2], z[3]>> /\ z[1] \in {"ring", "wire"}
                                 /\ z[2] \in Machines /\ z[3] \in Nat
    BY DEF Tickets
  <2> QED
    BY <2>2, <2>3
<1> QED
  BY <1>2, <1>3

\* A cast adds the message for those it goes to.
LEMMA Casting ==
    ASSUME NEW S, NEW ch \in [Machines -> Seq(S)], NEW to, NEW e \in S
    PROVE  /\ Cast(ch, to, e) \in [Machines -> Seq(S)]
           /\ \A m \in Machines : Cast(ch, to, e)[m] = IF m \in to THEN Append(ch[m], e) ELSE ch[m]
<1>1. \A m \in Machines : ch[m] \in Seq(S) /\ Append(ch[m], e) \in Seq(S)
  OBVIOUS
<1> QED
  BY <1>1 DEF Cast

\* Limb values that do not go to the character's owner leave it the one reporter.
LEMMA CastKeepsReporter ==
    ASSUME CombatInv, NEW to, NEW e \in Messages, unordered' = Cast(unordered, to, e),
           e.kind = "limbs" => OwnerOf[e.f] \notin to
    PROVE  OneReporter' /\ unordered' \in [Machines -> Seq(Messages)]
<1>1. unordered \in [Machines -> Seq(Messages)]
  BY DEF CombatInv, CombatTypes
<1>2. /\ unordered' \in [Machines -> Seq(Messages)]
      /\ \A m \in Machines : unordered'[m] = IF m \in to THEN Append(unordered[m], e) ELSE unordered[m]
  BY <1>1, Casting
<1>3. ASSUME NEW m \in Machines, NEW i \in DOMAIN unordered'[m], unordered'[m][i].kind = "limbs"
      PROVE  OwnerOf[unordered'[m][i].f] # m
  <2>1. CASE m \notin to
    BY <1>2, <1>3, <2>1 DEF CombatInv, OneReporter
  <2>2. CASE m \in to
    <3>1. /\ unordered'[m] = Append(unordered[m], e) /\ Len(unordered[m]) \in Nat
          /\ DOMAIN unordered'[m] = 1 .. Len(unordered[m]) + 1 /\ DOMAIN unordered[m] = 1 .. Len(unordered[m])
          /\ unordered'[m][Len(unordered[m]) + 1] = e
          /\ \A j \in 1 .. Len(unordered[m]) : unordered'[m][j] = unordered[m][j]
      <4>1. unordered[m] \in Seq(Messages) /\ unordered'[m] = Append(unordered[m], e)
        BY <1>1, <1>2, <2>2
      <4> QED
        BY <4>1
    <3>2. CASE i = Len(unordered[m]) + 1
      BY <1>3, <2>2, <3>1, <3>2
    <3>3. CASE i # Len(unordered[m]) + 1
      <4>1. i \in 1 .. Len(unordered[m])
        BY <3>1, <3>3
      <4> QED
        BY <1>3, <3>1, <4>1 DEF CombatInv, OneReporter
    <3> QED
      BY <3>2, <3>3
  <2> QED
    BY <2>1, <2>2
<1> QED
  BY <1>2, <1>3 DEF OneReporter

\* A blow of the game itself brings at most the one report it accounts for.
LEMMA CombatGameKO ==
    ASSUME CombatInv, NEW m \in Machines, NEW f \in Fighters, NEW other \in Fighters \cup {Nobody},
           GameKO(m, f, other)
    PROVE  CombatInv'
<1> DEFINE e == Event("ko", f, other)
<1>1. /\ body' = [body EXCEPT ![m][f] = "down"] /\ knocked' = [knocked EXCEPT ![f] = @ + 1]
      /\ ring' = ring \/ PushEvent(m, e)
      /\ UNCHANGED <<alive, online, hurt, applying, commands, uplink, ordered, unordered, koCasts, deathCasts>>
  BY DEF GameKO, HookKO, network
<1>2. e \in Happenings
  BY MessageFacts
<1> HIDE DEF e
<1>3. /\ ring' \in [Machines -> Seq(Happenings)] /\ \A d \in Machines : Len(ring'[d]) < RingSize[d]
      /\ ring' = ring \/ ring' = [ring EXCEPT ![m] = Append(@, e)]
  BY <1>1, <1>2, PushIsBounded DEF CombatInv, CombatTypes
<1>4. /\ knocked' \in [Fighters -> Nat] /\ knocked'[f] = knocked[f] + 1
      /\ \A g \in Fighters \ {f} : knocked'[g] = knocked[g]
  BY <1>1 DEF CombatInv, CombatTypes
<1>5. CombatTypes'
  <2>1. body' \in [Machines -> [Fighters -> {"up", "down", "dead"}]]
    BY <1>1 DEF CombatInv, CombatTypes
  <2> QED
    BY <1>1, <1>3, <1>4, <2>1 DEF CombatInv, CombatTypes
<1>6. ASSUME NEW g \in Fighters
      PROVE  koCasts[g] <= knocked'[g] /\ Fits(Tickets(g)', knocked'[g] - koCasts[g])
  <2>1. /\ koCasts[g] <= knocked[g] /\ Fits(Tickets(g), knocked[g] - koCasts[g])
        /\ koCasts[g] \in Nat /\ knocked[g] \in Nat
    BY DEF CombatInv, CombatTypes, EachHasItsBlow
  <2>2. CASE g = f
    <3>0. knocked[g] - koCasts[g] \in Nat
      BY <2>1
    <3>1. Fits(Tickets(g) \cup {<<"ring", m, Len(ring[m]) + 1>>}, (knocked[g] - koCasts[g]) + 1)
      BY <2>1, <3>0, FitsOneMore
    <3>2. (knocked[g] - koCasts[g]) + 1 = knocked'[g] - koCasts[g] /\ koCasts[g] <= knocked'[g]
      BY <1>4, <2>1, <2>2
    <3>3. Tickets(g)' \subseteq Tickets(g) \cup {<<"ring", m, Len(ring[m]) + 1>>}
      BY <1>1, <1>2, <1>3, PushedTickets
    <3>4. Fits(Tickets(g)', (knocked[g] - koCasts[g]) + 1)
      BY <3>1, <3>3, FitsPart
    <3> QED
      BY <3>2, <3>4
  <2>3. CASE g # f
    <3>1. e.f # g
      BY <2>3, MessageFacts DEF e
    <3>2. Tickets(g)' \subseteq Tickets(g)
      BY <1>1, <1>2, <1>3, <3>1, PushedTickets
    <3>3. Fits(Tickets(g)', knocked[g] - koCasts[g])
      BY <2>1, <3>2, FitsPart
    <3> QED
      BY <1>4, <2>1, <2>3, <3>3
  <2> QED
    BY <2>2, <2>3
<1>7. EachHasItsBlow'
  BY <1>1, <1>6 DEF EachHasItsBlow
<1>8. DeathOnce' /\ OneReporter'
  BY <1>1 DEF CombatInv, DeathOnce, OneReporter
<1> QED
  BY <1>5, <1>7, <1>8 DEF CombatInv

\* A death of the game itself: its report is none of a knock-out.
LEMMA CombatGameDeath ==
    ASSUME CombatInv, NEW m \in Machines, NEW f \in Fighters, NEW other \in Fighters \cup {Nobody},
           GameDeath(m, f, other)
    PROVE  CombatInv'
<1> DEFINE e == Event("death", f, other)
<1>1. /\ body' = [body EXCEPT ![m][f] = "dead"]
      /\ ring' = ring \/ PushEvent(m, e)
      /\ UNCHANGED <<alive, online, hurt, applying, commands, uplink, ordered, unordered, knocked,
                     koCasts, deathCasts>>
  BY DEF GameDeath, HookDeath, network
<1>2. e \in Happenings /\ e.kind = "death"
  BY MessageFacts
<1> HIDE DEF e
<1>3. /\ ring' \in [Machines -> Seq(Happenings)] /\ \A d \in Machines : Len(ring'[d]) < RingSize[d]
      /\ ring' = ring \/ ring' = [ring EXCEPT ![m] = Append(@, e)]
  BY <1>1, <1>2, PushIsBounded DEF CombatInv, CombatTypes
<1>4. CombatTypes'
  <2>1. body' \in [Machines -> [Fighters -> {"up", "down", "dead"}]]
    BY <1>1 DEF CombatInv, CombatTypes
  <2> QED
    BY <1>1, <1>3, <2>1 DEF CombatInv, CombatTypes
<1>5. \A g \in Fighters : Tickets(g)' \subseteq Tickets(g)
  BY <1>1, <1>2, <1>3, PushedTickets
<1>6. EachHasItsBlow'
  BY <1>1, <1>5, TicketsKept
<1>7. DeathOnce' /\ OneReporter'
  BY <1>1 DEF CombatInv, DeathOnce, OneReporter
<1> QED
  BY <1>4, <1>6, <1>7 DEF CombatInv

\* Steps of a client that report nothing.
LEMMA CombatQuietSteps ==
    ASSUME CombatInv, NEW m \in Machines,
           \/ \E f \in Fighters : GameWound(m, f)
           \/ \E f, target \in Fighters : HandleAttackIntent(m, f, target)
           \/ RunDeathCommand(m) \/ ReceiveOrdered(m) \/ ApplyKO(m)
    PROVE  CombatInv'
<1>1. ASSUME NEW f \in Fighters, GameWound(m, f) PROVE CombatInv'
  <2>1. /\ hurt' = [hurt EXCEPT ![m][f] = TRUE]
        /\ UNCHANGED <<alive, online, body, client, network, knocked, koCasts, deathCasts>>
    BY <1>1 DEF GameWound
  <2>2. hurt' \in [Machines -> [Fighters -> BOOLEAN]]
    BY <2>1 DEF CombatInv, CombatTypes
  <2>3. EachHasItsBlow'
    BY <2>1, TicketsSame DEF client, network
  <2> QED
    BY <2>1, <2>2, <2>3 DEF client, network, CombatInv, CombatTypes, DeathOnce, OneReporter
<1>2. ASSUME NEW f \in Fighters, NEW target \in Fighters, HandleAttackIntent(m, f, target) PROVE CombatInv'
  <2>1. UNCHANGED <<alive, ordered, unordered, online, game, client, uplink, knocked, koCasts, deathCasts>>
    BY <1>2 DEF HandleAttackIntent, CanClientCommandEntity, Authority
  <2>2. EachHasItsBlow'
    BY <2>1, TicketsSame DEF client, network
  <2> QED
    BY <2>1, <2>2 DEF game, client, CombatInv, CombatTypes, DeathOnce, OneReporter
<1>3. CASE RunDeathCommand(m)
  <2> DEFINE f == Head(commands[m])
  <2>1. /\ commands[m] # << >> /\ commands' = [commands EXCEPT ![m] = Tail(@)]
        /\ body' = [body EXCEPT ![m][f] = "dead"]
        /\ hurt' \in {hurt, [hurt EXCEPT ![m][f] = TRUE]}
        /\ UNCHANGED <<ring, dropped, alive, online, applying, network, knocked, koCasts, deathCasts>>
    BY <1>3 DEF RunDeathCommand, HookDeath
  <2>2. commands \in [Machines -> Seq(Fighters)]
    BY DEF CombatInv, CombatTypes
  <2>3. f \in Fighters /\ Tail(commands[m]) \in Seq(Fighters)
    BY <2>1, <2>2
  <2> HIDE DEF f
  <2>4. commands' \in [Machines -> Seq(Fighters)]
    BY <2>1, <2>2, <2>3
  <2>5. hurt' \in [Machines -> [Fighters -> BOOLEAN]]
    <3>1. hurt \in [Machines -> [Fighters -> BOOLEAN]]
      BY DEF CombatInv, CombatTypes
    <3>2. [hurt EXCEPT ![m][f] = TRUE] \in [Machines -> [Fighters -> BOOLEAN]]
      BY <2>3, <3>1
    <3> QED
      BY <2>1, <3>1, <3>2
  <2>6. body' \in [Machines -> [Fighters -> {"up", "down", "dead"}]]
    BY <2>1, <2>3 DEF CombatInv, CombatTypes
  <2>7. EachHasItsBlow'
    BY <2>1, TicketsSame DEF network
  <2> QED
    BY <2>1, <2>4, <2>5, <2>6, <2>7 DEF network, CombatInv, CombatTypes, DeathOnce, OneReporter
<1>4. CASE ReceiveOrdered(m)
  <2> DEFINE f == Head(ordered[m]).f
  <2>1. /\ ordered[m] # << >> /\ ordered' = [ordered EXCEPT ![m] = Tail(@)]
        /\ commands' = [commands EXCEPT ![m] = Append(@, f)]
        /\ UNCHANGED <<alive, online, game, ring, dropped, applying, uplink, unordered, tallies>>
    BY <1>4 DEF ReceiveOrdered, QueueDeath
  <2>2. commands \in [Machines -> Seq(Fighters)] /\ ordered \in [Machines -> Seq(Messages)]
    BY DEF CombatInv, CombatTypes
  <2>3. Head(ordered[m]) \in Messages /\ Tail(ordered[m]) \in Seq(Messages)
    BY <2>1, <2>2
  <2>4. f \in Fighters
    BY <2>3, MessageFacts
  <2> HIDE DEF f
  <2>5. Append(commands[m], f) \in Seq(Fighters)
    BY <2>2, <2>4
  <2>6. commands' \in [Machines -> Seq(Fighters)] /\ ordered' \in [Machines -> Seq(Messages)]
    BY <2>1, <2>2, <2>3, <2>5
  <2>7. EachHasItsBlow'
    BY <2>1, TicketsSame DEF tallies
  <2> QED
    BY <2>1, <2>6, <2>7 DEF game, tallies, CombatInv, CombatTypes, DeathOnce, OneReporter
<1>5. CASE ApplyKO(m)
  <2> DEFINE f == applying[m]
  <2>1. /\ f # Nobody /\ body' \in {body, KnockedOut(m, f)}
        /\ hurt' \in {hurt, [hurt EXCEPT ![m][f] = TRUE]}
        /\ applying' = [applying EXCEPT ![m] = Nobody]
        /\ UNCHANGED <<ring, dropped, alive, online, commands, network, knocked, koCasts, deathCasts>>
    BY <1>5 DEF ApplyKO, HookKO
  <2>2. f \in Fighters /\ applying' \in [Machines -> Fighters \cup {Nobody}]
    BY <2>1 DEF CombatInv, CombatTypes
  <2> HIDE DEF f
  <2>3. body' \in [Machines -> [Fighters -> {"up", "down", "dead"}]]
    <3>1. body \in [Machines -> [Fighters -> {"up", "down", "dead"}]]
      BY DEF CombatInv, CombatTypes
    <3>2. KnockedOut(m, f) \in [Machines -> [Fighters -> {"up", "down", "dead"}]]
      BY <2>2, <3>1 DEF KnockedOut
    <3> QED
      BY <2>1, <3>1, <3>2
  <2>4. hurt' \in [Machines -> [Fighters -> BOOLEAN]]
    <3>1. hurt \in [Machines -> [Fighters -> BOOLEAN]]
      BY DEF CombatInv, CombatTypes
    <3>2. [hurt EXCEPT ![m][f] = TRUE] \in [Machines -> [Fighters -> BOOLEAN]]
      BY <2>2, <3>1
    <3> QED
      BY <2>1, <3>1, <3>2
  <2>5. EachHasItsBlow'
    BY <2>1, TicketsSame DEF network
  <2> QED
    BY <2>1, <2>2, <2>3, <2>4, <2>5 DEF network, CombatInv, CombatTypes, DeathOnce, OneReporter
<1> QED
  BY <1>1, <1>2, <1>3, <1>4, <1>5

LEMMA TailFacts ==
    ASSUME NEW S, NEW q \in Seq(S), q # << >>
    PROVE  /\ Len(q) \in Nat /\ 1 \in 1 .. Len(q) /\ Head(q) = q[1] /\ Head(q) \in S
           /\ Tail(q) \in Seq(S) /\ Len(Tail(q)) = Len(q) - 1
           /\ \A i \in 1 .. Len(q) - 1 : Tail(q)[i] = q[i + 1] /\ i + 1 \in 1 .. Len(q)
<1>1. /\ Len(q) \in Nat /\ Len(q) # 0 /\ Head(q) = q[1] /\ Tail(q) \in Seq(S)
      /\ Len(Tail(q)) = Len(q) - 1
  OBVIOUS
<1>2. \A i \in 1 .. Len(q) - 1 : Tail(q)[i] = q[i + 1]
  OBVIOUS
<1> QED
  BY <1>1, <1>2

LEMMA TicketShape ==
    ASSUME NEW f, NEW z \in Tickets(f)
    PROVE  /\ z = <<z[1], z[2], z[3]>> /\ z[1] \in {"ring", "wire"} /\ z[2] \in Machines /\ z[3] \in Nat
           /\ z[1] = "ring" => TellsKO(ring[z[2]], z[3], f)
           /\ z[1] = "wire" => TellsKO(uplink[z[2]], z[3], f)
BY DEF Tickets

\* The server takes the first message of a wire: the others move up.
LEMMA ShiftedTickets ==
    ASSUME CombatInv, NEW m \in Machines, uplink[m] # << >>, ring' = ring,
           uplink' = [uplink EXCEPT ![m] = Tail(@)], NEW f \in Fighters, NEW n,
           Fits(Tickets(f) \ {<<"wire", m, 1>>}, n)
    PROVE  Fits(Tickets(f)', n)
<1> DEFINE T == Tickets(f)'
           S == Tickets(f) \ {<<"wire", m, 1>>}
           h == [z \in T |-> IF z[1] = "wire" /\ z[2] = m THEN <<"wire", m, z[3] + 1>> ELSE z]
<1>1. uplink \in [Machines -> Seq(Messages)]
  BY DEF CombatInv, CombatTypes
<1>2. /\ Len(uplink[m]) \in Nat /\ Len(uplink'[m]) = Len(uplink[m]) - 1
      /\ \A i \in 1 .. Len(uplink[m]) - 1 : uplink'[m][i] = uplink[m][i + 1] /\ i + 1 \in 1 .. Len(uplink[m])
      /\ \A d \in Machines \ {m} : uplink'[d] = uplink[d]
  <2>1. uplink'[m] = Tail(uplink[m]) /\ \A d \in Machines \ {m} : uplink'[d] = uplink[d]
    BY <1>1
  <2> QED
    BY <1>1, <2>1, TailFacts
<1>3. ASSUME NEW z \in T
      PROVE  /\ z = <<z[1], z[2], z[3]>> /\ z[1] \in {"ring", "wire"} /\ z[2] \in Machines /\ z[3] \in Nat
             /\ z[1] = "ring" => TellsKO(ring[z[2]], z[3], f)
             /\ z[1] = "wire" => TellsKO(uplink'[z[2]], z[3], f)
  BY DEF Tickets
<1>4. ASSUME NEW z \in T PROVE h[z] \in S
  <2>1. CASE z[1] = "wire" /\ z[2] = m
    <3>1. /\ h[z] = <<"wire", m, z[3] + 1>> /\ TellsKO(uplink'[m], z[3], f) /\ z[3] \in Nat
      BY <1>3, <2>1
    <3>2. TellsKO(uplink[m], z[3] + 1, f) /\ z[3] + 1 # 1 /\ z[3] + 1 \in Nat
      <4>1. z[3] \in 1 .. Len(uplink[m]) - 1 /\ z[3] + 1 # 1 /\ z[3] + 1 \in Nat
        BY <1>2, <3>1 DEF TellsKO
      <4> QED
        BY <1>2, <3>1, <4>1 DEF TellsKO
    <3>3. <<"wire", m, z[3] + 1>> \in Tickets(f)
      BY <3>2 DEF Tickets
    <3> QED
      BY <3>1, <3>2, <3>3
  <2>2. CASE ~(z[1] = "wire" /\ z[2] = m)
    <3>1. h[z] = z /\ z # <<"wire", m, 1>>
      BY <2>2
    <3>2. z \in Tickets(f)
      BY <1>2, <1>3, <2>2 DEF Tickets
    <3> QED
      BY <3>1, <3>2
  <2> QED
    BY <2>1, <2>2
<1>5. ASSUME NEW y \in T, NEW z \in T, h[y] = h[z] PROVE y = z
  <2>1. CASE y[1] = "wire" /\ y[2] = m /\ z[1] = "wire" /\ z[2] = m
    <3>1. <<"wire", m, y[3] + 1>> = <<"wire", m, z[3] + 1>>
      BY <1>5, <2>1
    <3>2. y[3] = z[3]
      BY <1>3, <3>1
    <3> QED
      BY <1>3, <2>1, <3>2
  <2>2. CASE ~(y[1] = "wire" /\ y[2] = m) \/ ~(z[1] = "wire" /\ z[2] = m)
    BY <1>5, <2>2
  <2> QED
    BY <2>1, <2>2
<1>6. h \in [T -> S]
  BY <1>4
<1> HIDE DEF h, T, S
<1>7. Fits(T, n)
  BY <1>5, <1>6, FitsThrough DEF S
<1> QED
  BY <1>7 DEF T

\* The server handles a report: a knock-out it casts uses up the blow behind it,
\* the first death of a character is the only one it casts.
LEMMA CombatServerReceive ==
    ASSUME CombatInv, NEW m \in Machines, ServerReceive(m)
    PROVE  CombatInv'
<1> DEFINE e == Head(uplink[m])
<1>1. /\ uplink[m] # << >> /\ uplink' = [uplink EXCEPT ![m] = Tail(@)]
      /\ \/ e.kind = "ko" /\ HandleCombatKO(m, e)
         \/ e.kind = "death" /\ HandleCombatDeath(m, e)
         \/ e.kind = "limbs" /\ HandleLimbHealth(m, e)
      /\ UNCHANGED <<online, game, client, knocked>>
  BY DEF ServerReceive
<1>2. uplink \in [Machines -> Seq(Messages)] /\ ordered \in [Machines -> Seq(Messages)]
  BY DEF CombatInv, CombatTypes
<1>3. e \in Messages /\ Tail(uplink[m]) \in Seq(Messages) /\ e = uplink[m][1] /\ 1 \in 1 .. Len(uplink[m])
  BY <1>1, <1>2, TailFacts
<1> HIDE DEF e
<1>4. e.f \in Fighters
  BY <1>3, MessageFacts
<1>5. uplink' \in [Machines -> Seq(Messages)]
  BY <1>1, <1>2, <1>3
<1>6. ASSUME NEW f \in Fighters
      PROVE  /\ koCasts[f] <= knocked[f] /\ Fits(Tickets(f), knocked[f] - koCasts[f])
             /\ koCasts[f] \in Nat /\ knocked[f] \in Nat /\ knocked[f] - koCasts[f] \in Nat
             /\ Fits(Tickets(f)', knocked[f] - koCasts[f])
  <2>1. /\ koCasts[f] <= knocked[f] /\ Fits(Tickets(f), knocked[f] - koCasts[f])
        /\ koCasts[f] \in Nat /\ knocked[f] \in Nat
    BY DEF CombatInv, CombatTypes, EachHasItsBlow
  <2>2. Fits(Tickets(f) \ {<<"wire", m, 1>>}, knocked[f] - koCasts[f])
    BY <2>1, FitsPart
  <2>3. Fits(Tickets(f)', knocked[f] - koCasts[f])
    BY <1>1, <2>2, ShiftedTickets DEF client
  <2> QED
    BY <2>1, <2>3
<1>7. UNCHANGED koCasts => EachHasItsBlow'
  BY <1>1, <1>6 DEF EachHasItsBlow
<1>8. CASE e.kind = "ko" /\ HandleCombatKO(m, e)
  <2>1. CASE ~(alive[e.f] /\ (Owns(m, e.f) \/ Owns(m, e.other)))
    <3>1. UNCHANGED <<alive, ordered, unordered, koCasts, deathCasts>>
      BY <1>8, <2>1 DEF HandleCombatKO
    <3> QED
      BY <1>1, <1>5, <1>7, <3>1 DEF game, client, CombatInv, CombatTypes, DeathOnce, OneReporter
  <2>2. CASE alive[e.f] /\ (Owns(m, e.f) \/ Owns(m, e.other))
    <3>1. /\ unordered' = Cast(unordered, Online, e) /\ koCasts' = [koCasts EXCEPT ![e.f] = @ + 1]
          /\ UNCHANGED <<alive, ordered, deathCasts>>
      BY <1>8, <2>2 DEF HandleCombatKO
    <3>2. OneReporter' /\ unordered' \in [Machines -> Seq(Messages)]
      BY <1>3, <1>8, <3>1, CastKeepsReporter
    <3>3. /\ koCasts' \in [Fighters -> Nat] /\ koCasts'[e.f] = koCasts[e.f] + 1
          /\ \A f \in Fighters \ {e.f} : koCasts'[f] = koCasts[f]
      BY <1>4, <3>1 DEF CombatInv, CombatTypes
    <3>4. ASSUME NEW f \in Fighters
          PROVE  koCasts'[f] <= knocked[f] /\ Fits(Tickets(f)', knocked[f] - koCasts'[f])
      <4>1. CASE f = e.f
        <5>1. <<"wire", m, 1>> \in Tickets(f)
          BY <1>3, <1>8, <4>1 DEF Tickets, TellsKO
        <5>2. /\ (knocked[f] - koCasts[f]) - 1 \in Nat
              /\ Fits(Tickets(f) \ {<<"wire", m, 1>>}, (knocked[f] - koCasts[f]) - 1)
          BY <1>6, <5>1, FitsOneLess
        <5>3. Fits(Tickets(f)', (knocked[f] - koCasts[f]) - 1)
          BY <1>1, <5>2, ShiftedTickets DEF client
        <5>4. (knocked[f] - koCasts[f]) - 1 = knocked[f] - koCasts'[f] /\ koCasts'[f] <= knocked[f]
          BY <1>6, <3>3, <4>1, <5>2
        <5> QED
          BY <5>3, <5>4
      <4>2. CASE f # e.f
        BY <1>6, <3>3, <4>2
      <4> QED
        BY <4>1, <4>2
    <3>5. EachHasItsBlow'
      BY <1>1, <3>4 DEF EachHasItsBlow
    <3> QED
      BY <1>1, <1>5, <3>1, <3>2, <3>3, <3>5 DEF game, client, CombatInv, CombatTypes, DeathOnce
  <2> QED
    BY <2>1, <2>2
<1>9. CASE e.kind = "death" /\ HandleCombatDeath(m, e)
  <2>1. CASE ~(alive[e.f] /\ (Owns(m, e.f) \/ Owns(m, e.other)))
    <3>1. UNCHANGED <<alive, ordered, unordered, koCasts, deathCasts>>
      BY <1>9, <2>1 DEF HandleCombatDeath
    <3> QED
      BY <1>1, <1>5, <1>7, <3>1 DEF game, client, CombatInv, CombatTypes, DeathOnce, OneReporter
  <2>2. CASE alive[e.f] /\ (Owns(m, e.f) \/ Owns(m, e.other))
    <3>1. /\ alive' = [alive EXCEPT ![e.f] = FALSE] /\ ordered' = Cast(ordered, Online, e)
          /\ deathCasts' = [deathCasts EXCEPT ![e.f] = @ + 1] /\ UNCHANGED <<unordered, koCasts>>
      BY <1>9, <2>2 DEF HandleCombatDeath
    <3>2. ordered' \in [Machines -> Seq(Messages)]
      <4> DEFINE to == Online
      <4> HIDE DEF to
      <4>1. Cast(ordered, to, e) \in [Machines -> Seq(Messages)]
        BY <1>2, <1>3, Casting
      <4> QED
        BY <3>1, <4>1 DEF to
    <3>3. /\ alive' \in [Fighters -> BOOLEAN] /\ ~alive'[e.f]
          /\ \A f \in Fighters \ {e.f} : alive'[f] = alive[f]
      BY <1>4, <3>1 DEF CombatInv, CombatTypes
    <3>4. /\ deathCasts' \in [Fighters -> Nat] /\ deathCasts'[e.f] = deathCasts[e.f] + 1
          /\ \A f \in Fighters \ {e.f} : deathCasts'[f] = deathCasts[f]
      BY <1>4, <3>1 DEF CombatInv, CombatTypes
    <3>5. ASSUME NEW f \in Fighters PROVE deathCasts'[f] = (IF alive'[f] THEN 0 ELSE 1)
      <4>1. CASE f = e.f
        <5>1. deathCasts[f] = 0
          BY <1>4, <2>2, <4>1 DEF CombatInv, DeathOnce
        <5> QED
          BY <3>3, <3>4, <4>1, <5>1
      <4>2. CASE f # e.f
        BY <3>3, <3>4, <4>2 DEF CombatInv, DeathOnce
      <4> QED
        BY <4>1, <4>2
    <3>6. DeathOnce'
      BY <3>5 DEF DeathOnce
    <3> QED
      BY <1>1, <1>5, <1>7, <3>1, <3>2, <3>3, <3>4, <3>6 DEF game, client, CombatInv, CombatTypes, OneReporter
  <2> QED
    BY <2>1, <2>2
<1>10. CASE e.kind = "limbs" /\ HandleLimbHealth(m, e)
  <2>1. UNCHANGED <<alive, ordered, koCasts, deathCasts>>
    BY <1>10 DEF HandleLimbHealth
  <2>2. OneReporter' /\ unordered' \in [Machines -> Seq(Messages)]
    <3>1. CASE Owns(m, e.f)
      <4>1. unordered' = Cast(unordered, Online \ {m}, e) /\ OwnerOf[e.f] = m
        BY <1>10, <3>1 DEF HandleLimbHealth, Owns
      <4> QED
        BY <1>3, <4>1, CastKeepsReporter
    <3>2. CASE ~Owns(m, e.f)
      <4>1. unordered' = unordered
        BY <1>10, <3>2 DEF HandleLimbHealth
      <4> QED
        BY <4>1 DEF CombatInv, CombatTypes, OneReporter
    <3> QED
      BY <3>1, <3>2
  <2> QED
    BY <1>1, <1>5, <1>7, <2>1, <2>2 DEF game, client, CombatInv, CombatTypes, DeathOnce
<1> QED
  BY <1>1, <1>8, <1>9, <1>10

\* The network thread takes a message: the others move up.
LEMMA CombatReceiveUnordered ==
    ASSUME CombatInv, NEW m \in Machines, ReceiveUnordered(m)
    PROVE  CombatInv'
<1> DEFINE e == Head(unordered[m])
<1>1. /\ unordered[m] # << >> /\ unordered' = [unordered EXCEPT ![m] = Tail(@)]
      /\ \/ applying' = [applying EXCEPT ![m] = e.f] /\ UNCHANGED hurt
         \/ e.kind = "limbs" /\ hurt' = [hurt EXCEPT ![m][e.f] = e.hurt] /\ UNCHANGED applying
      /\ UNCHANGED <<alive, online, body, sent, ring, dropped, commands, uplink, ordered, tallies>>
  BY DEF ReceiveUnordered
<1>2. unordered \in [Machines -> Seq(Messages)]
  BY DEF CombatInv, CombatTypes
<1>3. /\ e \in Messages /\ Tail(unordered[m]) \in Seq(Messages)
      /\ Len(unordered[m]) \in Nat /\ Len(Tail(unordered[m])) = Len(unordered[m]) - 1
      /\ \A i \in 1 .. Len(unordered[m]) - 1 : /\ Tail(unordered[m])[i] = unordered[m][i + 1]
                                                /\ i + 1 \in 1 .. Len(unordered[m])
  BY <1>1, <1>2, TailFacts
<1> HIDE DEF e
<1>4. e.f \in Fighters /\ (e.kind = "limbs" => e.hurt \in BOOLEAN)
  BY <1>3, MessageFacts
<1>5. /\ unordered' \in [Machines -> Seq(Messages)] /\ unordered'[m] = Tail(unordered[m])
      /\ \A d \in Machines \ {m} : unordered'[d] = unordered[d]
  BY <1>1, <1>2, <1>3
<1>6. OneReporter'
  <2>1. ASSUME NEW d \in Machines, NEW i \in DOMAIN unordered'[d], unordered'[d][i].kind = "limbs"
        PROVE  OwnerOf[unordered'[d][i].f] # d
    <3>1. CASE d = m
      <4>1. DOMAIN unordered'[m] = 1 .. Len(unordered[m]) - 1 /\ DOMAIN unordered[m] = 1 .. Len(unordered[m])
        BY <1>2, <1>3, <1>5
      <4>2. i + 1 \in DOMAIN unordered[m] /\ unordered'[m][i] = unordered[m][i + 1]
        BY <1>3, <1>5, <3>1, <4>1
      <4> QED
        BY <2>1, <3>1, <4>2 DEF CombatInv, OneReporter
    <3>2. CASE d # m
      BY <1>5, <2>1, <3>2 DEF CombatInv, OneReporter
    <3> QED
      BY <3>1, <3>2
  <2> QED
    BY <2>1 DEF OneReporter
<1>7. applying' \in [Machines -> Fighters \cup {Nobody}]
  BY <1>1, <1>4 DEF CombatInv, CombatTypes
<1>8. hurt' \in [Machines -> [Fighters -> BOOLEAN]]
  <2>1. hurt \in [Machines -> [Fighters -> BOOLEAN]]
    BY DEF CombatInv, CombatTypes
  <2>2. CASE e.kind = "limbs" /\ hurt' = [hurt EXCEPT ![m][e.f] = e.hurt]
    <3>1. e.hurt \in BOOLEAN
      BY <1>4, <2>2
    <3> QED
      BY <1>4, <2>1, <2>2, <3>1
  <2> QED
    BY <1>1, <2>1, <2>2
<1>9. EachHasItsBlow'
  BY <1>1, TicketsSame DEF tallies
<1> QED
  BY <1>1, <1>5, <1>6, <1>7, <1>8, <1>9 DEF tallies, CombatInv, CombatTypes, DeathOnce

LEMMA ConcatFacts ==
    ASSUME NEW S, NEW q \in Seq(S), NEW r \in Seq(S)
    PROVE  /\ q \o r \in Seq(S) /\ Len(q) \in Nat /\ Len(r) \in Nat /\ Len(q \o r) = Len(q) + Len(r)
           /\ \A i \in 1 .. Len(q) : (q \o r)[i] = q[i]
           /\ \A i \in Len(q) + 1 .. Len(q) + Len(r) : (q \o r)[i] = r[i - Len(q)]
<1>1. /\ q \o r \in Seq(S) /\ Len(q) \in Nat /\ Len(r) \in Nat /\ Len(q \o r) = Len(q) + Len(r)
  OBVIOUS
<1>2. \A i \in 1 .. Len(q) + Len(r) : (q \o r)[i] = IF i <= Len(q) THEN q[i] ELSE r[i - Len(q)]
  BY <1>1
<1> QED
  BY <1>1, <1>2

\* A client goes: its reports go with it.
LEMMA CombatLeave ==
    ASSUME CombatInv, NEW m \in Machines, Leave(m)
    PROVE  CombatInv'
<1>1. /\ online' = [online EXCEPT ![m] = FALSE] /\ uplink' = [uplink EXCEPT ![m] = << >>]
      /\ ordered' = [ordered EXCEPT ![m] = << >>] /\ unordered' = [unordered EXCEPT ![m] = << >>]
      /\ UNCHANGED <<alive, game, client, tallies>>
  BY DEF Leave
<1>2. /\ uplink \in [Machines -> Seq(Messages)] /\ ordered \in [Machines -> Seq(Messages)]
      /\ unordered \in [Machines -> Seq(Messages)] /\ online \in [Machines -> BOOLEAN]
  BY DEF CombatInv, CombatTypes
<1>3. /\ uplink' \in [Machines -> Seq(Messages)] /\ uplink'[m] = << >>
      /\ \A d \in Machines \ {m} : uplink'[d] = uplink[d]
      /\ unordered' \in [Machines -> Seq(Messages)] /\ unordered'[m] = << >>
      /\ \A d \in Machines \ {m} : unordered'[d] = unordered[d]
  BY <1>1, <1>2
<1>4. ordered' \in [Machines -> Seq(Messages)] /\ online' \in [Machines -> BOOLEAN]
  BY <1>1, <1>2
<1>5. ASSUME NEW f \in Fighters, NEW z \in Tickets(f)' PROVE z \in Tickets(f)
  <2>1. /\ z \in {"ring", "wire"} \X Machines \X Nat
        /\ TellsKO(IF z[1] = "ring" THEN ring[z[2]] ELSE uplink'[z[2]], z[3], f)
    BY <1>1 DEF Tickets, client
  <2>2. z[1] = "ring" \/ z[2] # m
    BY <1>3, <2>1 DEF TellsKO
  <2> QED
    BY <1>3, <2>1, <2>2 DEF Tickets
<1>6. EachHasItsBlow'
  BY <1>1, <1>5, TicketsKept DEF tallies
<1>7. OneReporter'
  <2>1. DOMAIN unordered'[m] = {}
    BY <1>3
  <2> QED
    BY <1>3, <2>1 DEF CombatInv, OneReporter
<1> QED
  BY <1>1, <1>3, <1>4, <1>6, <1>7 DEF game, client, tallies, CombatInv, CombatTypes, DeathOnce

\* Wounds are reported without a knock-out.
LEMMA CombatPoll ==
    ASSUME CombatInv, NEW m \in Machines, PollOwnedHealth(m)
    PROVE  CombatInv'
<1> DEFINE changed == {f \in Fighters : OwnerOf[f] = m /\ hurt[m][f] # sent[f]}
<1>1. PICK order \in Orders(changed) :
        uplink' = [uplink EXCEPT ![m] = @ \o [i \in DOMAIN order |-> Limbs(order[i], hurt[m][order[i]])]]
  BY DEF PollOwnedHealth
<1>2. UNCHANGED <<alive, online, body, hurt, client, ordered, unordered, tallies>>
  BY DEF PollOwnedHealth
<1>3. Cardinality(changed) \in Nat /\ changed \subseteq Fighters
  BY CombatAssumption, FS_Subset, FS_CardinalityType
<1> HIDE DEF changed
<1> DEFINE n == Cardinality(changed)
           r == [i \in 1 .. n |-> Limbs(order[i], hurt[m][order[i]])]
<1>4. DOMAIN order = 1 .. n /\ \A i \in 1 .. n : order[i] \in Fighters
  BY <1>1, <1>3 DEF Orders
<1>5. uplink \in [Machines -> Seq(Messages)] /\ hurt \in [Machines -> [Fighters -> BOOLEAN]]
  BY DEF CombatInv, CombatTypes
<1>6. \A i \in 1 .. n : r[i] \in Messages /\ r[i].kind = "limbs"
  BY <1>4, <1>5, MessageFacts
<1>7. r \in Seq(Messages) /\ Len(r) = n
  BY <1>3, <1>6
<1>8. uplink' = [uplink EXCEPT ![m] = uplink[m] \o r]
  BY <1>1, <1>4
<1> HIDE DEF n, r
<1>9. /\ uplink[m] \o r \in Seq(Messages) /\ Len(uplink[m] \o r) = Len(uplink[m]) + n
      /\ Len(uplink[m]) \in Nat /\ n \in Nat
      /\ \A i \in 1 .. Len(uplink[m]) : (uplink[m] \o r)[i] = uplink[m][i]
      /\ \A i \in Len(uplink[m]) + 1 .. Len(uplink[m]) + n : (uplink[m] \o r)[i] = r[i - Len(uplink[m])]
  <2> DEFINE q == uplink[m]
  <2>1. q \in Seq(Messages)
    BY <1>5
  <2> HIDE DEF q
  <2>2. /\ q \o r \in Seq(Messages) /\ Len(q) \in Nat /\ Len(r) \in Nat /\ Len(q \o r) = Len(q) + Len(r)
        /\ \A i \in 1 .. Len(q) : (q \o r)[i] = q[i]
        /\ \A i \in Len(q) + 1 .. Len(q) + Len(r) : (q \o r)[i] = r[i - Len(q)]
    BY <1>7, <2>1, ConcatFacts
  <2> QED
    BY <1>7, <2>2 DEF q
<1>10. /\ uplink' \in [Machines -> Seq(Messages)] /\ uplink'[m] = uplink[m] \o r
       /\ \A d \in Machines \ {m} : uplink'[d] = uplink[d]
  BY <1>5, <1>8, <1>9
<1>11. ASSUME NEW f \in Fighters, NEW z \in Tickets(f)' PROVE z \in Tickets(f)
  <2>1. /\ z \in {"ring", "wire"} \X Machines \X Nat
        /\ TellsKO(IF z[1] = "ring" THEN ring[z[2]] ELSE uplink'[z[2]], z[3], f)
    BY <1>2 DEF Tickets, client
  <2>2. CASE z[1] = "wire" /\ z[2] = m
    <3>1. z[3] \in 1 .. Len(uplink[m]) + n /\ uplink'[m][z[3]].kind = "ko" /\ uplink'[m][z[3]].f = f
      BY <1>9, <1>10, <2>1, <2>2 DEF TellsKO
    <3>2. z[3] \in 1 .. Len(uplink[m])
      <4>1. CASE z[3] > Len(uplink[m])
        <5>1. z[3] \in Len(uplink[m]) + 1 .. Len(uplink[m]) + n /\ z[3] - Len(uplink[m]) \in 1 .. n
          BY <1>9, <3>1, <4>1
        <5> QED
          BY <1>6, <1>9, <1>10, <3>1, <5>1
      <4> QED
        BY <1>9, <3>1, <4>1
    <3>3. TellsKO(uplink[m], z[3], f)
      BY <1>9, <1>10, <3>1, <3>2 DEF TellsKO
    <3> QED
      BY <2>1, <2>2, <3>3 DEF Tickets
  <2>3. CASE ~(z[1] = "wire" /\ z[2] = m)
    BY <1>10, <2>1, <2>3 DEF Tickets
  <2> QED
    BY <2>2, <2>3
<1>12. EachHasItsBlow'
  BY <1>2, <1>11, TicketsKept DEF tallies
<1> QED
  BY <1>2, <1>10, <1>12 DEF client, tallies, CombatInv, CombatTypes, DeathOnce, OneReporter

LEMMA SubSeqFacts ==
    ASSUME NEW S, NEW q \in Seq(S), NEW a \in 1 .. Len(q) + 1, NEW b \in a - 1 .. Len(q)
    PROVE  /\ SubSeq(q, a, b) \in Seq(S) /\ Len(SubSeq(q, a, b)) = b - a + 1
           /\ \A i \in 1 .. b - a + 1 : SubSeq(q, a, b)[i] = q[a + i - 1]
<1>1. Len(q) \in Nat /\ a \in Nat /\ b \in Nat
  OBVIOUS
<1>2. SubSeq(q, a, b) = [i \in 1 .. b - a + 1 |-> q[a + i - 1]]
  BY <1>1
<1>3. \A i \in 1 .. b - a + 1 : a + i - 1 \in 1 .. Len(q)
  BY <1>1
<1>4. \A i \in 1 .. b - a + 1 : q[a + i - 1] \in S
  BY <1>3
<1>5. b - a + 1 \in Nat
  BY <1>1
<1> QED
  BY <1>2, <1>4, <1>5

\* The reports of a tick: each event of the ring once, the rest snapshots.
LEMMA ReportFacts ==
    ASSUME CombatInv, NEW m \in Machines, NEW q \in Seq(Happenings)
    PROVE  /\ Reports(m, q) \in Seq(Messages) /\ Len(Reports(m, q)) = 2 * Len(q)
           /\ \A i \in 1 .. 2 * Len(q) :
                \/ /\ i % 2 = 1 /\ (i + 1) \div 2 \in 1 .. Len(q)
                   /\ Reports(m, q)[i] = q[(i + 1) \div 2]
                \/ Reports(m, q)[i].kind = "limbs"
<1> DEFINE r(i) == IF i % 2 = 1 THEN q[(i + 1) \div 2] ELSE Limbs(q[i \div 2].f, hurt[m][q[i \div 2].f])
<1>1. Len(q) \in Nat /\ 2 * Len(q) \in Nat
  OBVIOUS
<1>2. Reports(m, q) = [i \in 1 .. 2 * Len(q) |-> r(i)]
  BY DEF Reports
<1>3. ASSUME NEW i \in 1 .. 2 * Len(q)
      PROVE  /\ r(i) \in Messages
             /\ \/ i % 2 = 1 /\ (i + 1) \div 2 \in 1 .. Len(q) /\ r(i) = q[(i + 1) \div 2]
                \/ r(i).kind = "limbs"
  <2>1. CASE i % 2 = 1
    <3>1. (i + 1) \div 2 \in 1 .. Len(q)
      BY <1>1, <2>1
    <3>2. q[(i + 1) \div 2] \in Happenings
      BY <3>1
    <3> QED
      BY <2>1, <3>1, <3>2, MessageFacts
  <2>2. CASE i % 2 # 1
    <3>1. i \div 2 \in 1 .. Len(q)
      BY <1>1, <2>2
    <3>2. q[i \div 2] \in Happenings
      BY <3>1
    <3>3. q[i \div 2].f \in Fighters
      BY <3>2, MessageFacts
    <3>4. hurt[m][q[i \div 2].f] \in BOOLEAN
      BY <3>3 DEF CombatInv, CombatTypes
    <3>5. r(i) = Limbs(q[i \div 2].f, hurt[m][q[i \div 2].f])
      BY <2>2
    <3> QED
      BY <3>3, <3>4, <3>5, MessageFacts
  <2> QED
    BY <2>1, <2>2
<1> HIDE DEF r
<1>4. Reports(m, q) \in Seq(Messages) /\ Len(Reports(m, q)) = 2 * Len(q)
  BY <1>1, <1>2, <1>3
<1> QED
  BY <1>2, <1>3, <1>4

LEMMA OddHalves ==
    ASSUME NEW a \in Int, NEW b \in Int, a % 2 = 1, b % 2 = 1, (a + 1) \div 2 = (b + 1) \div 2
    PROVE  a = b
<1>1. a = 2 * (a \div 2) + 1 /\ (a + 1) \div 2 = (a \div 2) + 1
  OBVIOUS
<1>2. b = 2 * (b \div 2) + 1 /\ (b + 1) \div 2 = (b \div 2) + 1
  OBVIOUS
<1>3. a \div 2 \in Int /\ b \div 2 \in Int
  OBVIOUS
<1> QED
  BY <1>1, <1>2, <1>3

\* How far a tick gets in the ring.
LEMMA PoppedFacts ==
    ASSUME CombatInv, NEW m \in Machines
    PROVE  /\ Len(ring[m]) \in Nat /\ Popped(m) \in 0 .. Len(ring[m])
           /\ (IF Popped(m) > EventsPerTick THEN EventsPerTick ELSE Popped(m)) \in 0 .. Popped(m)
<1>1. Len(ring[m]) \in Nat
  BY DEF CombatInv, CombatTypes
<1>2. EventsPerTick \in Nat
  BY CombatAssumption
<1> QED
  BY <1>1, <1>2 DEF Popped

\* The reports of a tick leave the ring as they enter the wire: what was at i of the
\* ring is now at n + 2 i - 1 of the wire, or moved up in the ring, or is lost.
LEMMA MovedTickets ==
    ASSUME CombatInv, NEW m \in Machines, NEW n \in 0 .. Len(ring[m]), NEW k \in 0 .. n,
           ring' = [ring EXCEPT ![m] = SubSeq(@, n + 1, Len(@))],
           uplink' = [uplink EXCEPT ![m] = @ \o Reports(m, SubSeq(ring[m], 1, k))],
           NEW f \in Fighters, NEW b, Fits(Tickets(f), b)
    PROVE  Fits(Tickets(f)', b)
<1> DEFINE R == ring[m]
           U == uplink[m]
           u == Len(U)
           Q == Reports(m, SubSeq(R, 1, k))
           T == Tickets(f)'
           Kept(z)  == <<"ring", m, n + z[3]>>
           Moved(z) == <<"ring", m, (z[3] - u + 1) \div 2>>
           OfRing(z) == z[1] = "ring" /\ z[2] = m
           OfTick(z) == z[1] = "wire" /\ z[2] = m /\ z[3] > u
           h == [z \in T |-> IF OfRing(z) THEN Kept(z) ELSE IF OfTick(z) THEN Moved(z) ELSE z]
<1>1. ring \in [Machines -> Seq(Happenings)] /\ uplink \in [Machines -> Seq(Messages)]
  BY DEF CombatInv, CombatTypes
<1>2. R \in Seq(Happenings) /\ U \in Seq(Messages) /\ Len(R) \in Nat /\ n \in Nat /\ k \in Nat /\ k <= n /\ n <= Len(R)
  BY <1>1
<1>3. /\ ring'[m] = SubSeq(R, n + 1, Len(R)) /\ \A d \in Machines \ {m} : ring'[d] = ring[d]
      /\ uplink'[m] = U \o Q /\ \A d \in Machines \ {m} : uplink'[d] = uplink[d]
  BY <1>1
<1>4. /\ Len(ring'[m]) = Len(R) - n /\ \A i \in 1 .. Len(R) - n : ring'[m][i] = R[n + i]
  <2>1. n + 1 \in 1 .. Len(R) + 1 /\ Len(R) \in (n + 1) - 1 .. Len(R)
    BY <1>2
  <2>2. /\ Len(SubSeq(R, n + 1, Len(R))) = Len(R) - (n + 1) + 1
        /\ \A i \in 1 .. Len(R) - (n + 1) + 1 : SubSeq(R, n + 1, Len(R))[i] = R[(n + 1) + i - 1]
    BY <1>2, <2>1, SubSeqFacts
  <2>3. Len(R) - (n + 1) + 1 = Len(R) - n /\ \A i \in Nat : (n + 1) + i - 1 = n + i
    BY <1>2
  <2> QED
    BY <1>3, <2>2, <2>3
<1>5. /\ SubSeq(R, 1, k) \in Seq(Happenings) /\ Len(SubSeq(R, 1, k)) = k
      /\ \A i \in 1 .. k : SubSeq(R, 1, k)[i] = R[i]
  <2>1. 1 \in 1 .. Len(R) + 1 /\ k \in 1 - 1 .. Len(R) /\ k - 1 + 1 = k /\ \A i \in Nat : 1 + i - 1 = i
    BY <1>2
  <2>2. /\ SubSeq(R, 1, k) \in Seq(Happenings) /\ Len(SubSeq(R, 1, k)) = k - 1 + 1
        /\ \A i \in 1 .. k - 1 + 1 : SubSeq(R, 1, k)[i] = R[1 + i - 1]
    BY <1>2, <2>1, SubSeqFacts
  <2> QED
    BY <2>1, <2>2
<1>6. /\ Q \in Seq(Messages) /\ Len(Q) = 2 * k
      /\ \A i \in 1 .. 2 * k : \/ i % 2 = 1 /\ (i + 1) \div 2 \in 1 .. k /\ Q[i] = R[(i + 1) \div 2]
                               \/ Q[i].kind = "limbs"
  BY <1>5, ReportFacts
<1> HIDE DEF Q
<1>7. /\ u \in Nat /\ Len(uplink'[m]) = u + 2 * k
      /\ \A i \in 1 .. u : uplink'[m][i] = U[i]
      /\ \A i \in u + 1 .. u + 2 * k : uplink'[m][i] = Q[i - u]
  <2> HIDE DEF U
  <2>1. /\ Len(U) \in Nat /\ Len(Q) \in Nat /\ Len(U \o Q) = Len(U) + Len(Q)
        /\ \A i \in 1 .. Len(U) : (U \o Q)[i] = U[i]
        /\ \A i \in Len(U) + 1 .. Len(U) + Len(Q) : (U \o Q)[i] = Q[i - Len(U)]
    BY <1>2, <1>6, ConcatFacts
  <2> QED
    BY <1>3, <1>6, <2>1
<1> HIDE DEF U, R
<1>8. ASSUME NEW z \in T
      PROVE  /\ z = <<z[1], z[2], z[3]>> /\ z[1] \in {"ring", "wire"} /\ z[2] \in Machines /\ z[3] \in Nat
             /\ z[1] = "ring" => TellsKO(ring'[z[2]], z[3], f)
             /\ z[1] = "wire" => TellsKO(uplink'[z[2]], z[3], f)
  BY DEF Tickets
<1> HIDE DEF T
<1>9. ASSUME NEW z \in T, OfRing(z)
      PROVE  Kept(z) \in Tickets(f) /\ n + z[3] > n
  <2>1. z[3] \in 1 .. Len(R) - n /\ R[n + z[3]].kind = "ko" /\ R[n + z[3]].f = f
    BY <1>4, <1>8, <1>9 DEF TellsKO
  <2>2. n + z[3] \in 1 .. Len(R) /\ n + z[3] > n /\ n + z[3] \in Nat
    BY <1>2, <2>1
  <2>3. TellsKO(ring[m], n + z[3], f)
    BY <2>1, <2>2 DEF TellsKO, R
  <2> QED
    BY <2>2, <2>3 DEF Tickets
<1>10. ASSUME NEW z \in T, OfTick(z)
       PROVE  Moved(z) \in Tickets(f) /\ (z[3] - u) % 2 = 1 /\ (z[3] - u + 1) \div 2 \in 1 .. k
  <2>1. z[3] \in 1 .. u + 2 * k /\ uplink'[m][z[3]].kind = "ko" /\ uplink'[m][z[3]].f = f
    BY <1>7, <1>8, <1>10 DEF TellsKO
  <2>2. z[3] \in u + 1 .. u + 2 * k /\ z[3] - u \in 1 .. 2 * k
    <3>1. z[3] > u /\ u \in Nat /\ k \in Nat
      BY <1>2, <1>7, <1>10
    <3> QED
      BY <2>1, <3>1
  <2>3. Q[z[3] - u].kind = "ko" /\ Q[z[3] - u].f = f
    BY <1>7, <2>1, <2>2
  <2>4. /\ (z[3] - u) % 2 = 1 /\ (z[3] - u + 1) \div 2 \in 1 .. k
        /\ Q[z[3] - u] = R[(z[3] - u + 1) \div 2]
    <3> DEFINE i == z[3] - u
    <3>1. i \in 1 .. 2 * k /\ Q[i].kind # "limbs"
      BY <2>2, <2>3
    <3> HIDE DEF i
    <3>2. i % 2 = 1 /\ (i + 1) \div 2 \in 1 .. k /\ Q[i] = R[(i + 1) \div 2]
      BY <1>6, <3>1, Zenon
    <3> QED
      BY <3>2 DEF i
  <2>5. (z[3] - u + 1) \div 2 \in 1 .. Len(R) /\ (z[3] - u + 1) \div 2 \in Nat
    BY <1>2, <2>4
  <2>6. TellsKO(ring[m], (z[3] - u + 1) \div 2, f)
    BY <2>3, <2>4, <2>5 DEF TellsKO, R
  <2> QED
    BY <2>4, <2>5, <2>6 DEF Tickets
<1>11. ASSUME NEW z \in T, ~OfRing(z), ~OfTick(z) PROVE z \in Tickets(f)
  <2>1. CASE z[1] = "wire" /\ z[2] = m
    <3>1. z[3] \in 1 .. u /\ uplink'[m][z[3]].kind = "ko" /\ uplink'[m][z[3]].f = f
      <4>1. z[3] \in 1 .. u + 2 * k /\ uplink'[m][z[3]].kind = "ko" /\ uplink'[m][z[3]].f = f
        BY <1>7, <1>8, <2>1 DEF TellsKO
      <4>2. z[3] \in Nat /\ ~(z[3] > u)
        BY <1>8, <1>11, <2>1
      <4>3. z[3] \in 1 .. u
        BY <1>2, <1>7, <4>1, <4>2
      <4> QED
        BY <4>1, <4>3
    <3>2. TellsKO(uplink[m], z[3], f)
      BY <1>7, <3>1 DEF TellsKO, U
    <3> QED
      BY <1>8, <2>1, <3>2 DEF Tickets
  <2>2. CASE z[2] # m
    BY <1>3, <1>8, <2>2 DEF Tickets
  <2> QED
    BY <1>8, <1>11, <2>1, <2>2
<1>12. h \in [T -> Tickets(f)]
  BY <1>9, <1>10, <1>11
<1>13. ASSUME NEW y \in T, NEW z \in T, h[y] = h[z] PROVE y = z
  <2>1. CASE OfRing(y) /\ OfRing(z)
    <3>1. <<"ring", m, n + y[3]>> = <<"ring", m, n + z[3]>>
      BY <1>13, <2>1
    <3>2. y[3] = z[3]
      BY <1>2, <1>8, <3>1
    <3> QED
      BY <1>8, <2>1, <3>2
  <2>2. CASE OfTick(y) /\ OfTick(z)
    <3>1. <<"ring", m, (y[3] - u + 1) \div 2>> = <<"ring", m, (z[3] - u + 1) \div 2>>
      BY <1>13, <2>2
    <3>2. (y[3] - u + 1) \div 2 = (z[3] - u + 1) \div 2
      BY <3>1
    <3>3. y[3] = z[3]
      <4>1. (y[3] - u) % 2 = 1 /\ (z[3] - u) % 2 = 1
        BY <1>10, <2>2
      <4>2. y[3] \in Nat /\ z[3] \in Nat /\ u \in Nat /\ y[3] - u \in Int /\ z[3] - u \in Int
        BY <1>7, <1>8
      <4>3. y[3] - u = z[3] - u
        BY <3>2, <4>1, <4>2, OddHalves
      <4> QED
        BY <4>2, <4>3
    <3> QED
      BY <1>8, <2>2, <3>3
  <2>3. ASSUME NEW p \in T, NEW q \in T, OfRing(p), OfTick(q) PROVE Kept(p) # Moved(q)
    <3>1. n + p[3] # (q[3] - u + 1) \div 2
      <4>1. n + p[3] > n
        BY <1>9, <2>3
      <4>2. (q[3] - u + 1) \div 2 \in 1 .. k
        BY <1>10, <2>3
      <4> DEFINE w == (q[3] - u + 1) \div 2
                 v == n + p[3]
      <4>3. v > n /\ w \in 1 .. k
        BY <4>1, <4>2
      <4> HIDE DEF v, w
      <4>4. v # w
        BY <1>2, <4>3
      <4> QED
        BY <4>4 DEF v, w
    <3> QED
      BY <3>1
  <2>4. ASSUME NEW p \in T, OfRing(p) \/ OfTick(p), NEW q \in T, ~OfRing(q), ~OfTick(q) PROVE h[p] # h[q]
    <3>1. h[q] = q /\ h[p][1] = "ring" /\ h[p][2] = m
      BY <2>4
    <3> QED
      BY <2>4, <3>1
  <2>5. \A p, q \in T : OfRing(p) /\ OfTick(q) => h[p] # h[q]
    BY <2>3
  <2>6. CASE ~OfRing(y) /\ ~OfTick(y) /\ ~OfRing(z) /\ ~OfTick(z)
    BY <1>13, <2>6
  <2> QED
    BY <1>13, <2>1, <2>2, <2>4, <2>5, <2>6
<1> HIDE DEF h
<1>14. Fits(T, b)
  BY <1>12, <1>13, FitsThrough
<1> QED
  BY <1>14 DEF T

\* A tick hands the events of the ring to the wire, or throws them away offline.
LEMMA CombatProcess ==
    ASSUME CombatInv, NEW m \in Machines, ProcessDeferredEvents(m)
    PROVE  CombatInv'
<1> DEFINE n == Popped(m)
           k == IF n > EventsPerTick THEN EventsPerTick ELSE n
           P == SubSeq(ring[m], 1, k)
<1>1. /\ \/ ring' = [ring EXCEPT ![m] = << >>] /\ UNCHANGED uplink
         \/ /\ ring' = [ring EXCEPT ![m] = SubSeq(@, n + 1, Len(@))]
            /\ uplink' = [uplink EXCEPT ![m] = @ \o Reports(m, P)]
      /\ UNCHANGED <<alive, online, game, applying, commands, ordered, unordered, tallies>>
  BY DEF ProcessDeferredEvents
<1>2. Len(ring[m]) \in Nat /\ n \in 0 .. Len(ring[m]) /\ k \in 0 .. n
  BY PoppedFacts
<1> HIDE DEF n, k
<1>3. /\ ring \in [Machines -> Seq(Happenings)] /\ uplink \in [Machines -> Seq(Messages)]
      /\ RingSize \in [Machines -> Nat] /\ \A d \in Machines : Len(ring[d]) < RingSize[d]
  BY CombatAssumption DEF CombatInv, CombatTypes
<1>4. CASE ring' = [ring EXCEPT ![m] = << >>] /\ UNCHANGED uplink
  <2>1. /\ ring' \in [Machines -> Seq(Happenings)] /\ ring'[m] = << >> /\ Len(ring'[m]) = 0
        /\ \A d \in Machines \ {m} : ring'[d] = ring[d]
    BY <1>3, <1>4
  <2>2. \A d \in Machines : Len(ring'[d]) < RingSize[d]
    <3>1. RingSize[m] > 0
      BY CombatAssumption
    <3> QED
      BY <1>3, <2>1, <3>1
  <2>3. ASSUME NEW f \in Fighters, NEW z \in Tickets(f)' PROVE z \in Tickets(f)
    <3>1. /\ z \in {"ring", "wire"} \X Machines \X Nat
          /\ TellsKO(IF z[1] = "ring" THEN ring'[z[2]] ELSE uplink[z[2]], z[3], f)
      BY <1>4 DEF Tickets
    <3>2. ~(z[1] = "ring" /\ z[2] = m)
      BY <2>1, <3>1 DEF TellsKO
    <3> QED
      BY <2>1, <3>1, <3>2 DEF Tickets
  <2>4. EachHasItsBlow'
    BY <1>1, <2>3, TicketsKept DEF tallies
  <2> QED
    BY <1>1, <1>4, <2>1, <2>2, <2>4 DEF game, tallies, CombatInv, CombatTypes, DeathOnce, OneReporter
<1>5. CASE /\ ring' = [ring EXCEPT ![m] = SubSeq(@, n + 1, Len(@))]
           /\ uplink' = [uplink EXCEPT ![m] = @ \o Reports(m, P)]
  <2>1. /\ SubSeq(ring[m], n + 1, Len(ring[m])) \in Seq(Happenings)
        /\ Len(SubSeq(ring[m], n + 1, Len(ring[m]))) <= Len(ring[m])
    <3>1. n + 1 \in 1 .. Len(ring[m]) + 1 /\ Len(ring[m]) \in (n + 1) - 1 .. Len(ring[m])
      BY <1>2
    <3>2. /\ SubSeq(ring[m], n + 1, Len(ring[m])) \in Seq(Happenings)
          /\ Len(SubSeq(ring[m], n + 1, Len(ring[m]))) = Len(ring[m]) - (n + 1) + 1
      BY <1>3, <3>1, SubSeqFacts
    <3> QED
      BY <1>2, <3>2
  <2>2. P \in Seq(Happenings)
    <3>1. 1 \in 1 .. Len(ring[m]) + 1 /\ k \in 1 - 1 .. Len(ring[m])
      BY <1>2
    <3> QED
      BY <1>3, <3>1, SubSeqFacts
  <2>3. /\ ring' \in [Machines -> Seq(Happenings)] /\ ring'[m] = SubSeq(ring[m], n + 1, Len(ring[m]))
        /\ \A d \in Machines \ {m} : ring'[d] = ring[d]
    BY <1>3, <1>5, <2>1
  <2>4. \A d \in Machines : Len(ring'[d]) < RingSize[d]
    <3> DEFINE rest == SubSeq(ring[m], n + 1, Len(ring[m]))
    <3>1. rest \in Seq(Happenings) /\ Len(rest) <= Len(ring[m])
      BY <2>1
    <3> HIDE DEF rest
    <3>2. Len(rest) \in Nat
      BY <3>1
    <3>3. Len(rest) < RingSize[m]
      BY <1>2, <1>3, <3>1, <3>2
    <3>4. ring'[m] = rest
      BY <2>3 DEF rest
    <3> QED
      BY <1>3, <2>3, <3>3, <3>4
  <2>5. uplink' \in [Machines -> Seq(Messages)]
    <3>1. Reports(m, P) \in Seq(Messages)
      BY <2>2, ReportFacts
    <3>2. uplink[m] \o Reports(m, P) \in Seq(Messages)
      BY <1>3, <3>1
    <3> QED
      BY <1>3, <1>5, <3>2
  <2>6. ASSUME NEW f \in Fighters
        PROVE  koCasts[f] <= knocked[f] /\ Fits(Tickets(f)', knocked[f] - koCasts[f])
    <3>1. koCasts[f] <= knocked[f] /\ Fits(Tickets(f), knocked[f] - koCasts[f])
      BY DEF CombatInv, EachHasItsBlow
    <3> DEFINE b == knocked[f] - koCasts[f]
    <3> HIDE DEF b
    <3>2. Fits(Tickets(f), b) => Fits(Tickets(f)', b)
      BY <1>2, <1>5, MovedTickets
    <3> QED
      BY <3>1, <3>2 DEF b
  <2>7. EachHasItsBlow'
    BY <1>1, <2>6 DEF tallies, EachHasItsBlow
  <2> QED
    BY <1>1, <2>3, <2>4, <2>5, <2>7 DEF game, tallies, CombatInv, CombatTypes, DeathOnce, OneReporter
<1> QED
  BY <1>1, <1>4, <1>5

LEMMA CombatInvariant == CsSpec => []CombatInv
<1>1. CsInit => CombatInv
  <2> SUFFICES ASSUME CsInit PROVE CombatInv
    OBVIOUS
  <2>1. /\ ring \in [Machines -> Seq(Happenings)] /\ \A m \in Machines : ring[m] = << >> /\ Len(ring[m]) = 0
        /\ uplink \in [Machines -> Seq(Messages)] /\ \A m \in Machines : uplink[m] = << >>
    BY DEF CsInit
  <2>2. /\ ordered \in [Machines -> Seq(Messages)] /\ unordered \in [Machines -> Seq(Messages)]
        /\ commands \in [Machines -> Seq(Fighters)] /\ applying \in [Machines -> Fighters \cup {Nobody}]
    BY DEF CsInit
  <2>3. /\ body \in [Machines -> [Fighters -> {"up", "down", "dead"}]]
        /\ hurt \in [Machines -> [Fighters -> BOOLEAN]]
    BY DEF CsInit
  <2>4. /\ alive \in [Fighters -> BOOLEAN] /\ online \in [Machines -> BOOLEAN]
    BY DEF CsInit
  <2>5. knocked \in [Fighters -> Nat] /\ koCasts \in [Fighters -> Nat] /\ deathCasts \in [Fighters -> Nat]
    BY DEF CsInit
  <2>6. \A m \in Machines : Len(ring[m]) < RingSize[m]
    BY <2>1, CombatAssumption
  <2>7. CombatTypes
    BY <2>1, <2>2, <2>3, <2>4, <2>5, <2>6 DEF CombatTypes
  <2>8. DeathOnce
    BY DEF CsInit, DeathOnce
  <2>9. OneReporter
    <3>1. \A m \in Machines : DOMAIN unordered[m] = {}
      BY DEF CsInit
    <3> QED
      BY <3>1 DEF OneReporter
  <2>10. ASSUME NEW f \in Fighters PROVE koCasts[f] <= knocked[f] /\ Fits(Tickets(f), knocked[f] - koCasts[f])
    <3>1. Tickets(f) = {}
      BY <2>1 DEF Tickets, TellsKO
    <3>2. koCasts[f] = 0 /\ knocked[f] = 0
      BY DEF CsInit
    <3> DEFINE g == [p \in {} |-> 0]
    <3>3. g \in [{} -> 1 .. 0] /\ \A p, q \in {} : g[p] = g[q] => p = q
      OBVIOUS
    <3> HIDE DEF g
    <3>4. Fits({}, 0)
      BY <3>3 DEF Fits
    <3> QED
      BY <3>1, <3>2, <3>4
  <2>11. EachHasItsBlow
    BY <2>10 DEF EachHasItsBlow
  <2> QED
    BY <2>7, <2>8, <2>9, <2>11 DEF CombatInv
<1>2. CombatInv /\ [CsNext]_csVars => CombatInv'
  <2> SUFFICES ASSUME CombatInv, [CsNext]_csVars PROVE CombatInv'
    OBVIOUS
  <2>1. CASE UNCHANGED csVars
    <3>1. EachHasItsBlow'
      BY <2>1, TicketsSame DEF csVars, client, network, tallies
    <3> QED
      BY <2>1, <3>1 DEF csVars, game, client, network, tallies, CombatInv, CombatTypes, DeathOnce, OneReporter
  <2>2. CASE CsNext
    BY <2>2, CombatGameKO, CombatGameDeath, CombatQuietSteps, CombatServerReceive,
       CombatReceiveUnordered, CombatLeave, CombatPoll, CombatProcess DEF CsNext, CsProgress
  <2> QED
    BY <2>1, <2>2
<1> QED
  BY <1>1, <1>2, PTL DEF CsSpec

\* Only the game tick adds to the deaths its cap passed over.
LEMMA SkippedInvariant == CsSpec => [](skipped \in [Machines -> SUBSET Fighters])
<1> DEFINE Known == skipped \in [Machines -> SUBSET Fighters]
<1>1. CsInit => Known
  BY DEF CsInit
<1>2. Known /\ [CsNext]_csVars => Known'
  <2> SUFFICES ASSUME Known, [CsNext]_csVars PROVE Known'
    OBVIOUS
  <2>1. CASE UNCHANGED csVars
    BY <2>1 DEF csVars, client
  <2>2. CASE CsNext
    <3> PICK m \in Machines :
          \/ \E f \in Fighters, other \in Fighters \cup {Nobody} : GameKO(m, f, other) \/ GameDeath(m, f, other)
          \/ \E f \in Fighters : GameWound(m, f)
          \/ \E f, target \in Fighters : HandleAttackIntent(m, f, target)
          \/ ProcessDeferredEvents(m)
          \/ PollOwnedHealth(m) \/ RunDeathCommand(m) \/ ServerReceive(m)
          \/ ReceiveOrdered(m) \/ ReceiveUnordered(m) \/ ApplyKO(m) \/ Leave(m)
      BY <2>2, SMT DEF CsNext, CsProgress
    <3>1. CASE \E f \in Fighters, other \in Fighters \cup {Nobody} : GameKO(m, f, other) \/ GameDeath(m, f, other)
      BY <3>1 DEF GameKO, GameDeath
    <3>2. CASE \/ \E f \in Fighters : GameWound(m, f)
               \/ \E f, target \in Fighters : HandleAttackIntent(m, f, target)
      BY <3>2 DEF GameWound, HandleAttackIntent, client
    <3>3. CASE ProcessDeferredEvents(m)
      <4>1. UNCHANGED skipped \/ \E S \in SUBSET Fighters : skipped' = [skipped EXCEPT ![m] = @ \cup S]
        BY <3>3 DEF ProcessDeferredEvents
      <4> QED
        BY <4>1
    <3>4. CASE PollOwnedHealth(m) \/ ServerReceive(m) \/ Leave(m)
      BY <3>4 DEF PollOwnedHealth, ServerReceive, Leave, client
    <3>5. CASE RunDeathCommand(m) \/ ReceiveOrdered(m) \/ ReceiveUnordered(m) \/ ApplyKO(m)
      BY <3>5 DEF RunDeathCommand, ReceiveOrdered, ReceiveUnordered, ApplyKO
    <3> QED
      BY <3>1, <3>2, <3>3, <3>4, <3>5
  <2> QED
    BY <2>1, <2>2
<1> QED
  BY <1>1, <1>2, PTL DEF CsSpec

\* What is in rings, queues and on the wires is well formed, and the ring of a client
\* never holds so much that its read and write index meet (PushEvent).
THEOREM CombatIsTyped == CsSpec => []CsTypeOK
<1>1. CombatInv /\ skipped \in [Machines -> SUBSET Fighters] => CsTypeOK
  <2> SUFFICES ASSUME CombatInv, skipped \in [Machines -> SUBSET Fighters] PROVE CsTypeOK
    OBVIOUS
  <2>1. \A m \in Machines : ring[m] \in Seq(Messages)
    <3>1. ASSUME NEW m \in Machines PROVE ring[m] \in Seq(Messages)
      <4>1. ring[m] \in Seq(Happenings) /\ Happenings \subseteq Messages
        BY MessageFacts DEF CombatInv, CombatTypes
      <4>2. \A i \in 1 .. Len(ring[m]) : ring[m][i] \in Messages
        BY <4>1
      <4>3. Len(ring[m]) \in Nat /\ ring[m] = [i \in 1 .. Len(ring[m]) |-> ring[m][i]]
        BY <4>1
      <4> QED
        BY <4>2, <4>3
    <3> QED
      BY <3>1
  <2> QED
    BY <2>1 DEF CombatInv, CombatTypes, CsTypeOK
<1> QED
  BY <1>1, CombatInvariant, SkippedInvariant, PTL

\* No relayed knock-out is the echo of another one, no death is broadcast twice, and
\* a character's owner is never told its wounds (combat_hooks.cpp, server.cpp).
THEOREM NothingIsPhantom == CsSpec => []NoPhantoms
<1>1. CombatInv => NoPhantoms
  BY DEF CombatInv, EachHasItsBlow, KOsGenuine, NoPhantoms
<1> QED
  BY <1>1, CombatInvariant, PTL
=============================================================================
