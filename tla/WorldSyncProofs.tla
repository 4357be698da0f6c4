-------------------------- MODULE WorldSyncProofs --------------------------
(***************************************************************************)
(* Proofs about how a session forms, what it relays and how the bodies of  *)
(* others move: for any number of clients, characters, handshakes, changes *)
(* and updates, and rings of any size.                                     *)
(***************************************************************************)
EXTENDS MCWorldSync, FiniteSetTheorems, WellFoundedInduction, TLAPS

-----------------------------------------------------------------------------
(* The join barrier.                                                       *)

JoinRecord == [client : Clients, isReady : BOOLEAN, lobbyReady : BOOLEAN]

FactionNames == {FactionStrings[1], FactionStrings[2]}

JoinMail == [kind : {"ack"}, id : Nat] \cup [kind : {"faction"}, faction : FactionNames, slot : Nat]
              \cup [kind : {"allReady", "start"}] \cup [kind : {"left"}, id : Nat]

JoinTypes ==
    /\ nextId \in 1 .. JoinBound + 1
    /\ players \in [DOMAIN players -> JoinRecord]
    /\ DOMAIN players \subseteq 1 .. nextId - 1
    /\ departed \in BOOLEAN
    /\ id \in [Clients -> Nat \cup {Nil}]
    /\ inbox \in [Clients -> Seq(JoinMail)]

\* The id a client has, or is about to hear, is that of its own entry.
OwnId ==
    /\ \A c \in Clients : id[c] # Nil => id[c] \in DOMAIN players /\ players[id[c]].client = c
    /\ \A c \in Clients : \A i \in 1 .. Len(inbox[c]) : inbox[c][i].kind = "ack" =>
          inbox[c][i].id \in DOMAIN players /\ players[inbox[c][i].id].client = c

JoinInv == JoinTypes /\ OwnId /\ BarrierOpens

\* Messages that go to everybody acknowledge nothing.
LEMMA ToAllMail ==
    ASSUME inbox \in [Clients -> Seq(JoinMail)], NEW ps, NEW msg \in JoinMail, msg.kind # "ack"
    PROVE  /\ ToAll(ps, msg) \in [Clients -> Seq(JoinMail)]
           /\ \A c \in Clients : \A i \in 1 .. Len(ToAll(ps, msg)[c]) :
                 ToAll(ps, msg)[c][i].kind = "ack" =>
                    i \in 1 .. Len(inbox[c]) /\ ToAll(ps, msg)[c][i] = inbox[c][i]
<1> DEFINE box == ToAll(ps, msg)
<1>1. \A c \in Clients : box[c] \in {inbox[c], Append(inbox[c], msg)}
  BY DEF ToAll
<1>2. box = [c \in Clients |-> box[c]]
  BY DEF ToAll
<1> HIDE DEF box
<1>3. box \in [Clients -> Seq(JoinMail)]
  <2>1. ASSUME NEW c \in Clients PROVE box[c] \in Seq(JoinMail)
    <3>1. inbox[c] \in Seq(JoinMail) /\ Append(inbox[c], msg) \in Seq(JoinMail)
      OBVIOUS
    <3> QED
      BY <1>1, <3>1
  <2> QED
    BY <1>2, <2>1
<1>4. ASSUME NEW c \in Clients, NEW i \in 1 .. Len(box[c]), box[c][i].kind = "ack"
      PROVE  i \in 1 .. Len(inbox[c]) /\ box[c][i] = inbox[c][i]
  <2>1. CASE box[c] = inbox[c]
    BY <1>4, <2>1
  <2>2. CASE box[c] = Append(inbox[c], msg)
    <3>1. /\ Len(box[c]) = Len(inbox[c]) + 1 /\ box[c][Len(inbox[c]) + 1] = msg
          /\ \A j \in 1 .. Len(inbox[c]) : box[c][j] = inbox[c][j]
      BY <2>2
    <3>2. i # Len(inbox[c]) + 1
      BY <1>4, <3>1
    <3>3. Len(inbox[c]) \in Nat
      OBVIOUS
    <3> QED
      BY <3>1, <3>2, <3>3
  <2> QED
    BY <1>1, <2>1, <2>2
<1> QED
  BY <1>3, <1>4 DEF box

\* What a step must keep of the own ids when it changes players' flags only.
LEMMA FlagsOnly ==
    ASSUME JoinInv, DOMAIN players' = DOMAIN players,
           \A p \in DOMAIN players : players'[p].client = players[p].client,
           UNCHANGED id,
           \A c \in Clients : \A i \in 1 .. Len(inbox'[c]) : inbox'[c][i].kind = "ack" =>
                 i \in 1 .. Len(inbox[c]) /\ inbox'[c][i] = inbox[c][i]
    PROVE  OwnId'
BY DEF JoinInv, OwnId

\* The server takes a report.
LEMMA JoinServerTakes ==
    ASSUME JoinInv, NEW c \in Clients, ServerTakes(c)
    PROVE  JoinInv'
<1>1. PICK p \in DOMAIN players : HandlePlayerReady(p) \/ HandleLobbyReady(p)
  BY DEF ServerTakes
<1>2. UNCHANGED <<nextId, departed, clientSide>>
  BY DEF ServerTakes
<1>3. /\ players \in [DOMAIN players -> JoinRecord] /\ players[p] \in JoinRecord
      /\ inbox \in [Clients -> Seq(JoinMail)]
  BY DEF JoinInv, JoinTypes
<1>4. CASE HandlePlayerReady(p)
  <2>1. CASE players[p].isReady
    BY <1>2, <1>4, <2>1 DEF HandlePlayerReady, clientSide, JoinInv, JoinTypes, OwnId, BarrierOpens
  <2>2. CASE ~players[p].isReady
    <3>1. players' = [players EXCEPT ![p].isReady = TRUE]
      BY <1>4, <2>2 DEF HandlePlayerReady
    <3>2. /\ DOMAIN players' = DOMAIN players /\ players' \in [DOMAIN players' -> JoinRecord]
          /\ players'[p].isReady /\ players'[p].client = players[p].client
          /\ \A q \in DOMAIN players \ {p} : players'[q] = players[q]
      BY <1>3, <3>1 DEF JoinRecord
    <3>3. \/ inbox' = inbox
          \/ inbox' = ToAll(players, [kind |-> "allReady"])
      BY <1>4, <2>2 DEF HandlePlayerReady
    <3>4. /\ inbox' \in [Clients -> Seq(JoinMail)]
          /\ \A d \in Clients : \A i \in 1 .. Len(inbox'[d]) : inbox'[d][i].kind = "ack" =>
                 i \in 1 .. Len(inbox[d]) /\ inbox'[d][i] = inbox[d][i]
      <4>1. [kind |-> "allReady"] \in JoinMail
        BY DEF JoinMail
      <4> QED
        BY <1>3, <3>3, <4>1, ToAllMail
    <3>5. JoinTypes'
      BY <1>2, <3>2, <3>4 DEF clientSide, JoinInv, JoinTypes
    <3>6. OwnId'
      BY <1>2, <3>2, <3>4, FlagsOnly DEF clientSide
    <3>7. BarrierOpens'
      <4>1. CASE ReadyPlayers(p) = DOMAIN players
        <5>1. Cardinality(DOMAIN players) > 1 => opened' = opened \cup DOMAIN players
          BY <1>4, <2>2, <4>1 DEF HandlePlayerReady
        <5>2. Cardinality(DOMAIN players) > 1 => DOMAIN players \subseteq opened'
          BY <5>1
        <5> QED
          BY <1>2, <3>2, <5>2, Zenon DEF BarrierOpens
      <4>2. CASE ReadyPlayers(p) # DOMAIN players
        <5>1. PICK q \in DOMAIN players : q \notin ReadyPlayers(p)
          BY <4>2 DEF ReadyPlayers
        <5>2. q # p /\ ~players[q].isReady
          BY <5>1 DEF ReadyPlayers
        <5>3. ~players'[q].isReady
          BY <3>2, <5>2
        <5> QED
          BY <3>2, <5>3 DEF BarrierOpens
      <4> QED
        BY <4>1, <4>2
    <3> QED
      BY <1>2, <3>5, <3>6, <3>7 DEF JoinInv, clientSide
  <2> QED
    BY <2>1, <2>2
<1>5. CASE HandleLobbyReady(p)
  <2>1. players' = [players EXCEPT ![p].lobbyReady = TRUE] /\ UNCHANGED opened
    BY <1>5 DEF HandleLobbyReady
  <2>2. /\ DOMAIN players' = DOMAIN players /\ players' \in [DOMAIN players' -> JoinRecord]
        /\ players'[p].isReady = players[p].isReady /\ players'[p].client = players[p].client
        /\ \A q \in DOMAIN players \ {p} : players'[q] = players[q]
    BY <1>3, <2>1 DEF JoinRecord
  <2>3. \/ inbox' = inbox
        \/ inbox' = ToAll(players, [kind |-> "start"])
    BY <1>5 DEF HandleLobbyReady
  <2>4. /\ inbox' \in [Clients -> Seq(JoinMail)]
        /\ \A d \in Clients : \A i \in 1 .. Len(inbox'[d]) : inbox'[d][i].kind = "ack" =>
               i \in 1 .. Len(inbox[d]) /\ inbox'[d][i] = inbox[d][i]
    <3>1. [kind |-> "start"] \in JoinMail
      BY DEF JoinMail
    <3> QED
      BY <1>3, <2>3, <3>1, ToAllMail
  <2>5. JoinTypes'
    BY <1>2, <2>2, <2>4 DEF clientSide, JoinInv, JoinTypes
  <2>6. OwnId'
    BY <1>2, <2>2, <2>4, FlagsOnly DEF clientSide
  <2>7. BarrierOpens'
    BY <1>2, <2>1, <2>2 DEF JoinInv, BarrierOpens
  <2> QED
    BY <1>2, <2>5, <2>6, <2>7 DEF JoinInv, clientSide
<1> QED
  BY <1>1, <1>4, <1>5

\* A handshake gives a client an entry of its own.
LEMMA JoinHandshake ==
    ASSUME JoinInv, NEW c \in Clients, Handshake(c)
    PROVE  JoinInv'
<1> DEFINE rec == [client |-> c, isReady |-> FALSE, lobbyReady |-> FALSE]
           ack == [kind |-> "ack", id |-> nextId]
           fac == [kind |-> "faction", faction |-> FactionStrings[SlotOf(nextId) + 1],
                   slot |-> SlotOf(nextId)]
<1>1. /\ id[c] = Nil /\ \A p \in DOMAIN players : players[p].client # c
      /\ nextId \in Nat /\ nextId \in 1 .. JoinBound /\ nextId' = nextId + 1
      /\ nextId \notin DOMAIN players
  BY JoinAssumption DEF Handshake, NextPlayerId, JoinInv, JoinTypes
<1>2. /\ players' = With(players, nextId, rec) /\ inbox' = [inbox EXCEPT ![c] = <<ack, fac>>]
      /\ UNCHANGED <<departed, clientSide, opened>>
  BY DEF Handshake
<1>3. rec \in JoinRecord /\ rec.client = c /\ ~rec.isReady
  BY DEF JoinRecord
<1>4. ack \in JoinMail /\ fac \in JoinMail /\ ack.kind = "ack" /\ ack.id = nextId /\ fac.kind # "ack"
  <2>1. SlotOf(nextId) \in {0, 1}
    BY <1>1 DEF SlotOf, FactionStrings
  <2>2. SlotOf(nextId) + 1 \in {1, 2} /\ SlotOf(nextId) \in Nat
    BY <2>1
  <2>4. FactionStrings[SlotOf(nextId) + 1] \in FactionNames
    BY <2>2 DEF FactionNames
  <2> QED
    BY <1>1, <2>2, <2>4 DEF JoinMail
<1> HIDE DEF rec, ack, fac
<1>5. /\ DOMAIN players' = DOMAIN players \cup {nextId} /\ players'[nextId] = rec
      /\ \A p \in DOMAIN players : players'[p] = players[p]
      /\ players' = [p \in DOMAIN players' |-> players'[p]]
  BY <1>1, <1>2 DEF With
<1>6. players' \in [DOMAIN players' -> JoinRecord]
  BY <1>3, <1>5 DEF JoinInv, JoinTypes
<1>7. /\ inbox' \in [Clients -> Seq(JoinMail)] /\ inbox'[c] = <<ack, fac>>
      /\ \A d \in Clients \ {c} : inbox'[d] = inbox[d]
  BY <1>2, <1>4 DEF JoinInv, JoinTypes
<1>8. JoinTypes'
  <2>1. nextId' \in 1 .. JoinBound + 1 /\ DOMAIN players' \subseteq 1 .. nextId' - 1
    BY <1>1, <1>5, JoinAssumption DEF JoinInv, JoinTypes
  <2> QED
    BY <1>2, <1>6, <1>7, <2>1 DEF clientSide, JoinInv, JoinTypes
<1>9. OwnId'
  <2>1. \A d \in Clients : id'[d] # Nil => id'[d] \in DOMAIN players' /\ players'[id'[d]].client = d
    BY <1>2, <1>5 DEF clientSide, JoinInv, OwnId
  <2>2. ASSUME NEW d \in Clients, NEW i \in 1 .. Len(inbox'[d]), inbox'[d][i].kind = "ack"
        PROVE  inbox'[d][i].id \in DOMAIN players' /\ players'[inbox'[d][i].id].client = d
    <3>1. CASE d = c
      <4>1. inbox'[d][1] = ack /\ inbox'[d][2] = fac /\ i \in {1, 2}
        BY <1>7, <2>2, <3>1
      <4> QED
        BY <1>3, <1>4, <1>5, <2>2, <3>1, <4>1
    <3>2. CASE d # c
      BY <1>5, <1>7, <2>2, <3>2 DEF JoinInv, OwnId
    <3> QED
      BY <3>1, <3>2
  <2> QED
    BY <2>1, <2>2 DEF OwnId
<1>10. BarrierOpens'
  <2>1. nextId \in DOMAIN players' /\ ~players'[nextId].isReady
    BY <1>3, <1>5
  <2> QED
    BY <2>1 DEF BarrierOpens
<1> QED
  BY <1>2, <1>8, <1>9, <1>10 DEF clientSide, JoinInv

\* A client leaves: nobody else had its entry or its id.
LEMMA JoinDepart ==
    ASSUME JoinInv, NEW c \in Clients, Depart(c)
    PROVE  JoinInv'
<1> DEFINE msg == [kind |-> "left", id |-> id[c]]
           box == ToAll(players', msg)
<1>1. /\ id[c] # Nil /\ players' = Without(players, id[c]) /\ departed' = TRUE
      /\ id' = [id EXCEPT ![c] = Nil]
      /\ inbox' = [box EXCEPT ![c] = << >>] /\ UNCHANGED nextId
  BY DEF Depart
<1>2. /\ id \in [Clients -> Nat \cup {Nil}]
      /\ inbox \in [Clients -> Seq(JoinMail)]
      /\ id[c] \in DOMAIN players /\ players[id[c]].client = c
  BY <1>1 DEF JoinInv, JoinTypes, OwnId
<1>3. /\ DOMAIN players' = DOMAIN players \ {id[c]}
      /\ \A p \in DOMAIN players' : players'[p] = players[p]
      /\ players' = [p \in DOMAIN players' |-> players'[p]]
  BY <1>1 DEF Without
<1>4. players' \in [DOMAIN players' -> JoinRecord]
  BY <1>3 DEF JoinInv, JoinTypes
<1>5. /\ box \in [Clients -> Seq(JoinMail)]
      /\ \A d \in Clients : \A i \in 1 .. Len(box[d]) : box[d][i].kind = "ack" =>
            i \in 1 .. Len(inbox[d]) /\ box[d][i] = inbox[d][i]
  <2>1. msg \in JoinMail /\ msg.kind # "ack"
    BY <1>1, <1>2 DEF JoinMail
  <2> HIDE DEF msg
  <2> QED
    BY <1>2, <2>1, ToAllMail
<1> HIDE DEF msg, box
<1>6. /\ inbox' \in [Clients -> Seq(JoinMail)] /\ inbox'[c] = << >>
      /\ \A d \in Clients \ {c} : inbox'[d] = box[d]
  BY <1>1, <1>5
<1>7. /\ id' \in [Clients -> Nat \cup {Nil}] /\ id'[c] = Nil /\ \A d \in Clients \ {c} : id'[d] = id[d]
  BY <1>1, <1>2
<1>8. JoinTypes'
  BY <1>1, <1>3, <1>4, <1>6, <1>7 DEF JoinInv, JoinTypes
<1>9. OwnId'
  <2>1. ASSUME NEW d \in Clients, NEW p \in DOMAIN players, players[p].client = d, d # c
        PROVE  p \in DOMAIN players' /\ players'[p].client = d
    BY <1>2, <1>3, <2>1
  <2>2. \A d \in Clients : id'[d] # Nil => id'[d] \in DOMAIN players' /\ players'[id'[d]].client = d
    BY <1>7, <2>1 DEF JoinInv, OwnId
  <2>3. ASSUME NEW d \in Clients, NEW i \in 1 .. Len(inbox'[d]), inbox'[d][i].kind = "ack"
        PROVE  inbox'[d][i].id \in DOMAIN players' /\ players'[inbox'[d][i].id].client = d
    <3>1. d # c
      BY <1>6, <2>3
    <3>2. i \in 1 .. Len(inbox[d]) /\ inbox'[d][i] = inbox[d][i] /\ inbox[d][i].kind = "ack"
      BY <1>5, <1>6, <2>3, <3>1
    <3>3. inbox'[d][i].id \in DOMAIN players /\ players[inbox'[d][i].id].client = d
      BY <3>2 DEF JoinInv, OwnId
    <3> QED
      BY <2>1, <3>1, <3>3
  <2> QED
    BY <2>2, <2>3 DEF OwnId
<1>10. BarrierOpens'
  BY <1>1 DEF BarrierOpens
<1> QED
  BY <1>8, <1>9, <1>10 DEF JoinInv

\* A client hears who it is, or something else.
LEMMA JoinReceive ==
    ASSUME JoinInv, NEW c \in Clients, Receive(c)
    PROVE  JoinInv'
<1> DEFINE msg == Head(inbox[c])
<1>1. /\ inbox[c] # << >> /\ inbox' = [inbox EXCEPT ![c] = Tail(@)]
      /\ \/ msg.kind = "ack" /\ id' = [id EXCEPT ![c] = msg.id]
         \/ id' = id
      /\ UNCHANGED <<serverSide, opened>>
  BY DEF Receive
<1>2. /\ inbox \in [Clients -> Seq(JoinMail)] /\ id \in [Clients -> Nat \cup {Nil}]
      /\ DOMAIN players \subseteq Nat
  BY DEF JoinInv, JoinTypes
<1>3. /\ msg = inbox[c][1] /\ 1 \in 1 .. Len(inbox[c]) /\ Tail(inbox[c]) \in Seq(JoinMail)
      /\ Len(Tail(inbox[c])) = Len(inbox[c]) - 1
      /\ \A i \in 1 .. Len(inbox[c]) - 1 : Tail(inbox[c])[i] = inbox[c][i + 1]
  BY <1>1, <1>2
<1> HIDE DEF msg
<1>4. /\ inbox' \in [Clients -> Seq(JoinMail)] /\ inbox'[c] = Tail(inbox[c])
      /\ \A d \in Clients \ {c} : inbox'[d] = inbox[d]
  BY <1>1, <1>2, <1>3
<1>5. msg.kind = "ack" => msg.id \in DOMAIN players /\ players[msg.id].client = c
  BY <1>3 DEF JoinInv, OwnId
<1>6. /\ id' \in [Clients -> Nat \cup {Nil}] /\ \A d \in Clients \ {c} : id'[d] = id[d]
      /\ id'[c] = id[c] \/ (id'[c] \in DOMAIN players /\ players[id'[c]].client = c)
  <2>1. CASE id' = id
    BY <1>2, <2>1, Zenon
  <2>2. CASE msg.kind = "ack" /\ id' = [id EXCEPT ![c] = msg.id]
    BY <1>2, <1>5, <2>2
  <2> QED
    BY <1>1, <2>1, <2>2
<1>7. OwnId'
  <2>1. \A d \in Clients : id'[d] # Nil => id'[d] \in DOMAIN players /\ players[id'[d]].client = d
    BY <1>6 DEF JoinInv, OwnId
  <2>2. ASSUME NEW d \in Clients, NEW i \in 1 .. Len(inbox'[d]), inbox'[d][i].kind = "ack"
        PROVE  inbox'[d][i].id \in DOMAIN players /\ players[inbox'[d][i].id].client = d
    <3>1. CASE d = c
      <4>1. i + 1 \in 1 .. Len(inbox[c]) /\ inbox'[d][i] = inbox[c][i + 1]
        <5>0. Len(inbox[c]) \in Nat
          BY <1>2
        <5>1. i \in 1 .. Len(Tail(inbox[c]))
          BY <1>4, <3>1, Zenon
        <5>2. i \in 1 .. Len(inbox[c]) - 1 /\ i + 1 \in 1 .. Len(inbox[c])
          BY <1>3, <5>0, <5>1
        <5> QED
          BY <1>3, <1>4, <3>1, <5>2
      <4> QED
        BY <2>2, <3>1, <4>1 DEF JoinInv, OwnId
    <3>2. CASE d # c
      BY <1>4, <2>2, <3>2 DEF JoinInv, OwnId
    <3> QED
      BY <3>1, <3>2
  <2> QED
    BY <1>1, <2>1, <2>2 DEF OwnId, serverSide
<1> QED
  BY <1>1, <1>4, <1>6, <1>7 DEF serverSide, JoinInv, JoinTypes, BarrierOpens

LEMMA JoinStart == ASSUME JbInit PROVE JoinInv
<1>1. nextId \in 1 .. JoinBound + 1 /\ 1 .. nextId - 1 = {} /\ DOMAIN players = {}
  BY JoinAssumption DEF JbInit
<1>2. players \in [DOMAIN players -> JoinRecord] /\ departed \in BOOLEAN /\ id \in [Clients -> Nat \cup {Nil}]
  <2>1. players \in [DOMAIN players -> JoinRecord]
    BY <1>1 DEF JbInit
  <2> QED
    BY <2>1 DEF JbInit
<1>3. inbox \in [Clients -> Seq(JoinMail)] /\ \A c \in Clients : Len(inbox[c]) = 0 /\ id[c] = Nil
  BY DEF JbInit
<1>4. OwnId
  BY <1>3 DEF OwnId
<1>5. BarrierOpens
  BY <1>1 DEF BarrierOpens
<1> QED
  BY <1>1, <1>2, <1>3, <1>4, <1>5 DEF JoinInv, JoinTypes

LEMMA JoinStep == ASSUME JoinInv, [JbNext]_jbVars PROVE JoinInv'
<1>1. ASSUME NEW c \in Clients,
             \/ OnGameLoaded(c) \/ CommandReady(c) \/ SharedSaveInit(c)
             \/ FindAndClaimModCharacters(c) \/ Register(c) \/ LinkModCharacter(c)
             \/ \E p \in 1 .. JoinBound : LookUpModCharacter(c, p) \/ DeferredModLink(c, p)
      PROVE  JoinInv'
  <2>1. UNCHANGED <<serverSide, id, inbox, opened>>
    BY <1>1 DEF OnGameLoaded, CommandReady, SharedSaveInit, FindAndClaimModCharacters, Register,
                LinkModCharacter, LookUpModCharacter, DeferredModLink, clientSide
  <2> QED
    BY <2>1 DEF serverSide, JoinInv, JoinTypes, OwnId, BarrierOpens
<1>2. CASE UNCHANGED jbVars
  BY <1>2 DEF jbVars, serverSide, clientSide, JoinInv, JoinTypes, OwnId, BarrierOpens
<1> QED
  BY <1>1, <1>2, JoinHandshake, JoinServerTakes, JoinDepart, JoinReceive DEF JbNext

LEMMA JoinInvariant == JbSpec => []JoinInv
<1> QED
  BY JoinStart, JoinStep, PTL DEF JbSpec

\* As long as nobody leaves, players who are all ready have been told so,
\* whoever reports last and however many there are (server.cpp HandlePlayerReady).
THEOREM BarrierDoesOpen == JbSpec => []BarrierOpens
<1>1. JoinInv => BarrierOpens
  BY DEF JoinInv
<1> QED
  BY <1>1, JoinInvariant, PTL

-----------------------------------------------------------------------------
(* Who holds the characters of the save.                                   *)

RegistryTypes ==
    /\ claimed \in [Clients -> SUBSET Characters]
    /\ linkedTo \in [Clients -> SUBSET Characters]
    /\ overlapped \in [Clients -> SUBSET Characters]
    /\ holder \in [Clients -> [Characters -> Characters \cup {Own, Nil}]]
    /\ claiming \in [Clients -> Characters \cup {Nil}]
    /\ linking \in [Clients -> Characters \cup {Nil}]

\* Of a character that was not registered during a link: the pointer leads to the entity
\* that has it, and what the network thread found free is not the client's own.
PointerLeads ==
    \A c \in Clients : \A n \in Characters \ overlapped[c] :
       /\ n \in claimed[c] => holder[c][n] = Own
       /\ n \in linkedTo[c] => holder[c][n] = n
       /\ linking[c] = n => holder[c][n] # Own

RegistryInv == RegistryTypes /\ PointerLeads

LEMMA OwnIsNoPlayer == Own \notin Characters /\ Nil \notin Characters /\ Own # Nil
<1>1. 1 .. 16 \subseteq Nat
  OBVIOUS
<1> QED
  BY <1>1, JoinAssumption, Zenon

\* Entities go, and with them their pointers.
LEMMA UnregisterKeeps ==
    ASSUME RegistryInv, NEW c \in Clients, NEW ps, Unregister(c, ps),
           UNCHANGED <<claimed, claiming, overlapped>>,
           linking' = linking \/ linking' = [linking EXCEPT ![c] = Nil]
    PROVE  RegistryInv'
<1>1. /\ linkedTo' = [linkedTo EXCEPT ![c] = @ \ ps]
      /\ holder' = [holder EXCEPT ![c] =
           [n \in Characters |-> IF n \in linkedTo[c] \cap ps THEN Nil ELSE @[n]]]
  BY DEF Unregister
<1>2. RegistryTypes
  BY DEF RegistryInv
<1>3. /\ linkedTo' \in [Clients -> SUBSET Characters]
      /\ linkedTo'[c] = linkedTo[c] \ ps /\ \A d \in Clients \ {c} : linkedTo'[d] = linkedTo[d]
  BY <1>1, <1>2 DEF RegistryTypes
<1>4. /\ holder' \in [Clients -> [Characters -> Characters \cup {Own, Nil}]]
      /\ \A d \in Clients \ {c} : holder'[d] = holder[d]
      /\ \A n \in Characters : holder'[c][n] = IF n \in linkedTo[c] \cap ps THEN Nil ELSE holder[c][n]
  BY <1>1, <1>2 DEF RegistryTypes
<1>5. /\ linking' \in [Clients -> Characters \cup {Nil}]
      /\ \A d \in Clients : linking'[d] \in {linking[d], Nil}
  BY <1>2 DEF RegistryTypes
<1>6. RegistryTypes'
  BY <1>2, <1>3, <1>4, <1>5 DEF RegistryTypes
<1>7. ASSUME NEW d \in Clients, NEW n \in Characters \ overlapped[d]
      PROVE  /\ n \in claimed[d] => holder'[d][n] = Own
             /\ n \in linkedTo'[d] => holder'[d][n] = n
             /\ linking'[d] = n => holder'[d][n] # Own
  <2>1. /\ n \in claimed[d] => holder[d][n] = Own
        /\ n \in linkedTo[d] => holder[d][n] = n
        /\ linking[d] = n => holder[d][n] # Own
    BY DEF RegistryInv, PointerLeads
  <2>2. n # Own /\ n # Nil /\ Own # Nil
    BY OwnIsNoPlayer
  <2> QED
    BY <1>3, <1>4, <1>5, <2>1, <2>2
<1> QED
  BY <1>6, <1>7 DEF RegistryInv, PointerLeads

\* A link of a character that is not the client's own.
LEMMA LinkKeeps ==
    ASSUME RegistryInv, NEW c \in Clients, NEW p \in Characters, SetGameObject(c, p),
           holder[c][p] = Nil \/ linking[c] = p,
           UNCHANGED <<claimed, claiming, overlapped>>,
           linking' = linking \/ linking' = [linking EXCEPT ![c] = Nil]
    PROVE  RegistryInv'
<1>1. linkedTo' = [linkedTo EXCEPT ![c] = @ \cup {p}] /\ holder' = [holder EXCEPT ![c][p] = p]
  BY DEF SetGameObject
<1>2. RegistryTypes
  BY DEF RegistryInv
<1>3. /\ linkedTo' \in [Clients -> SUBSET Characters]
      /\ linkedTo'[c] = linkedTo[c] \cup {p} /\ \A d \in Clients \ {c} : linkedTo'[d] = linkedTo[d]
  BY <1>1, <1>2 DEF RegistryTypes
<1>4. /\ holder' \in [Clients -> [Characters -> Characters \cup {Own, Nil}]]
      /\ \A d \in Clients \ {c} : holder'[d] = holder[d]
      /\ \A n \in Characters \ {p} : holder'[c][n] = holder[c][n]
      /\ holder'[c][p] = p
  BY <1>1, <1>2 DEF RegistryTypes
<1>5. /\ linking' \in [Clients -> Characters \cup {Nil}]
      /\ \A d \in Clients : linking'[d] \in {linking[d], Nil}
  BY <1>2 DEF RegistryTypes
<1>6. RegistryTypes'
  BY <1>2, <1>3, <1>4, <1>5 DEF RegistryTypes
<1>7. ASSUME NEW d \in Clients, NEW n \in Characters \ overlapped[d]
      PROVE  /\ n \in claimed[d] => holder'[d][n] = Own
             /\ n \in linkedTo'[d] => holder'[d][n] = n
             /\ linking'[d] = n => holder'[d][n] # Own
  <2>1. /\ n \in claimed[d] => holder[d][n] = Own
        /\ n \in linkedTo[d] => holder[d][n] = n
        /\ linking[d] = n => holder[d][n] # Own
    BY DEF RegistryInv, PointerLeads
  <2>2. n # Own /\ n # Nil /\ Own # Nil
    BY OwnIsNoPlayer
  <2>3. CASE d = c /\ n = p
    BY <1>4, <2>1, <2>2, <2>3
  <2>4. CASE ~(d = c /\ n = p)
    BY <1>3, <1>4, <1>5, <2>1, <2>2, <2>4
  <2> QED
    BY <2>3, <2>4
<1> QED
  BY <1>6, <1>7 DEF RegistryInv, PointerLeads

\* The client registers what it found free, if it still is.
LEMMA RegisterKeeps ==
    ASSUME RegistryInv, NEW c \in Clients, Register(c)
    PROVE  RegistryInv'
<1> DEFINE n == claiming[c]
<1>1. RegistryTypes
  BY DEF RegistryInv
<1>2. n \in Characters /\ claiming' \in [Clients -> Characters \cup {Nil}]
      /\ UNCHANGED <<linkedTo, linking>>
  BY <1>1 DEF Register, RegistryTypes
<1>3. CASE holder[c][n] # Nil
  <2>1. UNCHANGED <<claimed, holder, overlapped>>
    BY <1>3 DEF Register
  <2> QED
    BY <1>1, <1>2, <2>1 DEF RegistryInv, RegistryTypes, PointerLeads
<1>4. CASE holder[c][n] = Nil
  <2>1. /\ claimed' = [claimed EXCEPT ![c] = @ \cup {n}]
        /\ holder' = [holder EXCEPT ![c][n] = Own]
        /\ overlapped' = [overlapped EXCEPT ![c] = @ \cup ({n} \cap {linking[c]})]
    BY <1>4 DEF Register
  <2> HIDE DEF n
  <2>2. /\ claimed' \in [Clients -> SUBSET Characters] /\ claimed'[c] = claimed[c] \cup {n}
        /\ \A d \in Clients \ {c} : claimed'[d] = claimed[d]
    BY <1>1, <1>2, <2>1 DEF RegistryTypes
  <2>3. /\ holder' \in [Clients -> [Characters -> Characters \cup {Own, Nil}]]
        /\ \A d \in Clients \ {c} : holder'[d] = holder[d]
        /\ \A k \in Characters \ {n} : holder'[c][k] = holder[c][k]
        /\ holder'[c][n] = Own
    BY <1>1, <1>2, <2>1 DEF RegistryTypes
  <2>4. /\ overlapped' \in [Clients -> SUBSET Characters]
        /\ overlapped'[c] = overlapped[c] \cup ({n} \cap {linking[c]})
        /\ \A d \in Clients \ {c} : overlapped'[d] = overlapped[d]
    BY <1>1, <1>2, <2>1 DEF RegistryTypes
  <2>5. RegistryTypes'
    BY <1>1, <1>2, <2>2, <2>3, <2>4 DEF RegistryTypes
  <2>6. ASSUME NEW d \in Clients, NEW k \in Characters \ overlapped'[d]
        PROVE  /\ k \in claimed'[d] => holder'[d][k] = Own
               /\ k \in linkedTo[d] => holder'[d][k] = k
               /\ linking[d] = k => holder'[d][k] # Own
    <3>1. k \notin overlapped[d]
      BY <2>4, <2>6
    <3>2. /\ k \in claimed[d] => holder[d][k] = Own
          /\ k \in linkedTo[d] => holder[d][k] = k
          /\ linking[d] = k => holder[d][k] # Own
      BY <3>1 DEF RegistryInv, PointerLeads
    <3>3. CASE d = c /\ k = n
      <4>1. linking[c] # n
        BY <2>4, <2>6, <3>3
      <4>2. n # Nil
        BY <1>2, OwnIsNoPlayer
      <4> QED
        BY <1>4, <2>3, <3>2, <3>3, <4>1, <4>2 DEF n
    <3>4. CASE ~(d = c /\ k = n)
      BY <2>2, <2>3, <3>2, <3>4
    <3> QED
      BY <3>3, <3>4
  <2> QED
    BY <1>2, <2>5, <2>6 DEF RegistryInv, PointerLeads
<1> QED
  BY <1>3, <1>4

LEMMA RegistryStart == ASSUME JbInit PROVE RegistryInv
BY OwnIsNoPlayer DEF JbInit, RegistryInv, RegistryTypes, PointerLeads

LEMMA RegistryStep == ASSUME RegistryInv, [JbNext]_jbVars PROVE RegistryInv'
<1>1. ASSUME NEW c \in Clients, Depart(c) PROVE RegistryInv'
  BY <1>1, UnregisterKeeps DEF Depart
<1>2. ASSUME NEW c \in Clients, Receive(c) PROVE RegistryInv'
  <2>1. CASE UNCHANGED registry
    BY <2>1 DEF registry, RegistryInv, RegistryTypes, PointerLeads
  <2>2. CASE \E ps : Unregister(c, ps) /\ UNCHANGED <<claimed, claiming, linking, overlapped>>
    BY <2>2, UnregisterKeeps
  <2> QED
    BY <1>2, <2>1, <2>2 DEF Receive, registry
<1>3. ASSUME NEW c \in Clients, NEW p \in 1 .. JoinBound, LookUpModCharacter(c, p) PROVE RegistryInv'
  <2>1. /\ p \in Characters /\ holder[c][p] = Nil /\ linking' = [linking EXCEPT ![c] = p]
        /\ UNCHANGED <<claimed, linkedTo, holder, claiming, overlapped>>
    BY <1>3 DEF LookUpModCharacter, FindModCharacterBySlot
  <2>2. /\ linking' \in [Clients -> Characters \cup {Nil}] /\ linking'[c] = p
        /\ \A d \in Clients \ {c} : linking'[d] = linking[d]
    BY <2>1 DEF RegistryInv, RegistryTypes
  <2> QED
    BY <2>1, <2>2, OwnIsNoPlayer DEF RegistryInv, RegistryTypes, PointerLeads
<1>4. ASSUME NEW c \in Clients, LinkModCharacter(c) PROVE RegistryInv'
  <2>1. linking[c] \in Characters
    BY <1>4 DEF LinkModCharacter, RegistryInv, RegistryTypes
  <2> QED
    BY <1>4, <2>1, LinkKeeps DEF LinkModCharacter
<1>5. ASSUME NEW c \in Clients, NEW p \in 1 .. JoinBound, DeferredModLink(c, p) PROVE RegistryInv'
  <2>1. p \in Characters /\ holder[c][p] = Nil
    BY <1>5 DEF DeferredModLink, FindModCharacterBySlot
  <2> QED
    BY <1>5, <2>1, LinkKeeps DEF DeferredModLink
<1>6. ASSUME NEW c \in Clients, FindAndClaimModCharacters(c) PROVE RegistryInv'
  <2>1. claiming' = [claiming EXCEPT ![c] = lobby[c].slot] /\ lobby[c].slot \in Characters
        /\ UNCHANGED <<claimed, linkedTo, holder, linking, overlapped>>
    BY <1>6 DEF FindAndClaimModCharacters, FindModCharacterBySlot
  <2> QED
    BY <2>1 DEF RegistryInv, RegistryTypes, PointerLeads
<1>7. ASSUME NEW c \in Clients,
             \/ Handshake(c) \/ ServerTakes(c) \/ OnGameLoaded(c) \/ CommandReady(c) \/ SharedSaveInit(c)
      PROVE  UNCHANGED registry
  BY <1>7 DEF Handshake, ServerTakes, OnGameLoaded, CommandReady, SharedSaveInit, clientSide
<1>8. UNCHANGED jbVars => UNCHANGED registry
  BY DEF jbVars, clientSide
<1>9. UNCHANGED registry => RegistryInv'
  BY DEF registry, RegistryInv, RegistryTypes, PointerLeads
<1> QED
  BY <1>1, <1>2, <1>3, <1>4, <1>5, <1>6, <1>7, <1>8, <1>9, RegisterKeeps DEF JbNext

LEMMA RegistryInvariant == JbSpec => []RegistryInv
<1> QED
  BY RegistryStart, RegistryStep, PTL DEF JbSpec

LEMMA MastersDiffer == ASSUME RegistryInv PROVE OneMaster
<1> SUFFICES ASSUME NEW c \in Clients, NEW n \in claimed[c] \cap linkedTo[c], n \notin overlapped[c]
             PROVE  FALSE
  BY DEF OneMaster
<1>1. n \in Characters
  BY DEF RegistryInv, RegistryTypes
<1> QED
  BY <1>1, OwnIsNoPlayer DEF RegistryInv, PointerLeads

\* A character of the save has one master on a client, whatever the order of claims, spawns
\* and departures on its two threads (FindModCharacterBySlot in core.cpp), unless the claim was
\* entered between the look and the link of the other thread (packet_handler.cpp).
THEOREM EachHasOneMaster == JbSpec => []OneMaster
<1> QED
  BY MastersDiffer, RegistryInvariant, PTL

LEMMA JoinTyped == ASSUME JoinInv, RegistryInv PROVE JbTypeOK
<1>1. \A c \in Clients : holder[c] \in [Characters -> Characters \cup {Own, Nil}]
  BY DEF RegistryInv, RegistryTypes
<1> QED
  BY <1>1 DEF JoinInv, JoinTypes, OwnId, RegistryInv, RegistryTypes, JbTypeOK

\* Ids are numbers the server gave out, a client's id is an entry of the server, and what the
\* registry of a client holds are characters of the save.
THEOREM JoinIsTyped == JbSpec => []JbTypeOK
<1> QED
  BY JoinTyped, JoinInvariant, RegistryInvariant, PTL

-----------------------------------------------------------------------------
(* What the server relays.                                                 *)

HookMail ==
    [kind : {"pickup", "drop"}, t : Things, arg : {1}]
      \cup [kind : {"buy"}, t : Things, arg : Things \cup {None}]
      \cup [kind : {"transfer"}, t : Things, arg : Things]
      \cup [kind : {"gear"}, t : Things, arg : Gear]
      \cup [kind : {"relation"}, t : {None}, arg : Relations]

OrderedMail ==
    [kind : {"spawn", "traded", "denied", "squad", "member", "door"}, t : Things, arg : Int \cup {None}]
      \cup [kind : {"relation"}, t : {None}, arg : Relations]

OtherMail ==
    [kind : {"bag"}, t : Things, arg : {-1, 1}]
      \cup [kind : {"gear"}, t : Things, arg : Gear]
      \cup [kind : {"stance", "status", "progress"}, t : Things, arg : Int]

StoreTypes ==
    /\ present \subseteq Players /\ Founders \subseteq present
    /\ storeGear \in [Things -> Gear] /\ progress \in 0 .. 2 /\ squads \in Nat

HeldTypes ==
    /\ linked \in [Players -> SUBSET Things]
    /\ stack \in [Players -> [Things -> Nat \cup {None}]]
    /\ worn \in [Players -> [Things -> Gear]]
    /\ cached \in [Things -> Gear]
    /\ relation \in [Players -> Relations]
    /\ setting \in [Players -> {<<None, None>>} \cup ({"before", "after"} \X Relations)]

WireTypes ==
    /\ toServer \in [Players -> Seq(HookMail)]
    /\ reliable \in [Players -> Seq(OrderedMail)]
    /\ relayed \in [Players -> Seq(OtherMail)]

RelayTypes == StoreTypes /\ HeldTypes /\ WireTypes

\* One more message in a channel, or in those of all who are there.
LEMMA ChannelGrows ==
    ASSUME NEW S, NEW f \in [Players -> Seq(S)], NEW msg \in S, NEW m \in Players
    PROVE  /\ SendTo(f, m, msg) \in [Players -> Seq(S)]
           /\ Broadcast(f, msg) \in [Players -> Seq(S)]
           /\ BroadcastExcept(f, m, msg) \in [Players -> Seq(S)]
<1>1. \A k \in Players : f[k] \in Seq(S) /\ Append(f[k], msg) \in Seq(S)
  OBVIOUS
<1>2. SendTo(f, m, msg) \in [Players -> Seq(S)]
  BY <1>1 DEF SendTo
<1>3. Broadcast(f, msg) \in [Players -> Seq(S)]
  BY <1>1 DEF Broadcast
<1>4. BroadcastExcept(f, m, msg) \in [Players -> Seq(S)]
  BY <1>1 DEF BroadcastExcept
<1> QED
  BY <1>2, <1>3, <1>4

\* What the hooks and polls of a client do.
LEMMA HookTypes ==
    ASSUME RelayTypes, NEW m \in Players,
           \/ \E t \in Things :
                \/ Hook_ItemPickup(m, t) \/ Hook_ItemDrop(m, t)
                \/ \E seller \in Things \cup {None} : Hook_BuyItem(m, t, seller)
                \/ \E g \in Gear : GameEquips(m, t, g)
                \/ StagePollAndSendEquipment(m, t)
                \/ \E to \in Things : GiveItem(m, t, to)
           \/ \E r \in Relations : Hook_FactionRelation(m, r)
    PROVE  RelayTypes'
<1> USE DEF RelayTypes
<1>0. /\ stack \in [Players -> [Things -> Nat \cup {None}]] /\ worn \in [Players -> [Things -> Gear]]
      /\ cached \in [Things -> Gear] /\ relation \in [Players -> Relations]
  BY DEF HeldTypes
<1>1. ASSUME NEW msg \in HookMail, Send(m, msg), UNCHANGED <<reliable, relayed>>
      PROVE  WireTypes'
  <2>1. toServer' = SendTo(toServer, m, msg) /\ toServer \in [Players -> Seq(HookMail)]
    BY <1>1 DEF Send, SendTo, WireTypes
  <2>2. toServer' \in [Players -> Seq(HookMail)]
    BY <2>1, ChannelGrows
  <2> QED
    BY <1>1, <2>2 DEF WireTypes
<1>2. ASSUME UNCHANGED store PROVE StoreTypes'
  BY <1>2 DEF store, StoreTypes
<1>3. ASSUME UNCHANGED wires PROVE WireTypes'
  BY <1>3 DEF wires, WireTypes
<1>4. ASSUME NEW t \in Things, NEW n \in Nat \cup {None}, stack' = [stack EXCEPT ![m][t] = n]
      PROVE  stack' \in [Players -> [Things -> Nat \cup {None}]]
  BY <1>0, <1>4
<1>5. ASSUME NEW t \in Things
      PROVE  /\ (IF stack[m][t] = None THEN 1 ELSE stack[m][t] + 1) \in Nat \cup {None}
             /\ stack[m][t] \notin {None, 0} => stack[m][t] - 1 \in Nat \cup {None}
  <2> DEFINE s == stack[m][t]
  <2>1. s \in Nat \cup {None}
    BY <1>0
  <2> HIDE DEF s
  <2>2. s \in Nat => s + 1 \in Nat /\ (s # 0 => s - 1 \in Nat)
    OBVIOUS
  <2>3. (IF s = None THEN 1 ELSE s + 1) \in Nat \cup {None}
    <3>1. CASE s = None
      BY <3>1
    <3>2. CASE s # None
      BY <2>1, <2>2, <3>2
    <3> QED
      BY <3>1, <3>2
  <2>4. s \notin {None, 0} => s - 1 \in Nat \cup {None}
    BY <2>1, <2>2
  <2> QED
    BY <2>3, <2>4 DEF s
<1>6. ASSUME NEW t \in Things, Hook_ItemPickup(m, t) PROVE RelayTypes'
  <2>1. /\ stack' = [stack EXCEPT ![m][t] = IF stack[m][t] = None THEN 1 ELSE stack[m][t] + 1]
        /\ Send(m, Msg("pickup", t, 1))
        /\ UNCHANGED <<store, linked, worn, cached, relation, setting, reliable, relayed>>
    BY <1>0, <1>6 DEF Hook_ItemPickup, Change
  <2>2. Msg("pickup", t, 1) \in HookMail
    BY DEF Msg, HookMail
  <2>3. stack' \in [Players -> [Things -> Nat \cup {None}]]
    BY <1>4, <1>5, <2>1
  <2> QED
    BY <1>1, <1>2, <2>1, <2>2, <2>3 DEF HeldTypes
<1>7. ASSUME NEW t \in Things, Hook_ItemDrop(m, t) PROVE RelayTypes'
  <2>1. /\ stack[m][t] \notin {None, 0}
        /\ \E n \in {1, stack[m][t]} : stack' = [stack EXCEPT ![m][t] = stack[m][t] - n]
        /\ Send(m, Msg("drop", t, 1))
        /\ UNCHANGED <<store, linked, worn, cached, relation, setting, reliable, relayed>>
    BY <1>0, <1>7 DEF Hook_ItemDrop, Change
  <2>4. PICK n \in {1, stack[m][t]} : stack' = [stack EXCEPT ![m][t] = stack[m][t] - n]
    BY <2>1
  <2>5. stack[m][t] - n \in Nat \cup {None}
    <3>1. stack[m][t] \in Nat
      BY <1>0, <2>1
    <3> QED
      BY <1>5, <2>1, <3>1
  <2>2. Msg("drop", t, 1) \in HookMail
    BY DEF Msg, HookMail
  <2>3. stack' \in [Players -> [Things -> Nat \cup {None}]]
    BY <1>4, <2>4, <2>5
  <2> QED
    BY <1>1, <1>2, <2>1, <2>2, <2>3 DEF HeldTypes
<1>8. ASSUME NEW t \in Things, NEW seller \in Things \cup {None}, Hook_BuyItem(m, t, seller)
      PROVE  RelayTypes'
  <2>1. /\ stack' = [stack EXCEPT ![m][t] = IF stack[m][t] = None THEN 1 ELSE stack[m][t] + 1]
        /\ Send(m, Msg("buy", t, seller))
        /\ UNCHANGED <<store, linked, worn, cached, relation, setting, reliable, relayed>>
    BY <1>0, <1>8 DEF Hook_BuyItem, Change
  <2>2. Msg("buy", t, seller) \in HookMail
    BY DEF Msg, HookMail
  <2>3. stack' \in [Players -> [Things -> Nat \cup {None}]]
    BY <1>4, <1>5, <2>1
  <2> QED
    BY <1>1, <1>2, <2>1, <2>2, <2>3 DEF HeldTypes
<1>9. ASSUME NEW t \in Things, NEW g \in Gear, GameEquips(m, t, g) PROVE RelayTypes'
  <2>1. /\ worn' = [worn EXCEPT ![m][t] = g]
        /\ UNCHANGED <<store, wires, linked, stack, cached, relation, setting>>
    BY <1>9 DEF GameEquips, Change
  <2>2. worn' \in [Players -> [Things -> Gear]]
    BY <1>0, <2>1
  <2> QED
    BY <1>2, <1>3, <2>1, <2>2 DEF HeldTypes
<1>10. ASSUME NEW t \in Things, StagePollAndSendEquipment(m, t) PROVE RelayTypes'
  <2>1. /\ cached' = [cached EXCEPT ![t] = worn[m][t]]
        /\ Send(m, Msg("gear", t, worn[m][t]))
        /\ UNCHANGED <<store, linked, stack, worn, relation, setting, reliable, relayed>>
    BY <1>10 DEF StagePollAndSendEquipment
  <2>2. Msg("gear", t, worn[m][t]) \in HookMail /\ cached' \in [Things -> Gear]
    BY <1>0, <2>1 DEF Msg, HookMail
  <2> QED
    BY <1>1, <1>2, <2>1, <2>2 DEF HeldTypes
<1>11. ASSUME NEW t \in Things, NEW to \in Things, GiveItem(m, t, to) PROVE RelayTypes'
  <2>1. /\ stack[m][t] \notin {None, 0} /\ to # t
        /\ stack' = [stack EXCEPT ![m][t] = @ - 1, ![m][to] = IF @ = None THEN 1 ELSE @ + 1]
        /\ Send(m, Msg("transfer", t, to))
        /\ UNCHANGED <<store, linked, worn, cached, relation, setting, reliable, relayed>>
    BY <1>11 DEF GiveItem, Change
  <2>2. Msg("transfer", t, to) \in HookMail
    BY DEF Msg, HookMail
  <2>3. stack' \in [Players -> [Things -> Nat \cup {None}]]
    <3>1. /\ (IF stack[m][to] = None THEN 1 ELSE stack[m][to] + 1) \in Nat \cup {None}
          /\ stack[m][t] - 1 \in Nat \cup {None}
      BY <1>5, <2>1
    <3> QED
      BY <1>0, <2>1, <3>1
  <2> QED
    BY <1>1, <1>2, <2>1, <2>2, <2>3 DEF HeldTypes
<1>12. ASSUME NEW r \in Relations, Hook_FactionRelation(m, r) PROVE RelayTypes'
  <2>1. /\ relation' = [relation EXCEPT ![m] = r]
        /\ Send(m, Msg("relation", None, r)) \/ UNCHANGED toServer
        /\ UNCHANGED <<store, linked, stack, worn, cached, setting, reliable, relayed>>
    BY <1>12 DEF Hook_FactionRelation, Change
  <2>2. Msg("relation", None, r) \in HookMail /\ relation' \in [Players -> Relations]
    BY <1>0, <2>1 DEF Msg, HookMail
  <2>3. WireTypes'
    BY <1>1, <1>3, <2>1, <2>2 DEF wires
  <2> QED
    BY <1>2, <2>1, <2>2, <2>3 DEF HeldTypes
<1> QED
  BY <1>6, <1>7, <1>8, <1>9, <1>10, <1>11, <1>12

\* A finite set can be listed.
LEMMA SetIsListed ==
    ASSUME NEW S, IsFiniteSet(S) PROVE SetToSeq(S) \in Seq(S)
<1>1. PICK n \in Nat : ExistsBijection(1 .. n, S)
  BY FS_NatBijection
<1>2. n = Cardinality(S)
  BY <1>1, FS_CountingElements
<1>3. PICK f \in Bijection(1 .. n, S) : TRUE
  BY <1>1 DEF ExistsBijection
<1>4. f \in [1 .. n -> S] /\ IsInjective(f)
  BY <1>3 DEF Bijection, Injection, IsInjective
<1>5. SetToSeq(S) \in [1 .. n -> S]
  BY <1>2, <1>4 DEF SetToSeq
<1> QED
  BY <1>1, <1>5

\* What a handler of the server does with a message of a client's hook.
LEMMA HandlerTypes ==
    ASSUME RelayTypes, NEW m \in Players, NEW msg \in HookMail, Dispatch(m, msg)
    PROVE  /\ StoreTypes'
           /\ reliable' \in [Players -> Seq(OrderedMail)]
           /\ relayed' \in [Players -> Seq(OtherMail)]
<1> USE DEF RelayTypes
<1>0. reliable \in [Players -> Seq(OrderedMail)] /\ relayed \in [Players -> Seq(OtherMail)]
  BY DEF WireTypes
<1>1. ASSUME UNCHANGED store PROVE StoreTypes'
  BY <1>1 DEF store, StoreTypes
<1>2. ASSUME NEW t \in Things, NEW n \in {-1, 1} PROVE Msg("bag", t, n) \in OtherMail
  BY DEF Msg, OtherMail
<1>3. CASE msg.kind = "pickup" /\ HandleItemPickup(m, msg.t, msg.arg)
  <2>1. msg.t \in Things /\ msg.arg = 1
    BY <1>3 DEF HookMail
  <2>2. BroadcastExcept(relayed, m, Msg("bag", msg.t, msg.arg)) \in [Players -> Seq(OtherMail)]
    BY <1>0, <1>2, <2>1, ChannelGrows
  <2>3. relayed' \in {relayed, BroadcastExcept(relayed, m, Msg("bag", msg.t, msg.arg))}
    BY <1>3 DEF HandleItemPickup
  <2> QED
    BY <1>0, <1>1, <1>3, <2>2, <2>3 DEF HandleItemPickup
<1>4. CASE msg.kind = "drop" /\ HandleItemDrop(m, msg.t)
  <2>1. msg.t \in Things
    BY <1>4 DEF HookMail
  <2>2. BroadcastExcept(relayed, m, Msg("bag", msg.t, -1)) \in [Players -> Seq(OtherMail)]
    BY <1>0, <1>2, <2>1, ChannelGrows
  <2>3. relayed' \in {relayed, BroadcastExcept(relayed, m, Msg("bag", msg.t, -1))}
    BY <1>4 DEF HandleItemDrop
  <2> QED
    BY <1>0, <1>1, <1>4, <2>2, <2>3 DEF HandleItemDrop
<1>5. CASE msg.kind = "transfer" /\ HandleItemTransfer(m, msg.t, msg.arg)
  <2> DEFINE once == BroadcastExcept(relayed, m, Msg("bag", msg.t, -1))
             twice == BroadcastExcept(once, m, Msg("bag", msg.arg, 1))
  <2>1. msg.t \in Things /\ msg.arg \in Things
    BY <1>5 DEF HookMail
  <2>2. once \in [Players -> Seq(OtherMail)]
    BY <1>0, <1>2, <2>1, ChannelGrows
  <2> HIDE DEF once
  <2>3. twice \in [Players -> Seq(OtherMail)]
    BY <1>2, <2>1, <2>2, ChannelGrows
  <2>4. relayed' \in {relayed, twice}
    BY <1>5 DEF HandleItemTransfer, once
  <2> QED
    BY <1>0, <1>1, <1>5, <2>3, <2>4 DEF HandleItemTransfer
<1>6. CASE msg.kind = "buy" /\ HandleTradeRequest(m, msg.t, msg.arg, TRUE)
  <2>1. msg.t \in Things
    BY <1>6 DEF HookMail
  <2>2. Msg("denied", msg.t, None) \in OrderedMail /\ Msg("traded", msg.t, None) \in OrderedMail
    BY <2>1 DEF Msg, OrderedMail
  <2>3. /\ SendTo(reliable, m, Msg("denied", msg.t, None)) \in [Players -> Seq(OrderedMail)]
        /\ Broadcast(reliable, Msg("traded", msg.t, None)) \in [Players -> Seq(OrderedMail)]
    BY <1>0, <2>2, ChannelGrows
  <2>4. reliable' \in {reliable, SendTo(reliable, m, Msg("denied", msg.t, None)),
                       Broadcast(reliable, Msg("traded", msg.t, None))}
    BY <1>6 DEF HandleTradeRequest
  <2> QED
    BY <1>0, <1>1, <1>6, <2>3, <2>4 DEF HandleTradeRequest
<1>7. CASE msg.kind = "gear" /\ HandleEquipmentUpdate(m, msg.t, msg.arg)
  <2>1. msg.t \in Things /\ msg.arg \in Gear
    BY <1>7 DEF HookMail
  <2>2. Msg("gear", msg.t, msg.arg) \in OtherMail
    BY <2>1 DEF Msg, OtherMail
  <2>3. BroadcastExcept(relayed, m, Msg("gear", msg.t, msg.arg)) \in [Players -> Seq(OtherMail)]
    BY <1>0, <2>2, ChannelGrows
  <2>4. CASE Owned(m, msg.t) /\ Slot < SlotCount
    BY <1>0, <1>7, <2>1, <2>3, <2>4 DEF HandleEquipmentUpdate, StoreTypes
  <2>5. CASE ~(Owned(m, msg.t) /\ Slot < SlotCount)
    BY <1>0, <1>1, <1>7, <2>5 DEF HandleEquipmentUpdate
  <2> QED
    BY <2>4, <2>5
<1>8. CASE msg.kind = "relation" /\ HandleFactionRelation(m, None, msg.arg)
  <2>1. msg.arg \in Relations
    BY <1>8 DEF HookMail
  <2>2. Msg("relation", None, msg.arg) \in OrderedMail
    BY <2>1 DEF Msg, OrderedMail
  <2>3. Broadcast(reliable, Msg("relation", None, msg.arg)) \in [Players -> Seq(OrderedMail)]
    BY <1>0, <2>2, ChannelGrows
  <2>4. reliable' \in {reliable, Broadcast(reliable, Msg("relation", None, msg.arg))}
    BY <1>8 DEF HandleFactionRelation, RelationAudience
  <2> QED
    BY <1>0, <1>1, <1>8, <2>3, <2>4 DEF HandleFactionRelation
<1> QED
  BY <1>3, <1>4, <1>5, <1>6, <1>7, <1>8 DEF Dispatch

\* What the server does with requests, a join and its ticks.
LEMMA ServerTypes ==
    ASSUME RelayTypes, NEW m \in Players,
           \/ \E t \in Things :
                \/ \E p \in Places : HandlePositionUpdate(m, t, p)
                \/ Notice(m, t)
           \/ ServerUpdate(m)
           \/ BroadcastPositions(m)
           \/ SendWorldSnapshot(m)
    PROVE  RelayTypes'
<1> USE DEF RelayTypes
<1>0. /\ reliable \in [Players -> Seq(OrderedMail)] /\ relayed \in [Players -> Seq(OtherMail)]
      /\ toServer \in [Players -> Seq(HookMail)]
  BY DEF WireTypes
<1>1. ASSUME UNCHANGED games PROVE HeldTypes'
  BY <1>1 DEF games, HeldTypes
<1>2. ASSUME NEW t \in Things, NEW p \in Places, HandlePositionUpdate(m, t, p) PROVE RelayTypes'
  BY <1>1, <1>2 DEF HandlePositionUpdate, Change, wires, store, StoreTypes, WireTypes
<1>3. ASSUME NEW t \in Things, Notice(m, t) PROVE RelayTypes'
  <2>0. /\ UNCHANGED games /\ toServer' = toServer
    BY <1>3 DEF Notice
  <2>1. CASE HandleSquadCreate(m, t)
    <3>1. squads \in Nat /\ squads + 1 \in Nat
      BY DEF StoreTypes
    <3>2. Msg("squad", t, squads + 1) \in OrderedMail
      BY <3>1 DEF Msg, OrderedMail
    <3>3. Broadcast(reliable, Msg("squad", t, squads + 1)) \in [Players -> Seq(OrderedMail)]
      BY <1>0, <3>2, ChannelGrows
    <3>4. reliable' \in {reliable, Broadcast(reliable, Msg("squad", t, squads + 1))}
          /\ squads' \in {squads, squads + 1}
      BY <2>1 DEF HandleSquadCreate
    <3> QED
      BY <1>0, <1>1, <2>0, <2>1, <3>1, <3>3, <3>4 DEF HandleSquadCreate, StoreTypes, WireTypes
  <2>2. CASE HandleSquadAddMember(m, t)
    <3>1. Msg("member", t, None) \in OrderedMail
      BY DEF Msg, OrderedMail
    <3>2. BroadcastExcept(reliable, m, Msg("member", t, None)) \in [Players -> Seq(OrderedMail)]
      BY <1>0, <3>1, ChannelGrows
    <3>3. reliable' \in {reliable, BroadcastExcept(reliable, m, Msg("member", t, None))}
      BY <2>2 DEF HandleSquadAddMember
    <3> QED
      BY <1>0, <1>1, <2>0, <2>2, <3>2, <3>3 DEF HandleSquadAddMember, store, StoreTypes, WireTypes
  <2>3. ASSUME NEW action \in {3, 4}, HandleDoorInteract(m, t, action) PROVE RelayTypes'
    <3>1. Msg("door", t, action) \in OrderedMail
      BY DEF Msg, OrderedMail
    <3>2. Broadcast(reliable, Msg("door", t, action)) \in [Players -> Seq(OrderedMail)]
      BY <1>0, <3>1, ChannelGrows
    <3>3. reliable' \in {reliable, Broadcast(reliable, Msg("door", t, action))}
      BY <2>3 DEF HandleDoorInteract
    <3> QED
      BY <1>0, <1>1, <2>0, <2>3, <3>2, <3>3 DEF HandleDoorInteract, store, StoreTypes, WireTypes
  <2>4. ASSUME NEW kind \in {"stance", "status"}, NEW n \in {3, 4},
               relayed' \in {relayed, BroadcastExcept(relayed, m, Msg(kind, t, n))},
               UNCHANGED <<reliable, store>>
        PROVE  RelayTypes'
    <3>1. Msg(kind, t, n) \in OtherMail
      BY DEF Msg, OtherMail
    <3>2. BroadcastExcept(relayed, m, Msg(kind, t, n)) \in [Players -> Seq(OtherMail)]
      BY <1>0, <3>1, ChannelGrows
    <3> QED
      BY <1>0, <1>1, <2>0, <2>4, <3>2 DEF store, StoreTypes, WireTypes
  <2>5. ASSUME NEW stance \in {3, 4}, HandleCombatStance(m, t, stance) PROVE RelayTypes'
    BY <2>4, <2>5 DEF HandleCombatStance
  <2>6. ASSUME NEW effect \in {3, 4}, HandleStatusEffect(m, t, effect) PROVE RelayTypes'
    BY <2>4, <2>6 DEF HandleStatusEffect
  <2>7. CASE HandleBuildRepair(m, t)
    <3>1. progress' \in 0 .. 2
      BY <2>7 DEF HandleBuildRepair, Repaired, StoreTypes
    <3>2. Msg("progress", t, progress') \in OtherMail
      BY <3>1 DEF Msg, OtherMail
    <3>3. relayed' \in [Players -> Seq(OtherMail)]
      BY <1>0, <2>7, <3>2, ChannelGrows DEF HandleBuildRepair
    <3> QED
      BY <1>0, <1>1, <2>0, <2>7, <3>1, <3>3 DEF HandleBuildRepair, StoreTypes, WireTypes
  <2> QED
    BY <1>3, <2>1, <2>2, <2>3, <2>5, <2>6, <2>7 DEF Notice
<1>4. CASE ServerUpdate(m)
  <2>1. toServer[m] \in Seq(HookMail) /\ toServer[m] # << >>
    BY <1>0, <1>4 DEF ServerUpdate
  <2>2. Head(toServer[m]) \in HookMail /\ Tail(toServer[m]) \in Seq(HookMail)
    BY <2>1
  <2>3. toServer' \in [Players -> Seq(HookMail)]
    BY <1>0, <1>4, <2>2 DEF ServerUpdate
  <2>4. Dispatch(m, Head(toServer[m])) /\ UNCHANGED games
    BY <1>4 DEF ServerUpdate
  <2> QED
    BY <1>1, <2>2, <2>3, <2>4, HandlerTypes DEF WireTypes
<1>5. CASE BroadcastPositions(m)
  BY <1>5 DEF BroadcastPositions, store, wires, StoreTypes, HeldTypes, WireTypes
<1>6. CASE SendWorldSnapshot(m)
  <2> DEFINE things  == SetToSeq(Things)
             dressed == SetToSeq({t \in Things : storeGear[t] # 0})
             spawns == [i \in DOMAIN things |-> Msg("spawn", things[i], None)]
             gears  == [i \in DOMAIN dressed |-> Msg("gear", dressed[i], storeGear[dressed[i]])]
  <2>1. IsFiniteSet(Things) /\ IsFiniteSet({t \in Things : storeGear[t] # 0})
    BY RelayAssumption, FS_Subset
  <2>2. things \in Seq(Things) /\ dressed \in Seq({t \in Things : storeGear[t] # 0})
    BY <2>1, SetIsListed
  <2>3. /\ reliable' = [reliable EXCEPT ![m] = @ \o spawns]
        /\ relayed' = [relayed EXCEPT ![m] = @ \o gears]
        /\ present' = present \cup {m}
        /\ UNCHANGED <<storeGear, squads, progress, games, toServer>>
    BY <1>6 DEF SendWorldSnapshot
  <2>4. storeGear \in [Things -> Gear]
    BY DEF StoreTypes
  <2> HIDE DEF things, dressed
  <2>5. spawns \in Seq(OrderedMail)
    <3>1. \A i \in DOMAIN things : Msg("spawn", things[i], None) \in OrderedMail
      BY <2>2 DEF Msg, OrderedMail
    <3> QED
      BY <2>2, <3>1
  <2>6. gears \in Seq(OtherMail)
    <3>1. \A i \in DOMAIN dressed : Msg("gear", dressed[i], storeGear[dressed[i]]) \in OtherMail
      BY <2>2, <2>4 DEF Msg, OtherMail
    <3> QED
      BY <2>2, <3>1
  <2> HIDE DEF spawns, gears
  <2>7. reliable[m] \o spawns \in Seq(OrderedMail) /\ relayed[m] \o gears \in Seq(OtherMail)
    BY <1>0, <2>5, <2>6
  <2>8. WireTypes'
    BY <1>0, <2>3, <2>7 DEF WireTypes
  <2>9. StoreTypes'
    BY <2>3 DEF StoreTypes
  <2> QED
    BY <1>1, <2>3, <2>8, <2>9
<1> QED
  BY <1>2, <1>3, <1>4, <1>5, <1>6

\* What the packet handlers of a client do.
LEMMA ClientTypes ==
    ASSUME RelayTypes, NEW m \in Players,
           TakeRelayed(m) \/ TakeReliable(m) \/ ApplyRelation(m) \/ ClearServerSourced(m)
    PROVE  RelayTypes'
<1> USE DEF RelayTypes
<1>0. /\ reliable \in [Players -> Seq(OrderedMail)] /\ relayed \in [Players -> Seq(OtherMail)]
      /\ stack \in [Players -> [Things -> Nat \cup {None}]] /\ worn \in [Players -> [Things -> Gear]]
      /\ linked \in [Players -> SUBSET Things] /\ relation \in [Players -> Relations]
      /\ setting \in [Players -> {<<None, None>>} \cup ({"before", "after"} \X Relations)]
  BY DEF HeldTypes, WireTypes
<1>1. ASSUME UNCHANGED store PROVE StoreTypes'
  BY <1>1 DEF store, StoreTypes
<1>2. CASE TakeRelayed(m)
  <2> DEFINE msg == Head(relayed[m])
  <2>1. relayed[m] \in Seq(OtherMail) /\ relayed[m] # << >>
    BY <1>0, <1>2 DEF TakeRelayed
  <2>2. msg \in OtherMail /\ Tail(relayed[m]) \in Seq(OtherMail)
    BY <2>1
  <2>3. /\ relayed' = [relayed EXCEPT ![m] = Tail(@)]
        /\ \/ msg.kind = "bag" /\ HandleInventoryUpdate(m, msg)
           \/ msg.kind = "gear" /\ HandleEquipment(m, msg)
           \/ UNCHANGED <<stack, worn>>
        /\ UNCHANGED <<store, linked, cached, relation, setting, toServer, reliable>>
    BY <1>2 DEF TakeRelayed
  <2> HIDE DEF msg
  <2>4. StoreTypes' /\ WireTypes'
    BY <1>0, <1>1, <2>2, <2>3 DEF WireTypes
  <2>5. stack' \in [Players -> [Things -> Nat \cup {None}]] /\ worn' \in [Players -> [Things -> Gear]]
    <3>1. CASE msg.kind = "bag" /\ HandleInventoryUpdate(m, msg)
      <4>1. msg.t \in Things /\ msg.arg \in {-1, 1}
        BY <2>2, <3>1 DEF OtherMail
      <4>2. CASE ~(msg.t \in linked[m] /\ stack[m][msg.t] # None)
        BY <1>0, <3>1, <4>2 DEF HandleInventoryUpdate
      <4>3. CASE msg.t \in linked[m] /\ stack[m][msg.t] # None
        <5> DEFINE n == stack[m][msg.t]
                   k == IF msg.arg > 0 THEN AddItem(n, msg.arg) ELSE RemoveItem(n, -msg.arg)
        <5>1. n \in Nat
          BY <1>0, <4>1, <4>3
        <5> HIDE DEF n
        <5>2. k \in Nat
          BY <4>1, <5>1 DEF AddItem, RemoveItem
        <5>3. stack' = [stack EXCEPT ![m][msg.t] = k] /\ worn' = worn
          BY <3>1, <4>3 DEF HandleInventoryUpdate, n
        <5> HIDE DEF k
        <5> QED
          BY <1>0, <4>1, <5>2, <5>3
      <4> QED
        BY <4>2, <4>3
    <3>2. CASE msg.kind = "gear" /\ HandleEquipment(m, msg)
      <4>1. msg.t \in Things /\ msg.arg \in Gear
        BY <2>2, <3>2 DEF OtherMail
      <4>2. [worn EXCEPT ![m][msg.t] = msg.arg] \in [Players -> [Things -> Gear]]
        BY <1>0, <4>1
      <4> QED
        BY <1>0, <3>2, <4>2 DEF HandleEquipment
    <3> QED
      BY <1>0, <2>3, <3>1, <3>2
  <2> QED
    BY <2>3, <2>4, <2>5 DEF HeldTypes
<1>3. CASE TakeReliable(m)
  <2> DEFINE msg == Head(reliable[m])
  <2>1. reliable[m] \in Seq(OrderedMail) /\ reliable[m] # << >>
    BY <1>0, <1>3 DEF TakeReliable
  <2>2. msg \in OrderedMail /\ Tail(reliable[m]) \in Seq(OrderedMail)
    BY <2>1
  <2>3. /\ reliable' = [reliable EXCEPT ![m] = Tail(@)]
        /\ \/ msg.kind = "spawn" /\ linked' \in {linked, [linked EXCEPT ![m] = @ \cup {msg.t}]}
              /\ UNCHANGED setting
           \/ msg.kind = "relation" /\ setting' = [setting EXCEPT ![m] = <<"before", msg.arg>>]
              /\ UNCHANGED linked
           \/ UNCHANGED <<linked, setting>>
        /\ UNCHANGED <<store, stack, worn, cached, relation, toServer, relayed>>
    BY <1>3 DEF TakeReliable
  <2> HIDE DEF msg
  <2>4. StoreTypes' /\ WireTypes'
    BY <1>0, <1>1, <2>2, <2>3 DEF WireTypes
  <2>5. linked' \in [Players -> SUBSET Things]
        /\ setting' \in [Players -> {<<None, None>>} \cup ({"before", "after"} \X Relations)]
    <3>1. msg.kind = "spawn" => msg.t \in Things
      BY <2>2 DEF OrderedMail
    <3>2. msg.kind = "relation" => msg.arg \in Relations
      BY <2>2 DEF OrderedMail
    <3>3. msg.kind = "spawn" => [linked EXCEPT ![m] = @ \cup {msg.t}] \in [Players -> SUBSET Things]
      BY <1>0, <3>1
    <3>4. msg.kind = "relation" => <<"before", msg.arg>> \in {"before", "after"} \X Relations
      BY <3>2
    <3>5. ASSUME NEW v \in {"before", "after"} \X Relations
          PROVE  [setting EXCEPT ![m] = v]
                   \in [Players -> {<<None, None>>} \cup ({"before", "after"} \X Relations)]
      BY <1>0
    <3>6. CASE msg.kind = "spawn" /\ linked' \in {linked, [linked EXCEPT ![m] = @ \cup {msg.t}]}
               /\ UNCHANGED setting
      BY <1>0, <3>3, <3>6
    <3>7. CASE msg.kind = "relation" /\ setting' = [setting EXCEPT ![m] = <<"before", msg.arg>>]
               /\ UNCHANGED linked
      <4>1. setting' \in [Players -> {<<None, None>>} \cup ({"before", "after"} \X Relations)]
        BY <3>4, <3>5, <3>7
      <4> QED
        BY <1>0, <3>7, <4>1
    <3>8. CASE UNCHANGED <<linked, setting>>
      BY <1>0, <3>8
    <3> QED
      BY <2>3, <3>6, <3>7, <3>8
  <2> QED
    BY <2>3, <2>4, <2>5 DEF HeldTypes
<1>4. CASE ApplyRelation(m)
  <2>1. setting[m] \in {"before", "after"} \X Relations
    BY <1>0, <1>4, RelayAssumption DEF ApplyRelation
  <2>2. /\ relation' = [relation EXCEPT ![m] = setting[m][2]]
        /\ setting' = [setting EXCEPT ![m] = <<"after", setting[m][2]>>]
        /\ UNCHANGED <<store, linked, stack, worn, cached, wires>>
    BY <1>0, <1>4 DEF ApplyRelation
  <2> QED
    BY <1>0, <1>1, <2>1, <2>2 DEF HeldTypes, WireTypes, wires
<1>5. CASE ClearServerSourced(m)
  BY <1>0, <1>1, <1>5 DEF ClearServerSourced, HeldTypes, WireTypes, wires
<1> QED
  BY <1>2, <1>3, <1>4, <1>5

LEMMA RelayStart ==
    ASSUME RsInit PROVE RelayTypes
<1>1. (CHOOSE r \in Relations : TRUE) \in Relations
  BY RelayAssumption
<1>2. Founders \subseteq Players /\ 0 \in Gear
  BY RelayAssumption
<1>3. StoreTypes
  BY <1>2 DEF RsInit, StoreTypes
<1>4. HeldTypes
  BY <1>1, <1>2 DEF RsInit, HeldTypes
<1>5. WireTypes
  BY DEF RsInit, WireTypes
<1> QED
  BY <1>3, <1>4, <1>5 DEF RelayTypes

LEMMA RelayStep ==
    ASSUME RelayTypes, [RsNext]_rsVars PROVE RelayTypes'
<1>1. CASE UNCHANGED rsVars
  BY <1>1 DEF RelayTypes, StoreTypes, HeldTypes, WireTypes, rsVars, store, games, wires
<1>2. ASSUME NEW m \in Players,
             TakeRelayed(m) \/ TakeReliable(m) \/ ApplyRelation(m) \/ ClearServerSourced(m)
      PROVE  RelayTypes'
  BY <1>2, ClientTypes
<1>3. CASE RsNext
  BY <1>2, <1>3, HookTypes, ServerTypes DEF RsNext
<1> QED
  BY <1>1, <1>3

LEMMA RelayTyped == ASSUME RelayTypes PROVE RsTypeOK
  BY DEF RelayTypes, StoreTypes, HeldTypes, RsTypeOK

\* Whatever the clients report and the server passes on, stacks never go below zero,
\* repairs never over the end, and a channel carries only what its reader can take.
THEOREM RelayIsTyped == RsSpec => []RsTypeOK
<1> QED
  BY RelayTyped, RelayStart, RelayStep, PTL DEF RsSpec

-----------------------------------------------------------------------------
(* The relation all clients end up with.                                   *)

\* A channel without a relation on its way, and one whose last relation is v.
NoNews(q)  == \A i \in 1 .. Len(q) : q[i].kind # "relation"
Told(q, v) == \A i \in 1 .. Len(q) :
                  q[i].kind = "relation" /\ (\A j \in i + 1 .. Len(q) : q[j].kind # "relation")
                     => q[i].arg = v

\* A client has v, is about to set it or to hear it, or has news of its own for the server.
Knows(m, v) ==
    /\ Told(reliable[m], v)
    /\ \/ ~NoNews(toServer[m])
       \/ NoNews(reliable[m]) => IF setting[m][1] = "before" THEN setting[m][2] = v
                                                             ELSE relation[m] = v

RelationInv == muted \/ \E v \in Relations : \A m \in Founders : Knows(m, v)

\* One more message at the end, of another kind or the news itself.
LEMMA NewsArrives ==
    ASSUME NEW S, NEW q \in Seq(S), NEW x \in S
    PROVE  /\ x.kind # "relation" => /\ NoNews(Append(q, x)) <=> NoNews(q)
                                     /\ \A v : Told(q, v) => Told(Append(q, x), v)
           /\ x.kind = "relation" => /\ ~NoNews(Append(q, x))
                                     /\ Told(Append(q, x), x.arg)
<1> DEFINE n == Len(q)
           a == Append(q, x)
<1>1. /\ n \in Nat /\ Len(a) = n + 1 /\ a[n + 1] = x
      /\ \A i \in 1 .. n : a[i] = q[i]
      /\ \A i \in 1 .. n + 1 : i = n + 1 \/ i \in 1 .. n
      /\ n + 1 \in 1 .. n + 1 /\ 1 .. n \subseteq 1 .. n + 1
  OBVIOUS
<1>2. NoNews(q) <=> \A i \in 1 .. n : q[i].kind # "relation"
  BY DEF NoNews
<1>3. NoNews(a) <=> \A i \in 1 .. n + 1 : a[i].kind # "relation"
  BY <1>1 DEF NoNews
<1>4. ASSUME NEW v
      PROVE  Told(a, v) <=> \A i \in 1 .. n + 1 :
                a[i].kind = "relation" /\ (\A j \in i + 1 .. n + 1 : a[j].kind # "relation")
                     => a[i].arg = v
  BY <1>1 DEF Told
<1>5. ASSUME x.kind # "relation", NEW v, Told(q, v) PROVE Told(a, v)
  <2>1. ASSUME NEW i \in 1 .. n + 1, a[i].kind = "relation",
               \A j \in i + 1 .. n + 1 : a[j].kind # "relation"
        PROVE  a[i].arg = v
    <3>1. i \in 1 .. n /\ a[i] = q[i]
      BY <1>1, <1>5, <2>1
    <3>2. \A j \in i + 1 .. n : q[j].kind # "relation"
      <4>1. ASSUME NEW j \in i + 1 .. n PROVE j \in i + 1 .. n + 1 /\ j \in 1 .. n
        BY <1>1, <3>1
      <4> QED
        BY <1>1, <2>1, <4>1
    <3> QED
      BY <1>5, <2>1, <3>1, <3>2 DEF Told
  <2> QED
    BY <1>4, <2>1
<1>6. ASSUME x.kind = "relation" PROVE Told(a, x.arg)
  <2>1. ASSUME NEW i \in 1 .. n + 1, a[i].kind = "relation",
               \A j \in i + 1 .. n + 1 : a[j].kind # "relation"
        PROVE  a[i].arg = x.arg
    <3>1. i \in 1 .. n => n + 1 \in i + 1 .. n + 1
      BY <1>1
    <3>2. i = n + 1
      BY <1>1, <1>6, <2>1, <3>1
    <3> QED
      BY <1>1, <3>2
  <2> QED
    BY <1>4, <2>1
<1> HIDE DEF n, a
<1>7. x.kind # "relation" => (NoNews(a) <=> NoNews(q))
  BY <1>1, <1>2, <1>3
<1>8. x.kind = "relation" => ~NoNews(a)
  BY <1>1, <1>3
<1> QED
  BY <1>5, <1>6, <1>7, <1>8 DEF a

\* The first message goes.
LEMMA NewsTaken ==
    ASSUME NEW S, NEW q \in Seq(S), q # << >>
    PROVE  /\ \A v : Told(q, v) => Told(Tail(q), v)
           /\ Head(q).kind # "relation" => (NoNews(Tail(q)) => NoNews(q))
           /\ \A v : /\ Told(q, v) /\ Head(q).kind = "relation" /\ NoNews(Tail(q))
                     => Head(q).arg = v
<1> DEFINE n == Len(q)
           a == Tail(q)
<1>1. /\ n \in Nat /\ n > 0 /\ Len(a) = n - 1 /\ Head(q) = q[1]
      /\ \A i \in 1 .. n - 1 : a[i] = q[i + 1]
  OBVIOUS
<1>2. \A i \in 1 .. n : i = 1 \/ (i - 1 \in 1 .. n - 1 /\ q[i] = a[i - 1])
  BY <1>1
<1> HIDE DEF a, n
<1>3. ASSUME NEW v, Told(q, v) PROVE Told(a, v)
  <2>1. ASSUME NEW i \in 1 .. n - 1, a[i].kind = "relation",
               \A j \in i + 1 .. n - 1 : a[j].kind # "relation"
        PROVE  a[i].arg = v
    <3>1. i + 1 \in 1 .. n /\ q[i + 1].kind = "relation"
      BY <1>1, <2>1
    <3>2. \A j \in i + 1 + 1 .. n : q[j].kind # "relation"
      <4>1. ASSUME NEW j \in i + 1 + 1 .. n
            PROVE  j \in 1 .. n /\ j # 1 /\ j - 1 \in i + 1 .. n - 1
        BY <1>1
      <4> QED
        BY <1>2, <2>1, <4>1
    <3> QED
      BY <1>1, <1>3, <2>1, <3>1, <3>2 DEF Told, n
  <2> QED
    BY <1>1, <2>1 DEF Told
<1>4. ASSUME q[1].kind # "relation", NoNews(a) PROVE NoNews(q)
  BY <1>1, <1>2, <1>4 DEF NoNews, n
<1>5. ASSUME NEW v, Told(q, v), q[1].kind = "relation", NoNews(a) PROVE q[1].arg = v
  <2>1. ASSUME NEW j \in 1 + 1 .. n PROVE q[j].kind # "relation"
    <3>1. j \in 1 .. n /\ j # 1
      BY <1>1
    <3> QED
      BY <1>1, <1>2, <1>5, <3>1 DEF NoNews
  <2>2. 1 \in 1 .. n
    BY <1>1
  <2> QED
    BY <1>5, <2>1, <2>2 DEF Told, n
<1> QED
  BY <1>1, <1>3, <1>4, <1>5 DEF a

\* A step that moves no relation: what is known stays known.
LEMMA NothingNew ==
    ASSUME RelayTypes, RelationInv, UNCHANGED <<relation, setting, muted>>,
           \A k \in Founders : NoNews(toServer'[k]) => NoNews(toServer[k]),
           \A k \in Founders : \/ reliable'[k] = reliable[k]
                               \/ \E x \in OrderedMail : /\ x.kind # "relation"
                                                         /\ reliable'[k] = Append(reliable[k], x)
    PROVE  RelationInv'
<1>1. CASE muted
  BY <1>1 DEF RelationInv
<1>2. CASE ~muted
  <2>1. PICK v \in Relations : \A m \in Founders : Knows(m, v)
    BY <1>2 DEF RelationInv
  <2>2. ASSUME NEW m \in Founders PROVE Knows(m, v)'
    <3>0. reliable[m] \in Seq(OrderedMail)
      BY RelayAssumption DEF RelayTypes, WireTypes
    <3>1. /\ Told(reliable[m], v) => Told(reliable'[m], v)
          /\ NoNews(reliable'[m]) => NoNews(reliable[m])
      BY <3>0, NewsArrives
    <3>2. Knows(m, v) /\ (NoNews(toServer'[m]) => NoNews(toServer[m]))
      BY <2>1
    <3> QED
      BY <3>1, <3>2 DEF Knows
  <2> QED
    BY <2>2 DEF RelationInv
<1> QED
  BY <1>1, <1>2

\* What the hooks report of items and gear is no news; a change of a relation is.
LEMMA HooksKnow ==
    ASSUME RelayTypes, RelationInv, NEW m \in Players,
           \/ \E t \in Things :
                \/ Hook_ItemPickup(m, t) \/ Hook_ItemDrop(m, t)
                \/ \E seller \in Things \cup {None} : Hook_BuyItem(m, t, seller)
                \/ \E g \in Gear : GameEquips(m, t, g)
                \/ StagePollAndSendEquipment(m, t)
                \/ \E to \in Things : GiveItem(m, t, to)
           \/ \E r \in Relations : Hook_FactionRelation(m, r)
    PROVE  RelationInv'
<1>0. /\ toServer \in [Players -> Seq(HookMail)] /\ relation \in [Players -> Relations]
      /\ Founders \subseteq Players
  BY RelayAssumption DEF RelayTypes, WireTypes, HeldTypes
<1>1. ASSUME NEW msg \in HookMail, Send(m, msg)
      PROVE  \A k \in Founders : /\ k # m => toServer'[k] = toServer[k]
                                 /\ k = m => toServer'[k] = Append(toServer[m], msg)
  BY <1>0, <1>1 DEF Send
<1>2. ASSUME NEW msg \in HookMail, Send(m, msg), msg.kind # "relation",
             UNCHANGED <<relation, setting, muted, reliable>>
      PROVE  RelationInv'
  <2>1. toServer[m] \in Seq(HookMail)
    BY <1>0
  <2>2. NoNews(Append(toServer[m], msg)) <=> NoNews(toServer[m])
    BY <1>2, <2>1, NewsArrives
  <2>3. \A k \in Founders : NoNews(toServer'[k]) => NoNews(toServer[k])
    BY <1>1, <1>2, <2>2
  <2> QED
    BY <1>2, <2>3, NothingNew
<1>3. ASSUME NEW t \in Things, NEW kind \in {"pickup", "drop"}, Send(m, Msg(kind, t, 1)),
             UNCHANGED <<relation, setting, muted, reliable>>
      PROVE  RelationInv'
  BY <1>2, <1>3 DEF Msg, HookMail
<1>4. ASSUME NEW t \in Things, Hook_ItemPickup(m, t) \/ Hook_ItemDrop(m, t) PROVE RelationInv'
  BY <1>3, <1>4 DEF Hook_ItemPickup, Hook_ItemDrop
<1>5. ASSUME NEW t \in Things, NEW seller \in Things \cup {None}, Hook_BuyItem(m, t, seller)
      PROVE  RelationInv'
  <2>1. Msg("buy", t, seller) \in HookMail /\ Msg("buy", t, seller).kind # "relation"
    BY DEF Msg, HookMail
  <2> QED
    BY <1>2, <1>5, <2>1 DEF Hook_BuyItem
<1>6. ASSUME NEW t \in Things, NEW g \in Gear, GameEquips(m, t, g) PROVE RelationInv'
  BY <1>6, NothingNew DEF GameEquips, wires, ghosts
<1>7. ASSUME NEW t \in Things, StagePollAndSendEquipment(m, t) PROVE RelationInv'
  <2>1. Msg("gear", t, worn[m][t]) \in HookMail /\ Msg("gear", t, worn[m][t]).kind # "relation"
    BY DEF Msg, HookMail, RelayTypes, HeldTypes
  <2> QED
    BY <1>2, <1>7, <2>1 DEF StagePollAndSendEquipment, ghosts
<1>8. ASSUME NEW t \in Things, NEW to \in Things, GiveItem(m, t, to) PROVE RelationInv'
  <2>1. Msg("transfer", t, to) \in HookMail /\ Msg("transfer", t, to).kind # "relation"
    BY DEF Msg, HookMail
  <2> QED
    BY <1>2, <1>8, <2>1 DEF GiveItem, ghosts
<1>9. ASSUME NEW r \in Relations, Hook_FactionRelation(m, r) PROVE RelationInv'
  <2> DEFINE msg == Msg("relation", None, r)
  <2>1. CASE setting[m][1] # None
    BY <1>9, <2>1 DEF Hook_FactionRelation, RelationInv
  <2>2. CASE setting[m][1] = None
    <3>1. msg \in HookMail /\ msg.kind = "relation"
      BY DEF Msg, HookMail
    <3>2. Send(m, msg) /\ UNCHANGED <<setting, muted, reliable>> /\ relation' = [relation EXCEPT ![m] = r]
      BY <1>9, <2>2 DEF Hook_FactionRelation
    <3> HIDE DEF msg
    <3>3. \A k \in Founders : /\ k # m => toServer'[k] = toServer[k] /\ relation'[k] = relation[k]
                              /\ k = m => toServer'[k] = Append(toServer[m], msg)
      BY <1>0, <1>1, <3>1, <3>2
    <3>4. ~NoNews(Append(toServer[m], msg))
      <4>1. toServer[m] \in Seq(HookMail)
        BY <1>0
      <4> QED
        BY <3>1, <4>1, NewsArrives
    <3>5. CASE muted
      BY <3>2, <3>5 DEF RelationInv
    <3>6. CASE ~muted
      <4>1. PICK v \in Relations : \A k \in Founders : Knows(k, v)
        BY <3>6 DEF RelationInv
      <4>2. ASSUME NEW k \in Founders PROVE Knows(k, v)'
        BY <3>2, <3>3, <3>4, <4>1 DEF Knows
      <4> QED
        BY <4>2 DEF RelationInv
    <3> QED
      BY <3>5, <3>6
  <2> QED
    BY <2>1, <2>2
<1> QED
  BY <1>4, <1>5, <1>6, <1>7, <1>8, <1>9

\* One message of another kind in some of the channels.
LEMMA OtherMailIsNoNews ==
    ASSUME RelayTypes, RelationInv, NEW m \in Players, NEW x \in OrderedMail,
           x.kind # "relation",
           reliable' \in {reliable, SendTo(reliable, m, x), Broadcast(reliable, x),
                          BroadcastExcept(reliable, m, x)},
           UNCHANGED <<relation, setting, muted>>,
           \A k \in Founders : NoNews(toServer'[k]) => NoNews(toServer[k])
    PROVE  RelationInv'
<1>1. reliable \in [Players -> Seq(OrderedMail)] /\ Founders \subseteq Players
  BY RelayAssumption DEF RelayTypes, WireTypes
<1>2. \A k \in Players : \/ reliable'[k] = reliable[k]
                         \/ reliable'[k] = Append(reliable[k], x)
  BY <1>1 DEF SendTo, Broadcast, BroadcastExcept
<1> QED
  BY <1>1, <1>2, NothingNew

\* The server: a relation it takes reaches all who are there, so the last one it took is
\* the last that any of them hears.
LEMMA ServerKnows ==
    ASSUME Relations \subseteq -100 .. 100, RelayTypes, RelationInv, NEW m \in Players,
           \/ \E t \in Things :
                \/ \E p \in Places : HandlePositionUpdate(m, t, p)
                \/ Notice(m, t)
           \/ ServerUpdate(m)
           \/ BroadcastPositions(m)
           \/ SendWorldSnapshot(m)
    PROVE  RelationInv'
<1>0. /\ toServer \in [Players -> Seq(HookMail)] /\ reliable \in [Players -> Seq(OrderedMail)]
      /\ Founders \subseteq Players /\ Founders \subseteq present
  BY RelayAssumption DEF RelayTypes, WireTypes, StoreTypes
<1>1. ASSUME UNCHANGED <<relation, setting, muted, reliable, toServer>> PROVE RelationInv'
  BY <1>1, NothingNew
<1>2. ASSUME NEW t \in Things, NEW p \in Places, HandlePositionUpdate(m, t, p) PROVE RelationInv'
  BY <1>1, <1>2 DEF HandlePositionUpdate, games, wires
<1>3. ASSUME NEW t \in Things, Notice(m, t) PROVE RelationInv'
  <2>1. UNCHANGED <<relation, setting, muted, toServer>>
    BY <1>3 DEF Notice, games, ghosts
  <2>2. ASSUME NEW k \in {"squad", "member", "door"}, NEW arg \in Int \cup {None},
               reliable' \in {reliable, Broadcast(reliable, Msg(k, t, arg)),
                              BroadcastExcept(reliable, m, Msg(k, t, arg))}
        PROVE  RelationInv'
    <3>1. Msg(k, t, arg) \in OrderedMail /\ Msg(k, t, arg).kind # "relation"
      BY DEF Msg, OrderedMail
    <3> QED
      BY <2>1, <2>2, <3>1, OtherMailIsNoNews
  <2>3. CASE HandleSquadCreate(m, t)
    <3>1. squads + 1 \in Int
      BY DEF RelayTypes, StoreTypes
    <3> QED
      BY <2>2, <2>3, <3>1 DEF HandleSquadCreate
  <2>4. CASE HandleSquadAddMember(m, t)
    BY <2>2, <2>4 DEF HandleSquadAddMember
  <2>5. ASSUME NEW action \in {3, 4}, HandleDoorInteract(m, t, action) PROVE RelationInv'
    BY <2>2, <2>5 DEF HandleDoorInteract
  <2>6. ASSUME reliable' = reliable PROVE RelationInv'
    BY <1>1, <2>1, <2>6
  <2> QED
    BY <1>3, <2>3, <2>4, <2>5, <2>6
       DEF Notice, HandleCombatStance, HandleStatusEffect, HandleBuildRepair
<1>4. CASE ServerUpdate(m)
  <2> DEFINE msg == Head(toServer[m])
  <2>1. /\ toServer[m] \in Seq(HookMail) /\ toServer[m] # << >>
        /\ UNCHANGED <<relation, setting, muted>> /\ Dispatch(m, msg)
        /\ toServer' = [toServer EXCEPT ![m] = Tail(@)]
    BY <1>0, <1>4 DEF ServerUpdate, games, ghosts
  <2>2. msg \in HookMail
    BY <2>1
  <2>3. msg.kind # "relation" => (NoNews(Tail(toServer[m])) => NoNews(toServer[m]))
    BY <2>1, NewsTaken
  <2> HIDE DEF msg
  <2>4. ASSUME msg.kind # "relation"
        PROVE  \A k \in Founders : NoNews(toServer'[k]) => NoNews(toServer[k])
    BY <1>0, <2>1, <2>3, <2>4
  <2>5. CASE msg.kind = "buy" /\ HandleTradeRequest(m, msg.t, msg.arg, TRUE)
    <3>1. msg.t \in Things
      BY <2>2, <2>5 DEF HookMail
    <3>2. ASSUME NEW k \in {"denied", "traded"}
          PROVE  Msg(k, msg.t, None) \in OrderedMail /\ Msg(k, msg.t, None).kind # "relation"
      BY <3>1 DEF Msg, OrderedMail
    <3>3. \/ reliable' \in {reliable, SendTo(reliable, m, Msg("denied", msg.t, None))}
          \/ reliable' \in {reliable, Broadcast(reliable, Msg("traded", msg.t, None))}
      BY <2>5 DEF HandleTradeRequest
    <3>4. \A k \in Founders : NoNews(toServer'[k]) => NoNews(toServer[k])
      BY <2>4, <2>5
    <3> QED
      BY <2>1, <3>2, <3>3, <3>4, OtherMailIsNoNews
  <2>6. CASE msg.kind = "relation" /\ HandleFactionRelation(m, None, msg.arg)
    <3>0. msg.arg \in Relations
      BY <2>2, <2>6 DEF HookMail
    <3>1. PICK r \in Relations : r = msg.arg
      BY <3>0
    <3> DEFINE news == Msg("relation", None, r)
    <3>2. news \in OrderedMail /\ news.kind = "relation" /\ news.arg = r
      BY <3>1 DEF Msg, OrderedMail
    <3>3. reliable' = Broadcast(reliable, news)
      BY <2>6, <3>1 DEF HandleFactionRelation, RelationAudience
    <3> HIDE DEF news
    <3>4. ASSUME NEW k \in Founders PROVE Knows(k, r)'
      <4>1. reliable[k] \in Seq(OrderedMail) /\ reliable'[k] = Append(reliable[k], news)
        BY <1>0, <3>3 DEF Broadcast
      <4>2. ~NoNews(reliable'[k]) /\ Told(reliable'[k], r)
        BY <3>2, <4>1, NewsArrives
      <4> QED
        BY <4>2 DEF Knows
    <3> QED
      BY <3>1, <3>4 DEF RelationInv
  <2>7. ASSUME msg.kind # "relation", reliable' = reliable PROVE RelationInv'
    BY <2>1, <2>4, <2>7, NothingNew
  <2>8. CASE msg.kind = "gear" /\ HandleEquipmentUpdate(m, msg.t, msg.arg)
    BY <2>7, <2>8 DEF HandleEquipmentUpdate
  <2> QED
    BY <2>1, <2>5, <2>6, <2>7, <2>8
       DEF Dispatch, HandleItemPickup, HandleItemDrop, HandleItemTransfer
<1>5. CASE BroadcastPositions(m)
  BY <1>1, <1>5 DEF BroadcastPositions, wires, ghosts
<1>6. CASE SendWorldSnapshot(m)
  <2>1. /\ m \notin Founders /\ UNCHANGED <<relation, setting, muted, toServer>>
        /\ \A k \in Players : k # m => reliable'[k] = reliable[k]
    BY <1>0, <1>6 DEF SendWorldSnapshot, games, ghosts
  <2> QED
    BY <1>0, <2>1, NothingNew
<1> QED
  BY <1>2, <1>3, <1>4, <1>5, <1>6

\* A client: the last relation it heard is the one it sets.
LEMMA ClientKnows ==
    ASSUME RelayTypes, RelationInv, NEW m \in Players,
           TakeRelayed(m) \/ TakeReliable(m) \/ ApplyRelation(m) \/ ClearServerSourced(m)
    PROVE  RelationInv'
<1>0. /\ reliable \in [Players -> Seq(OrderedMail)] /\ Founders \subseteq Players
      /\ setting \in [Players -> {<<None, None>>} \cup ({"before", "after"} \X Relations)]
      /\ relation \in [Players -> Relations]
  BY RelayAssumption DEF RelayTypes, WireTypes, HeldTypes
<1>1. UNCHANGED <<muted, toServer>>
  BY DEF TakeRelayed, TakeReliable, ApplyRelation, ClearServerSourced, wires, ghosts
<1>2. CASE muted
  BY <1>1, <1>2 DEF RelationInv
<1>3. CASE ~muted
  <2>1. PICK v \in Relations : \A k \in Founders : Knows(k, v)
    BY <1>3 DEF RelationInv
  <2>2. CASE m \notin Founders
    <3>1. \A k \in Founders : /\ reliable'[k] = reliable[k] /\ setting'[k] = setting[k]
                              /\ relation'[k] = relation[k]
      BY <1>0, <2>2 DEF TakeRelayed, TakeReliable, ApplyRelation, ClearServerSourced, wires
    <3> QED
      BY <1>1, <2>1, <3>1 DEF Knows, RelationInv
  <2>3. CASE m \in Founders
    <3>1. \A k \in Founders : k # m => /\ reliable'[k] = reliable[k] /\ setting'[k] = setting[k]
                                       /\ relation'[k] = relation[k]
      BY <1>0 DEF TakeRelayed, TakeReliable, ApplyRelation, ClearServerSourced, wires
    <3>2. Knows(m, v)
      BY <2>1, <2>3
    <3>3. Knows(m, v)'
      <4>1. CASE TakeRelayed(m)
        BY <1>1, <3>2, <4>1 DEF TakeRelayed, Knows
      <4>2. CASE TakeReliable(m)
        <5> DEFINE q == reliable[m]
        <5>1. q \in Seq(OrderedMail) /\ q # << >> /\ reliable'[m] = Tail(q) /\ relation' = relation
          BY <1>0, <4>2 DEF TakeReliable
        <5>2. Told(q, v) => Told(Tail(q), v)
          BY <5>1, NewsTaken
        <5>3. Head(q).kind # "relation" => (NoNews(Tail(q)) => NoNews(q))
          BY <5>1, NewsTaken
        <5>4. Told(q, v) /\ Head(q).kind = "relation" /\ NoNews(Tail(q)) => Head(q).arg = v
          BY <5>1, NewsTaken
        <5>5. \/ Head(q).kind # "relation" /\ setting' = setting
              \/ Head(q).kind = "relation" /\ setting'[m] = <<"before", Head(q).arg>>
          BY <1>0, <4>2 DEF TakeReliable
        <5> HIDE DEF q
        <5>6. CASE Head(q).kind # "relation" /\ setting' = setting
          BY <1>1, <3>2, <5>1, <5>2, <5>3, <5>6 DEF Knows, q
        <5>7. CASE Head(q).kind = "relation" /\ setting'[m] = <<"before", Head(q).arg>>
          BY <1>1, <3>2, <5>1, <5>2, <5>4, <5>7 DEF Knows, q
        <5> QED
          BY <5>5, <5>6, <5>7
      <4>3. CASE ApplyRelation(m)
        <5>1. /\ setting[m][1] = "before" /\ reliable' = reliable
              /\ relation'[m] = setting[m][2] /\ setting'[m][1] # "before"
          BY <1>0, <4>3 DEF ApplyRelation, wires
        <5> QED
          BY <1>1, <3>2, <5>1 DEF Knows
      <4>4. CASE ClearServerSourced(m)
        <5>1. /\ setting[m][1] = "after" /\ reliable' = reliable /\ relation' = relation
              /\ setting'[m] = <<None, None>>
          BY <1>0, <4>4 DEF ClearServerSourced, wires
        <5>2. setting'[m][1] # "before"
          BY <5>1, RelayAssumption
        <5> QED
          BY <1>1, <3>2, <5>1, <5>2 DEF Knows
      <4> QED
        BY <4>1, <4>2, <4>3, <4>4
    <3>4. \A k \in Founders : Knows(k, v)'
      BY <1>1, <2>1, <3>1, <3>3 DEF Knows
    <3> QED
      BY <3>4 DEF RelationInv
  <2> QED
    BY <2>2, <2>3
<1> QED
  BY <1>2, <1>3

LEMMA RelationStart == ASSUME RsInit PROVE RelationInv
<1> DEFINE v == CHOOSE r \in Relations : TRUE
<1>1. v \in Relations /\ Founders \subseteq Players
  BY RelayAssumption
<1>2. ASSUME NEW m \in Founders PROVE Knows(m, v)
  <2>1. /\ reliable[m] = << >> /\ setting[m] = <<None, None>> /\ relation[m] = v
    BY <1>1 DEF RsInit
  <2>2. Told(reliable[m], v)
    BY <2>1 DEF Told
  <2>3. setting[m][1] # "before"
    BY <2>1, RelayAssumption
  <2> QED
    BY <2>1, <2>2, <2>3 DEF Knows
<1> HIDE DEF v
<1> QED
  BY <1>1, <1>2 DEF RelationInv

LEMMA RelationStep ==
    ASSUME Relations \subseteq -100 .. 100, RelayTypes, RelationInv, [RsNext]_rsVars
    PROVE  RelationInv'
<1>1. CASE UNCHANGED rsVars
  <2>1. UNCHANGED <<relation, setting, muted, reliable, toServer>>
    BY <1>1 DEF rsVars, games, wires, ghosts
  <2> QED
    BY <2>1, NothingNew
<1>2. ASSUME NEW m \in Players,
             TakeRelayed(m) \/ TakeReliable(m) \/ ApplyRelation(m) \/ ClearServerSourced(m)
      PROVE  RelationInv'
  BY <1>2, ClientKnows
<1>3. CASE RsNext
  BY <1>2, <1>3, HooksKnow, ServerKnows DEF RsNext
<1> QED
  BY <1>1, <1>3

LEMMA RelationsFollow == ASSUME RelationInv PROVE RelationsAgree
<1> SUFFICES ASSUME Quiet, ~muted, NEW m \in Founders, NEW n \in Founders
             PROVE  relation[m] = relation[n]
  BY DEF RelationsAgree
<1>1. PICK v \in Relations : \A k \in Founders : Knows(k, v)
  BY DEF RelationInv
<1>2. ASSUME NEW k \in Founders PROVE relation[k] = v
  <2>1. /\ toServer[k] = << >> /\ reliable[k] = << >> /\ setting[k][1] = None
    BY RelayAssumption DEF Quiet, Busy
  <2>2. NoNews(toServer[k]) /\ NoNews(reliable[k])
    BY <2>1 DEF NoNews
  <2>3. setting[k][1] # "before"
    BY <2>1, RelayAssumption
  <2> QED
    BY <1>1, <2>2, <2>3 DEF Knows
<1> QED
  BY <1>2

\* Once everything has arrived, the clients that were there all the time have the same
\* relation, whoever changed it last and however many did (server.cpp:1766), when the
\* values the games set are in the range the server passes on and no change was made
\* while a client was applying another one.
THEOREM ClientsAgreeOnRelations ==
    ASSUME Relations \subseteq -100 .. 100
    PROVE  RsSpec => []RelationsAgree
<1>1. RelayTypes /\ RelationInv /\ [RsNext]_rsVars => RelationInv'
  BY RelationStep
<1> QED
  BY <1>1, RelayStart, RelayStep, RelationStart, RelationsFollow, PTL DEF RsSpec

-----------------------------------------------------------------------------
(* The items on a character: the server holds none, but the order in which  *)
(* it takes the reports is the same for everybody.                          *)

\* What a report to the server, or a message from it, does to the stack on t.
Moves(msg, t) ==
    IF msg.kind \in {"pickup", "bag"} /\ msg.t = t THEN msg.arg
    ELSE IF msg.kind \in {"drop", "transfer"} /\ msg.t = t THEN -1
    ELSE IF msg.kind = "transfer" /\ msg.arg = t THEN 1
    ELSE 0

Silent(q, t) == \A i \in 1 .. Len(q) : Moves(q[i], t) = 0

\* The messages of q take a stack on t from s to e, at no time below zero; and,
\* if up, at no time downward.
Path(q, t, s, e, up) ==
    \E at \in [0 .. Len(q) -> Nat] :
        /\ at[0] = s /\ at[Len(q)] = e
        /\ \A i \in 1 .. Len(q) : at[i] = at[i - 1] + Moves(q[i], t)
        /\ up => \A i, j \in 0 .. Len(q) : i <= j => at[i] <= at[j]

\* r is q with more messages, which move the stack on t by n.
Grown(q, r, t, n) ==
    /\ Silent(r, t) <=> Silent(q, t) /\ n = 0
    /\ \A s, e \in Nat, up \in BOOLEAN :
          Path(q, t, s, e, up) /\ e + n \in Nat /\ (up => n >= 0) => Path(r, t, s, e + n, up)

LEMMA PathNone ==
    ASSUME NEW t, NEW s \in Nat, NEW up \in BOOLEAN
    PROVE  Path(<< >>, t, s, s, up)
<1> DEFINE at == [i \in 0 .. 0 |-> s]
<1>1. Len(<< >>) = 0 /\ \A i \in 0 .. 0 : i = 0
  OBVIOUS
<1>2. at \in [0 .. Len(<< >>) -> Nat] /\ at[0] = s /\ \A i \in 1 .. Len(<< >>) : FALSE
  BY <1>1
<1>3. \A i, j \in 0 .. Len(<< >>) : at[i] <= at[j]
  BY <1>1, <1>2
<1> QED
  BY <1>1, <1>2, <1>3 DEF Path

\* A step on the way.
LEMMA PathHead ==
    ASSUME NEW S, NEW q \in Seq(S), q # << >>, NEW t, NEW s, NEW e, NEW up \in BOOLEAN,
           Moves(Head(q), t) \in Int, Path(q, t, s, e, up)
    PROVE  /\ s \in Nat /\ e \in Nat /\ s + Moves(Head(q), t) \in Nat
           /\ up => Moves(Head(q), t) >= 0
           /\ Path(Tail(q), t, s + Moves(Head(q), t), e, up)
<1> DEFINE n == Len(q)
           r == Tail(q)
           d == Moves(Head(q), t)
<1>1. PICK at \in [0 .. n -> Nat] :
        /\ at[0] = s /\ at[n] = e
        /\ \A i \in 1 .. n : at[i] = at[i - 1] + Moves(q[i], t)
        /\ up => \A i, j \in 0 .. n : i <= j => at[i] <= at[j]
  BY DEF Path
<1>2. /\ n \in Nat /\ n > 0 /\ Len(r) = n - 1 /\ Head(q) = q[1]
      /\ \A i \in 1 .. n - 1 : r[i] = q[i + 1]
  OBVIOUS
<1> HIDE DEF n, r
<1>3. at[0] \in Nat /\ at[1] \in Nat /\ at[n] \in Nat /\ at[1] = at[0] + d
  BY <1>1, <1>2
<1>4. ASSUME up PROVE d >= 0
  <2>1. at[0] <= at[1] /\ d \in Int
    BY <1>1, <1>2, <1>4
  <2> HIDE DEF d
  <2> QED
    BY <1>3, <2>1
<1> DEFINE bt == [i \in 0 .. n - 1 |-> at[i + 1]]
<1>5. ASSUME NEW i \in 0 .. n - 1 PROVE i + 1 \in 1 .. n /\ i + 1 \in 0 .. n /\ bt[i] = at[i + 1]
  BY <1>2
<1>6. bt \in [0 .. n - 1 -> Nat] /\ bt[0] = s + d /\ bt[n - 1] = e
  BY <1>1, <1>2, <1>3, <1>5
<1>7. \A i \in 1 .. n - 1 : bt[i] = bt[i - 1] + Moves(r[i], t)
  <2> SUFFICES ASSUME NEW i \in 1 .. n - 1 PROVE bt[i] = bt[i - 1] + Moves(r[i], t)
    OBVIOUS
  <2>1. i \in 0 .. n - 1 /\ i - 1 \in 0 .. n - 1 /\ i - 1 + 1 = i /\ i + 1 - 1 = i /\ i + 1 \in 1 .. n
    BY <1>2
  <2>2. bt[i] = at[i + 1] /\ bt[i - 1] = at[i]
    BY <1>5, <2>1
  <2>3. at[i + 1] = at[i] + Moves(q[i + 1], t)
    BY <1>1, <2>1
  <2> HIDE DEF bt
  <2> QED
    BY <1>2, <2>2, <2>3
<1>8. up => \A i, j \in 0 .. n - 1 : i <= j => bt[i] <= bt[j]
  <2> SUFFICES ASSUME up, NEW i \in 0 .. n - 1, NEW j \in 0 .. n - 1, i <= j PROVE bt[i] <= bt[j]
    OBVIOUS
  <2>1. i + 1 \in 0 .. n /\ j + 1 \in 0 .. n /\ i + 1 <= j + 1
    BY <1>2
  <2>2. at[i + 1] <= at[j + 1]
    BY <1>1, <2>1
  <2> QED
    BY <1>5, <2>2
<1> HIDE DEF bt, d
<1>9. Path(r, t, s + d, e, up)
  BY <1>2, <1>6, <1>7, <1>8 DEF Path
<1> QED
  BY <1>1, <1>3, <1>4, <1>6, <1>9 DEF r, d

\* One more step, or none.
LEMMA PathMore ==
    ASSUME NEW S, NEW q \in Seq(S), NEW x \in S, NEW t, Moves(x, t) \in Int
    PROVE  Grown(q, Append(q, x), t, Moves(x, t))
<1> DEFINE n == Len(q)
           r == Append(q, x)
           d == Moves(x, t)
<1>1. /\ n \in Nat /\ Len(r) = n + 1 /\ r[n + 1] = x
      /\ \A i \in 1 .. n : r[i] = q[i]
      /\ \A i \in 1 .. n + 1 : i = n + 1 \/ i \in 1 .. n
      /\ n + 1 \in 1 .. n + 1 /\ 1 .. n \subseteq 1 .. n + 1
  OBVIOUS
<1> HIDE DEF n, r
<1>2. Silent(r, t) <=> Silent(q, t) /\ d = 0
  <2>1. Silent(q, t) <=> \A i \in 1 .. n : Moves(q[i], t) = 0
    BY DEF Silent, n
  <2>2. Silent(r, t) <=> \A i \in 1 .. n + 1 : Moves(r[i], t) = 0
    BY <1>1 DEF Silent
  <2> QED
    BY <1>1, <2>1, <2>2
<1>3. ASSUME NEW s \in Nat, NEW e \in Nat, NEW up \in BOOLEAN, Path(q, t, s, e, up),
             e + d \in Nat, up => d >= 0
      PROVE  Path(r, t, s, e + d, up)
  <2> HIDE DEF d
  <2>1. PICK at \in [0 .. n -> Nat] :
          /\ at[0] = s /\ at[n] = e
          /\ \A i \in 1 .. n : at[i] = at[i - 1] + Moves(q[i], t)
          /\ up => \A i, j \in 0 .. n : i <= j => at[i] <= at[j]
    BY <1>3 DEF Path, n
  <2> DEFINE bt == [i \in 0 .. n + 1 |-> IF i = n + 1 THEN e + d ELSE at[i]]
  <2>2. ASSUME NEW i \in 0 .. n PROVE i # n + 1 /\ i \in 0 .. n + 1 /\ bt[i] = at[i] /\ at[i] \in Nat
    BY <1>1
  <2>3. bt[n + 1] = e + d
    BY <1>1
  <2>4. \A i \in 0 .. n + 1 : i = n + 1 \/ i \in 0 .. n
    BY <1>1
  <2>5. bt \in [0 .. n + 1 -> Nat]
    BY <1>3, <2>2, <2>3, <2>4
  <2> HIDE DEF bt
  <2>6. 0 \in 0 .. n /\ n \in 0 .. n
    BY <1>1
  <2>7. \A i \in 1 .. n + 1 : bt[i] = bt[i - 1] + Moves(r[i], t)
    <3> SUFFICES ASSUME NEW i \in 1 .. n + 1 PROVE bt[i] = bt[i - 1] + Moves(r[i], t)
      OBVIOUS
    <3>1. CASE i = n + 1
      <4>1. i - 1 = n
        BY <1>1, <3>1
      <4> QED
        BY <1>1, <2>1, <2>2, <2>3, <2>6, <3>1, <4>1 DEF d
    <3>2. CASE i # n + 1
      <4>1. i \in 1 .. n /\ i \in 0 .. n /\ i - 1 \in 0 .. n
        BY <1>1, <3>2
      <4>2. bt[i] = at[i] /\ bt[i - 1] = at[i - 1] /\ r[i] = q[i]
        BY <1>1, <2>2, <4>1
      <4> QED
        BY <2>1, <4>1, <4>2
    <3> QED
      BY <3>1, <3>2
  <2>8. ASSUME up, NEW i \in 0 .. n + 1, NEW j \in 0 .. n + 1, i <= j PROVE bt[i] <= bt[j]
    <3>1. CASE j \in 0 .. n
      <4>1. i \in 0 .. n
        BY <1>1, <2>8, <3>1
      <4> QED
        BY <2>1, <2>2, <2>8, <3>1, <4>1
    <3>2. CASE j = n + 1 /\ i \in 0 .. n
      <4>1. at[i] <= at[n] /\ at[i] \in Nat /\ i <= n
        BY <1>1, <2>1, <2>2, <2>6, <2>8, <3>2
      <4>2. bt[i] = at[i] /\ at[n] = e /\ bt[j] = e + d
        BY <2>1, <2>2, <2>3, <3>2
      <4>3. d >= 0 /\ (d \in Int)
        BY <1>3, <2>8 DEF d
      <4> QED
        BY <1>3, <4>1, <4>2, <4>3
    <3>3. CASE j = n + 1 /\ i = n + 1
      BY <1>3, <2>3, <3>3
    <3> QED
      BY <2>4, <3>1, <3>2, <3>3
  <2>9. bt[0] = s
    BY <2>1, <2>2, <2>6
  <2> QED
    BY <1>1, <2>3, <2>5, <2>7, <2>8, <2>9 DEF Path
<1> QED
  BY <1>2, <1>3 DEF Grown, r, d

LEMMA GrownTwice ==
    ASSUME NEW q, NEW r, NEW u, NEW t, NEW d, Grown(q, r, t, d), Grown(r, u, t, 0), d \in Int
    PROVE  Grown(q, u, t, d)
<1>1. ASSUME NEW s \in Nat, NEW e \in Nat, NEW up \in BOOLEAN, Path(q, t, s, e, up),
             e + d \in Nat, up => d >= 0
      PROVE  Path(u, t, s, e + d, up)
  <2>1. Path(r, t, s, e + d, up)
    BY <1>1 DEF Grown
  <2>2. e + d + 0 = e + d
    BY <1>1
  <2> QED
    BY <1>1, <2>1, <2>2 DEF Grown
<1>2. Silent(u, t) <=> Silent(q, t) /\ d = 0
  BY DEF Grown
<1> QED
  BY <1>1, <1>2 DEF Grown

LEMMA GrownAfter ==
    ASSUME NEW q, NEW r, NEW u, NEW t, NEW d, Grown(q, r, t, 0), Grown(r, u, t, d), d \in Int
    PROVE  Grown(q, u, t, d)
<1>1. ASSUME NEW s \in Nat, NEW e \in Nat, NEW up \in BOOLEAN, Path(q, t, s, e, up),
             e + d \in Nat, up => d >= 0
      PROVE  Path(u, t, s, e + d, up)
  <2>1. e + 0 = e /\ (up => 0 >= 0)
    OBVIOUS
  <2>2. Path(r, t, s, e, up)
    BY <1>1, <2>1 DEF Grown
  <2> QED
    BY <1>1, <2>2 DEF Grown
<1>2. Silent(u, t) <=> Silent(q, t) /\ d = 0
  BY DEF Grown
<1> QED
  BY <1>1, <1>2 DEF Grown

\* The same steps from another height.
LEMMA PathShift ==
    ASSUME NEW S, NEW q \in Seq(S), NEW t, NEW s \in Nat, NEW e \in Nat, NEW up \in BOOLEAN,
           Path(q, t, s, e, up), \A i \in 1 .. Len(q) : Moves(q[i], t) \in Int,
           NEW d \in Int, s + d \in Nat, d >= 0 \/ up
    PROVE  e + d \in Nat /\ Path(q, t, s + d, e + d, up)
<1> DEFINE n == Len(q)
<1>0. n \in Nat
  OBVIOUS
<1> HIDE DEF n
<1>1. PICK at \in [0 .. n -> Nat] :
        /\ at[0] = s /\ at[n] = e
        /\ \A i \in 1 .. n : at[i] = at[i - 1] + Moves(q[i], t)
        /\ up => \A i, j \in 0 .. n : i <= j => at[i] <= at[j]
  BY DEF Path, n
<1> DEFINE bt == [i \in 0 .. n |-> at[i] + d]
<1>2. ASSUME NEW i \in 0 .. n PROVE bt[i] = at[i] + d /\ at[i] \in Nat /\ bt[i] \in Nat
  <2>1. bt[i] = at[i] + d /\ at[i] \in Nat /\ 0 \in 0 .. n /\ 0 <= i
    BY <1>0
  <2>2. CASE d >= 0
    BY <2>1, <2>2
  <2>3. CASE up
    <3>1. at[0] <= at[i]
      BY <1>1, <2>1, <2>3
    <3> QED
      BY <1>1, <2>1, <3>1
  <2> QED
    BY <2>2, <2>3
<1> HIDE DEF bt
<1>3. bt \in [0 .. n -> Nat]
  BY <1>2 DEF bt
<1>4. \A i \in 1 .. n : bt[i] = bt[i - 1] + Moves(q[i], t)
  <2> SUFFICES ASSUME NEW i \in 1 .. n PROVE bt[i] = bt[i - 1] + Moves(q[i], t)
    OBVIOUS
  <2>1. i \in 0 .. n /\ i - 1 \in 0 .. n
    BY <1>0
  <2>2. Moves(q[i], t) \in Int /\ at[i] = at[i - 1] + Moves(q[i], t)
    BY <1>1 DEF n
  <2> QED
    BY <1>2, <2>1, <2>2
<1>5. up => \A i, j \in 0 .. n : i <= j => bt[i] <= bt[j]
  <2> SUFFICES ASSUME up, NEW i \in 0 .. n, NEW j \in 0 .. n, i <= j PROVE bt[i] <= bt[j]
    OBVIOUS
  <2>1. at[i] <= at[j]
    BY <1>1
  <2> QED
    BY <1>2, <2>1
<1>6. bt[0] = s + d /\ bt[n] = e + d /\ e + d \in Nat
  BY <1>0, <1>1, <1>2
<1> QED
  BY <1>3, <1>4, <1>5, <1>6 DEF Path, n

LEMMA GrownNot ==
    ASSUME NEW q, NEW t PROVE Grown(q, q, t, 0)
<1>1. ASSUME NEW e \in Nat PROVE e + 0 = e
  OBVIOUS
<1> QED
  BY <1>1 DEF Grown

Count(s) == IF s = None THEN 0 ELSE s

\* What m reports of the items on a character: it is m's, or m's copy is astray.  Only
\* the owner gives, and to another one.
MayReport(m, msg, gone) ==
    /\ msg.kind \in {"pickup", "drop"} => KeeperOf[msg.t] = m \/ <<m, msg.t>> \in gone
    /\ msg.kind = "transfer" => KeeperOf[msg.t] = m /\ msg.arg # msg.t

ReportsOfOwners ==
    \A m \in Players : \A i \in 1 .. Len(toServer[m]) : MayReport(m, toServer[m][i], astray)

\* A report stays true when more copies go astray.
LEMMA ReportsStay ==
    ASSUME ReportsOfOwners, NEW gone, astray \subseteq gone
    PROVE  \A m \in Players : \A i \in 1 .. Len(toServer[m]) : MayReport(m, toServer[m][i], gone)
<1> QED
  BY DEF ReportsOfOwners, MayReport

LEMMA ReportsUntouched ==
    ASSUME ReportsOfOwners, toServer' = toServer, astray \subseteq astray'
    PROVE  ReportsOfOwners'
<1>1. \A m \in Players : \A i \in 1 .. Len(toServer[m]) : MayReport(m, toServer[m][i], astray')
  BY ReportsStay
<1> QED
  BY <1>1 DEF ReportsOfOwners

\* Taken in the order of the server, where the stack on t has now size v, the reports
\* of m lead to the same size as the messages to m lead to from what m sees.  Whether
\* the server has passed on any message about the stack (seen) is whether m has a
\* stack, or will.
InStep(m, t, v, seen) ==
    /\ \E w \in Nat : /\ Path(toServer[m], t, v, w, m # KeeperOf[t])
                      /\ Path(relayed[m], t, Count(stack[m][t]), w, m = KeeperOf[t])
    /\ stack[m][t] = None => Silent(toServer[m], t)
    /\ ~seen => /\ Silent(relayed[m], t)
                /\ stack[m][t] # None => ~Silent(toServer[m], t)
    /\ seen /\ stack[m][t] = None => ~Silent(relayed[m], t)

Serialised(t) ==
    <<KeeperOf[t], t>> \notin astray =>
        \E v \in Nat, seen \in BOOLEAN :
            \A m \in Founders : <<m, t>> \notin astray => InStep(m, t, v, seen)

\* Nothing moves when the session is about something else.
NothingMoves ==
    /\ \A m, n \in Players : stack[m] = stack[n]
    /\ \A m \in Players : \A t \in Things : Silent(relayed[m], t) /\ Silent(toServer[m], t)

StackInv ==
    /\ ReportsOfOwners
    /\ topic = "items" => present = Founders /\ \A t \in Things : Serialised(t)
    /\ topic # "items" => NothingMoves

\* The kinds of messages that move no stack.
LEMMA MovesByKind ==
    ASSUME NEW t
    PROVE  /\ \A x \in HookMail : Moves(x, t) \in {-1, 0, 1}
           /\ \A x \in OtherMail : Moves(x, t) \in {-1, 0, 1}
           /\ \A x : x.kind \notin {"pickup", "drop", "transfer", "bag"} => Moves(x, t) = 0
<1>1. ASSUME NEW x \in HookMail PROVE Moves(x, t) \in {-1, 0, 1}
  BY DEF HookMail, Moves
<1>2. ASSUME NEW x \in OtherMail PROVE Moves(x, t) \in {-1, 0, 1}
  BY DEF OtherMail, Moves
<1> QED
  BY <1>1, <1>2 DEF Moves

\* A report m makes of what its game did to the stacks.
LEMMA Reported ==
    ASSUME RelayTypes, StackInv, NEW m \in Players, m \in present, NEW x \in HookMail, Send(m, x),
           UNCHANGED <<topic, present, relayed, astray>>,
           /\ x.kind \in {"pickup", "drop", "transfer"} => topic = "items" /\ KeeperOf[x.t] = m
           /\ x.kind = "transfer" => x.arg # x.t,
           \A n \in Players : n # m => stack'[n] = stack[n],
           \A t \in Things :
              \/ Moves(x, t) = 0 /\ stack'[m][t] = stack[m][t]
              \/ /\ Moves(x, t) \in {-1, 1} /\ stack'[m][t] # None
                 /\ Count(stack'[m][t]) = Count(stack[m][t]) + Moves(x, t)
                 /\ Moves(x, t) = -1 => m = KeeperOf[t],
           x.kind \notin {"pickup", "drop", "transfer"} => stack' = stack,
           stack' \in [Players -> [Things -> Nat \cup {None}]]
    PROVE  StackInv'
<1>0. /\ toServer \in [Players -> Seq(HookMail)] /\ relayed \in [Players -> Seq(OtherMail)]
      /\ Founders \subseteq Players /\ Founders \subseteq present
      /\ stack \in [Players -> [Things -> Nat \cup {None}]]
  BY RelayAssumption DEF RelayTypes, WireTypes, StoreTypes, HeldTypes
<1>1. /\ toServer'[m] = Append(toServer[m], x) /\ toServer[m] \in Seq(HookMail)
      /\ \A n \in Players : n # m => toServer'[n] = toServer[n]
  BY <1>0 DEF Send
<1>2. ReportsOfOwners'
  <2> SUFFICES ASSUME NEW n \in Players, NEW i \in 1 .. Len(toServer'[n])
               PROVE  MayReport(n, toServer'[n][i], astray')
    BY DEF ReportsOfOwners
  <2>1. CASE n # m \/ i \in 1 .. Len(toServer[n])
    <3>1. i \in 1 .. Len(toServer[n]) /\ toServer'[n][i] = toServer[n][i]
      BY <1>1, <2>1
    <3> QED
      BY <3>1 DEF StackInv, ReportsOfOwners
  <2>2. CASE n = m /\ i \notin 1 .. Len(toServer[n])
    <3>1. toServer'[n][i] = x
      BY <1>1, <2>2
    <3> QED
      BY <2>2, <3>1 DEF MayReport
  <2> QED
    BY <2>1, <2>2
<1>3. ASSUME NEW t \in Things PROVE Grown(toServer[m], toServer'[m], t, Moves(x, t)) /\ Moves(x, t) \in {-1, 0, 1}
  <2>1. Moves(x, t) \in {-1, 0, 1}
    BY MovesByKind
  <2> QED
    BY <1>1, <2>1, PathMore
<1>4. CASE topic # "items"
  <2>1. stack' = stack /\ \A t \in Things : Moves(x, t) = 0
    <3>1. x.kind \notin {"pickup", "drop", "transfer"}
      BY <1>4
    <3>2. x.kind # "bag"
      BY DEF HookMail
    <3> QED
      BY <3>1, <3>2, MovesByKind
  <2>2. ASSUME NEW n \in Players, NEW t \in Things PROVE Silent(toServer'[n], t)
    BY <1>1, <1>3, <1>4, <2>1 DEF Grown, StackInv, NothingMoves
  <2> QED
    BY <1>2, <1>4, <2>1, <2>2 DEF StackInv, NothingMoves
<1>5. CASE topic = "items"
  <2>1. ASSUME NEW t \in Things PROVE Serialised(t)'
    <3> SUFFICES ASSUME <<KeeperOf[t], t>> \notin astray
                 PROVE  \E v \in Nat, seen \in BOOLEAN :
                           \A n \in Founders : <<n, t>> \notin astray' => InStep(n, t, v, seen)'
      BY DEF Serialised
    <3>1. PICK v \in Nat, seen \in BOOLEAN :
              \A n \in Founders : <<n, t>> \notin astray => InStep(n, t, v, seen)
      BY <1>5 DEF StackInv, Serialised
    <3>2. ASSUME NEW n \in Founders, <<n, t>> \notin astray, n # m PROVE InStep(n, t, v, seen)'
      BY <1>0, <1>1, <3>1, <3>2 DEF InStep
    <3>3. ASSUME m \in Founders, <<m, t>> \notin astray PROVE InStep(m, t, v, seen)'
      <4> DEFINE d == Moves(x, t)
                 n == Count(stack[m][t])
      <4>1. InStep(m, t, v, seen)
        BY <3>1, <3>3
      <4>2. PICK w \in Nat : /\ Path(toServer[m], t, v, w, m # KeeperOf[t])
                             /\ Path(relayed[m], t, n, w, m = KeeperOf[t])
        BY <4>1 DEF InStep
      <4>3. Grown(toServer[m], toServer'[m], t, d) /\ d \in {-1, 0, 1}
        BY <1>3
      <4>4. n \in Nat /\ Count(stack'[m][t]) \in Nat
        <5>1. stack[m][t] \in Nat \cup {None} /\ stack'[m][t] \in Nat \cup {None}
          BY <1>0
        <5> QED
          BY <5>1 DEF Count
      <4>5. \/ d = 0 /\ stack'[m][t] = stack[m][t]
            \/ /\ d \in {-1, 1} /\ stack'[m][t] # None
               /\ Count(stack'[m][t]) = n + d
               /\ d = -1 => m = KeeperOf[t]
        BY <1>5
      <4> HIDE DEF d
      <4>6. Count(stack'[m][t]) = n + d
        <5> HIDE DEF n
        <5>1. d = 0 /\ stack'[m][t] = stack[m][t] => Count(stack'[m][t]) = n /\ n + d = n
          BY <4>4 DEF n
        <5> QED
          BY <4>5, <5>1
      <4> HIDE DEF n
      <4>7. n + d \in Nat /\ d \in Int /\ (d >= 0 \/ m = KeeperOf[t])
        BY <4>3, <4>4, <4>5, <4>6
      <4>8. w + d \in Nat /\ Path(relayed[m], t, n + d, w + d, m = KeeperOf[t])
        <5>1. \A i \in 1 .. Len(relayed[m]) : Moves(relayed[m][i], t) \in Int
          <6>1. \A i \in 1 .. Len(relayed[m]) : relayed[m][i] \in OtherMail
            BY <1>0
          <6> QED
            BY <6>1, MovesByKind
        <5>2. relayed[m] \in Seq(OtherMail) /\ (m = KeeperOf[t]) \in BOOLEAN
          BY <1>0
        <5> QED
          BY <4>2, <4>4, <4>7, <5>1, <5>2, PathShift
      <4>9. Path(toServer'[m], t, v, w + d, m # KeeperOf[t])
        <5>1. (m # KeeperOf[t]) => d >= 0
          BY <4>7
        <5> QED
          BY <4>2, <4>3, <4>8, <5>1 DEF Grown
      <4>10. \E k \in Nat : /\ Path(toServer[m], t, v, k, m # KeeperOf[t])'
                             /\ Path(relayed[m], t, Count(stack[m][t]), k, m = KeeperOf[t])'
        BY <4>6, <4>8, <4>9
      <4>11. Silent(toServer'[m], t) <=> Silent(toServer[m], t) /\ d = 0
        BY <4>3 DEF Grown
      <4>12. d # 0 => stack'[m][t] # None
        BY <4>5
      <4>13. d = 0 => stack'[m][t] = stack[m][t]
        BY <4>5
      <4> QED
        BY <4>1, <4>10, <4>11, <4>12, <4>13 DEF InStep
    <3>4. \A n \in Founders : <<n, t>> \notin astray' => InStep(n, t, v, seen)'
      BY <3>2, <3>3
    <3> QED
      BY <3>4
  <2>2. present' = Founders /\ topic' = "items"
    BY <1>5 DEF StackInv
  <2> QED
    BY <1>2, <2>1, <2>2 DEF StackInv
<1> QED
  BY <1>4, <1>5

\* Steps that leave the stacks and the reports alone, and add to a channel only what
\* moves nothing.
LEMMA Unmoved ==
    ASSUME RelayTypes, StackInv, UNCHANGED <<topic, stack, toServer>>, present \subseteq present',
           topic = "items" => present' = present,
           astray \subseteq astray',
           \A m \in Players, t \in Things : Grown(relayed[m], relayed'[m], t, 0)
    PROVE  StackInv'
<1>1. Founders \subseteq Players
  BY RelayAssumption
<1>2. ASSUME NEW m \in Founders, NEW t \in Things, NEW v \in Nat, NEW seen \in BOOLEAN, InStep(m, t, v, seen)
      PROVE  InStep(m, t, v, seen)'
  <2>1. Grown(relayed[m], relayed'[m], t, 0)
    BY <1>1
  <2>2. PICK w \in Nat : /\ Path(toServer[m], t, v, w, m # KeeperOf[t])
                         /\ Path(relayed[m], t, Count(stack[m][t]), w, m = KeeperOf[t])
    BY <1>2 DEF InStep
  <2>3. Count(stack[m][t]) \in Nat
    BY <1>1 DEF Count, RelayTypes, HeldTypes
  <2>4. Path(relayed'[m], t, Count(stack[m][t]), w, m = KeeperOf[t])
    <3>1. w + 0 = w /\ (m = KeeperOf[t]) \in BOOLEAN
      OBVIOUS
    <3>2. (m = KeeperOf[t]) => 0 >= 0
      OBVIOUS
    <3> QED
      BY <2>1, <2>2, <2>3, <3>1, <3>2 DEF Grown
  <2>5. Silent(relayed'[m], t) <=> Silent(relayed[m], t)
    BY <2>1 DEF Grown
  <2> QED
    BY <1>2, <2>2, <2>4, <2>5 DEF InStep
<1>3. ASSUME NEW t \in Things, Serialised(t) PROVE Serialised(t)'
  BY <1>2, <1>3 DEF Serialised
<1>4. NothingMoves => NothingMoves'
  BY DEF NothingMoves, Grown
<1> QED
  BY <1>3, <1>4, ReportsUntouched DEF StackInv

\* Size and report of a stack change by one.
LEMMA CountUp ==
    ASSUME NEW s \in Nat \cup {None}
    PROVE  /\ (IF s = None THEN 1 ELSE s + 1) \in Nat
           /\ (IF s = None THEN 1 ELSE s + 1) # None
           /\ Count(IF s = None THEN 1 ELSE s + 1) = Count(s) + 1
           /\ s \notin {None, 0} => s - 1 \in Nat /\ s - 1 # None /\ Count(s - 1) = Count(s) - 1
<1>1. None \notin Nat
  BY RelayAssumption
<1>2. CASE s = None
  BY <1>1, <1>2 DEF Count
<1>3. CASE s # None
  <2>1. s \in Nat /\ s + 1 \in Nat /\ (s # 0 => s - 1 \in Nat)
    BY <1>3
  <2>2. s + 1 # None /\ (s # 0 => s - 1 # None)
    BY <1>1, <2>1
  <2> QED
    BY <1>3, <2>1, <2>2 DEF Count
<1> QED
  BY <1>2, <1>3

\* What m sees of a stack that a report does not move.
LEMMA OtherStack ==
    ASSUME NEW m \in Players, NEW t, NEW v \in Nat, NEW seen \in BOOLEAN, InStep(m, t, v, seen),
           Grown(toServer[m], toServer'[m], t, 0),
           relayed'[m] = relayed[m], stack'[m][t] = stack[m][t]
    PROVE  InStep(m, t, v, seen)'
<1>1. PICK w \in Nat : /\ Path(toServer[m], t, v, w, m # KeeperOf[t])
                       /\ Path(relayed[m], t, Count(stack[m][t]), w, m = KeeperOf[t])
  BY DEF InStep
<1>2. Path(toServer'[m], t, v, w, m # KeeperOf[t])
  <2>1. w + 0 = w /\ (m # KeeperOf[t]) \in BOOLEAN
    OBVIOUS
  <2>2. (m # KeeperOf[t]) => 0 >= 0
    OBVIOUS
  <2> QED
    BY <1>1, <2>1, <2>2 DEF Grown
<1>3. Silent(toServer'[m], t) <=> Silent(toServer[m], t)
  BY DEF Grown
<1> QED
  BY <1>1, <1>2, <1>3 DEF InStep

\* What m's game does to a copy that is astray from then on touches no other copy.
LEMMA GoneAstray ==
    ASSUME RelayTypes, StackInv, NEW m \in Players, NEW t \in Things, NEW x \in HookMail, Send(m, x),
           x.kind \in {"pickup", "drop", "buy"}, x.t = t, topic = "items",
           UNCHANGED <<topic, present, relayed>>,
           astray \subseteq astray', <<m, t>> \in astray',
           \A n \in Players : n # m => stack'[n] = stack[n],
           \A u \in Things : u # t => stack'[m][u] = stack[m][u]
    PROVE  StackInv'
<1>0. /\ toServer \in [Players -> Seq(HookMail)] /\ Founders \subseteq Players
  BY RelayAssumption DEF RelayTypes, WireTypes
<1>1. /\ toServer'[m] = Append(toServer[m], x) /\ toServer[m] \in Seq(HookMail)
      /\ \A n \in Players : n # m => toServer'[n] = toServer[n]
  BY <1>0 DEF Send
<1>2. ReportsOfOwners'
  <2> SUFFICES ASSUME NEW n \in Players, NEW i \in 1 .. Len(toServer'[n])
               PROVE  MayReport(n, toServer'[n][i], astray')
    BY DEF ReportsOfOwners
  <2>1. CASE n # m \/ i \in 1 .. Len(toServer[n])
    <3>1. i \in 1 .. Len(toServer[n]) /\ toServer'[n][i] = toServer[n][i]
      BY <1>1, <2>1
    <3> QED
      BY <3>1, ReportsStay DEF StackInv
  <2>2. CASE n = m /\ i \notin 1 .. Len(toServer[n])
    <3>1. toServer'[n][i] = x
      BY <1>1, <2>2
    <3> QED
      BY <2>2, <3>1 DEF MayReport
  <2> QED
    BY <2>1, <2>2
<1>3. ASSUME NEW u \in Things, u # t PROVE Grown(toServer[m], toServer'[m], u, 0)
  <2>1. Moves(x, u) = 0
    BY <1>3 DEF HookMail, Moves
  <2> QED
    BY <1>1, <2>1, PathMore
<1>4. ASSUME NEW u \in Things, NEW n \in Founders, <<n, u>> \notin astray',
             NEW v \in Nat, NEW seen \in BOOLEAN, InStep(n, u, v, seen)
      PROVE  InStep(n, u, v, seen)'
  <2>1. n \in Players /\ relayed'[n] = relayed[n]
    BY <1>0
  <2>2. stack'[n][u] = stack[n][u] /\ Grown(toServer[n], toServer'[n], u, 0)
    <3>1. CASE n = m
      BY <1>3, <1>4, <3>1
    <3>2. CASE n # m
      BY <1>1, <2>1, <3>2, GrownNot
    <3> QED
      BY <3>1, <3>2
  <2> QED
    BY <1>4, <2>1, <2>2, OtherStack
<1>5. ASSUME NEW u \in Things PROVE Serialised(u)'
  <2>1. Serialised(u)
    BY DEF StackInv
  <2> QED
    BY <1>4, <2>1 DEF Serialised
<1> QED
  BY <1>2, <1>5 DEF StackInv

LEMMA HooksKeepStep ==
    ASSUME RelayTypes, StackInv, NEW m \in Players,
           \/ \E t \in Things :
                \/ Hook_ItemPickup(m, t) \/ Hook_ItemDrop(m, t)
                \/ \E g \in Gear : GameEquips(m, t, g)
                \/ StagePollAndSendEquipment(m, t)
                \/ \E to \in Things : GiveItem(m, t, to)
           \/ \E r \in Relations : Hook_FactionRelation(m, r)
    PROVE  StackInv'
<1>0. stack \in [Players -> [Things -> Nat \cup {None}]] /\ worn \in [Players -> [Things -> Gear]]
  BY DEF RelayTypes, HeldTypes
<1>00. RelayTypes'
  BY HookTypes
<1>000. stack' \in [Players -> [Things -> Nat \cup {None}]]
  BY <1>00 DEF RelayTypes, HeldTypes
<1>1. ASSUME UNCHANGED <<topic, present, stack, toServer, relayed, astray>> PROVE StackInv'
  <2>1. \A k \in Players, t \in Things : Grown(relayed[k], relayed'[k], t, 0)
    BY <1>1, GrownNot
  <2> QED
    BY <1>1, <2>1, Unmoved
<1>2. ASSUME NEW x \in HookMail, Send(m, x), x.kind \notin {"pickup", "drop", "transfer"}, m \in present,
             UNCHANGED <<topic, present, stack, relayed, astray>>
      PROVE  StackInv'
  <2>1. \A t \in Things : Moves(x, t) = 0
    BY <1>2, MovesByKind DEF HookMail
  <2> QED
    BY <1>000, <1>2, <2>1, Reported
<1>3. ASSUME NEW t \in Things, Hook_ItemPickup(m, t) PROVE StackInv'
  <2> DEFINE x == Msg("pickup", t, 1)
  <2>1. /\ stack' = [stack EXCEPT ![m][t] = IF stack[m][t] = None THEN 1 ELSE stack[m][t] + 1]
        /\ Send(m, x) /\ topic = "items" /\ m \in present /\ astray' = astray \cup Stays(m, t)
        /\ UNCHANGED <<topic, present, relayed>>
    BY <1>0, <1>3 DEF Hook_ItemPickup, Change, store
  <2>2. /\ x \in HookMail /\ x.kind = "pickup" /\ x.t = t
        /\ Moves(x, t) = 1 /\ \A u \in Things : u # t => Moves(x, u) = 0
    BY DEF Msg, HookMail, Moves
  <2> HIDE DEF x
  <2>3. /\ \A n \in Players : n # m => stack'[n] = stack[n]
        /\ \A u \in Things : u # t => stack'[m][u] = stack[m][u]
        /\ stack'[m][t] = IF stack[m][t] = None THEN 1 ELSE stack[m][t] + 1
    BY <1>0, <2>1
  <2>4. stack'[m][t] # None /\ Count(stack'[m][t]) = Count(stack[m][t]) + 1
    BY <1>0, <2>3, CountUp
  <2>5. ASSUME NEW u \in Things
        PROVE  \/ Moves(x, u) = 0 /\ stack'[m][u] = stack[m][u]
               \/ /\ Moves(x, u) \in {-1, 1} /\ stack'[m][u] # None
                  /\ Count(stack'[m][u]) = Count(stack[m][u]) + Moves(x, u)
                  /\ Moves(x, u) = -1 => m = KeeperOf[u]
    BY <2>2, <2>3, <2>4
  <2>6. CASE KeeperOf[t] = m
    <3>1. UNCHANGED astray
      BY <2>1, <2>6 DEF Stays
    <3> QED
      BY <1>000, <2>1, <2>2, <2>3, <2>5, <2>6, <3>1, Reported
  <2>7. CASE KeeperOf[t] # m
    <3>1. astray \subseteq astray' /\ <<m, t>> \in astray'
      BY <2>1, <2>7 DEF Stays
    <3> QED
      BY <2>1, <2>2, <2>3, <3>1, GoneAstray
  <2> QED
    BY <2>6, <2>7
<1>4. ASSUME NEW t \in Things, Hook_ItemDrop(m, t) PROVE StackInv'
  <2> DEFINE x == Msg("drop", t, 1)
  <2>1. /\ stack[m][t] \notin {None, 0} /\ Send(m, x) /\ topic = "items" /\ m \in present
        /\ \E n \in {1, stack[m][t]} :
             /\ stack' = [stack EXCEPT ![m][t] = stack[m][t] - n]
             /\ astray' = astray \cup IF n = 1 THEN Stays(m, t) ELSE Players \X {t}
        /\ UNCHANGED <<topic, present, relayed>>
    BY <1>0, <1>4 DEF Hook_ItemDrop, Change, store
  <2>2. /\ x \in HookMail /\ x.kind = "drop" /\ x.t = t
        /\ Moves(x, t) = -1 /\ \A u \in Things : u # t => Moves(x, u) = 0
    BY DEF Msg, HookMail, Moves
  <2> HIDE DEF x
  <2>3. /\ \A n \in Players : n # m => stack'[n] = stack[n]
        /\ \A u \in Things : u # t => stack'[m][u] = stack[m][u]
    BY <1>0, <2>1
  <2>4. CASE KeeperOf[t] = m /\ stack' = [stack EXCEPT ![m][t] = stack[m][t] - 1] /\ UNCHANGED astray
    <3>0. stack'[m][t] = stack[m][t] - 1
      BY <1>0, <2>4
    <3>4. stack'[m][t] # None /\ Count(stack'[m][t]) = Count(stack[m][t]) - 1 /\ Count(stack[m][t]) \in Nat
      <4>1. stack[m][t] \in Nat \cup {None}
        BY <1>0
      <4>2. Count(stack[m][t]) \in Nat
        BY <4>1 DEF Count
      <4> QED
        BY <2>1, <3>0, <4>1, <4>2, CountUp
    <3>5. ASSUME NEW u \in Things
          PROVE  \/ Moves(x, u) = 0 /\ stack'[m][u] = stack[m][u]
                 \/ /\ Moves(x, u) \in {-1, 1} /\ stack'[m][u] # None
                    /\ Count(stack'[m][u]) = Count(stack[m][u]) + Moves(x, u)
                    /\ Moves(x, u) = -1 => m = KeeperOf[u]
      BY <2>2, <2>3, <2>4, <3>4
    <3> QED
      BY <1>000, <2>1, <2>2, <2>3, <2>4, <3>5, Reported
  <2>5. CASE astray \subseteq astray' /\ <<m, t>> \in astray'
    BY <2>1, <2>2, <2>3, <2>5, GoneAstray
  <2>6. \/ KeeperOf[t] = m /\ stack' = [stack EXCEPT ![m][t] = stack[m][t] - 1] /\ UNCHANGED astray
        \/ astray \subseteq astray' /\ <<m, t>> \in astray'
    <3>1. PICK n \in {1, stack[m][t]} :
             /\ stack' = [stack EXCEPT ![m][t] = stack[m][t] - n]
             /\ astray' = astray \cup IF n = 1 THEN Stays(m, t) ELSE Players \X {t}
      BY <2>1
    <3>2. CASE n = 1 /\ KeeperOf[t] = m
      BY <3>1, <3>2 DEF Stays
    <3>3. CASE ~(n = 1 /\ KeeperOf[t] = m)
      BY <3>1, <3>3 DEF Stays
    <3> QED
      BY <3>2, <3>3
  <2> QED
    BY <2>4, <2>5, <2>6
<1>5. ASSUME NEW t \in Things, NEW to \in Things, GiveItem(m, t, to) PROVE StackInv'
  <2> DEFINE x == Msg("transfer", t, to)
  <2>1. /\ stack[m][t] \notin {None, 0} /\ to # t
        /\ stack' = [stack EXCEPT ![m][t] = @ - 1, ![m][to] = IF @ = None THEN 1 ELSE @ + 1]
        /\ Send(m, x) /\ topic = "items" /\ m \in present /\ KeeperOf[t] = m
        /\ UNCHANGED <<topic, present, relayed, astray>>
    BY <1>5 DEF GiveItem, Change, Mine, store, ghosts
  <2>2. /\ x \in HookMail /\ x.kind = "transfer" /\ x.t = t /\ x.arg = to
        /\ Moves(x, t) = -1 /\ Moves(x, to) = 1
        /\ \A u \in Things : u # t /\ u # to => Moves(x, u) = 0
    BY <2>1 DEF Msg, HookMail, Moves
  <2> HIDE DEF x
  <2>3. /\ \A n \in Players : n # m => stack'[n] = stack[n]
        /\ \A u \in Things : u # t /\ u # to => stack'[m][u] = stack[m][u]
        /\ stack'[m][t] = stack[m][t] - 1
        /\ stack'[m][to] = IF stack[m][to] = None THEN 1 ELSE stack[m][to] + 1
    BY <1>0, <2>1
  <2>4. stack'[m][t] # None /\ Count(stack'[m][t]) = Count(stack[m][t]) - 1 /\ Count(stack[m][t]) \in Nat
    <3>1. stack[m][t] \in Nat \cup {None}
      BY <1>0
    <3>2. Count(stack[m][t]) \in Nat
      BY <3>1 DEF Count
    <3> QED
      BY <2>1, <2>3, <3>1, <3>2, CountUp
  <2>5. stack'[m][to] # None /\ Count(stack'[m][to]) = Count(stack[m][to]) + 1
    BY <1>0, <2>3, CountUp
  <2>6. ASSUME NEW u \in Things
        PROVE  \/ Moves(x, u) = 0 /\ stack'[m][u] = stack[m][u]
               \/ /\ Moves(x, u) \in {-1, 1} /\ stack'[m][u] # None
                  /\ Count(stack'[m][u]) = Count(stack[m][u]) + Moves(x, u)
                  /\ Moves(x, u) = -1 => m = KeeperOf[u]
    <3>1. CASE u = t
      BY <2>1, <2>2, <2>4, <3>1
    <3>2. CASE u = to
      BY <2>2, <2>5, <3>2
    <3>3. CASE u # t /\ u # to
      BY <2>2, <2>3, <3>3
    <3> QED
      BY <3>1, <3>2, <3>3
  <2> QED
    BY <1>000, <2>1, <2>2, <2>3, <2>6, Reported
<1>6. ASSUME NEW t \in Things, NEW g \in Gear, GameEquips(m, t, g) PROVE StackInv'
  BY <1>1, <1>6 DEF GameEquips, Change, store, wires, ghosts
<1>7. ASSUME NEW t \in Things, StagePollAndSendEquipment(m, t) PROVE StackInv'
  <2>1. Msg("gear", t, worn[m][t]) \in HookMail /\ Msg("gear", t, worn[m][t]).kind = "gear"
    BY <1>0 DEF Msg, HookMail
  <2> QED
    BY <1>2, <1>7, <2>1 DEF StagePollAndSendEquipment, store, ghosts
<1>8. ASSUME NEW r \in Relations, Hook_FactionRelation(m, r) PROVE StackInv'
  <2>1. Msg("relation", None, r) \in HookMail /\ Msg("relation", None, r).kind = "relation"
    BY DEF Msg, HookMail
  <2>2. /\ m \in present /\ UNCHANGED <<topic, present, stack, relayed, astray>>
        /\ Send(m, Msg("relation", None, r)) \/ UNCHANGED toServer
    BY <1>8 DEF Hook_FactionRelation, Change, store
  <2> QED
    BY <1>1, <1>2, <2>1, <2>2
<1> QED
  BY <1>3, <1>4, <1>5, <1>6, <1>7, <1>8

\* Bought goods: the copies of the others are astray, and what the owner has counts.
LEMMA PurchaseKeepsStep ==
    ASSUME RelayTypes, StackInv, NEW m \in Players, NEW t \in Things, NEW seller \in Things \cup {None},
           Hook_BuyItem(m, t, seller), KeeperOf[t] = m
    PROVE  StackInv'
<1> DEFINE x == Msg("buy", t, seller)
<1>0. /\ toServer \in [Players -> Seq(HookMail)] /\ relayed \in [Players -> Seq(OtherMail)]
      /\ stack \in [Players -> [Things -> Nat \cup {None}]]
  BY DEF RelayTypes, WireTypes, HeldTypes
<1>1. /\ stack' = [stack EXCEPT ![m][t] = IF stack[m][t] = None THEN 1 ELSE stack[m][t] + 1]
      /\ Send(m, x) /\ topic = "items" /\ m \in present
      /\ astray' = astray \cup ((Players \ {m}) \X {t})
      /\ UNCHANGED <<topic, present, relayed>>
  BY <1>0 DEF Hook_BuyItem, Change, store
<1>2. x \in HookMail /\ x.kind = "buy"
  BY DEF Msg, HookMail
<1>3. \A u : Moves(x, u) = 0
  BY <1>2, MovesByKind
<1> HIDE DEF x
<1>4. /\ \A n \in Players : n # m => stack'[n] = stack[n]
      /\ \A u \in Things : u # t => stack'[m][u] = stack[m][u]
      /\ stack'[m][t] = IF stack[m][t] = None THEN 1 ELSE stack[m][t] + 1
  BY <1>0, <1>1
<1>5. /\ toServer'[m] = Append(toServer[m], x) /\ toServer[m] \in Seq(HookMail)
      /\ \A n \in Players : n # m => toServer'[n] = toServer[n]
  BY <1>0, <1>1 DEF Send
<1>6. ASSUME NEW n \in Players, NEW u PROVE Grown(toServer[n], toServer'[n], u, 0)
  <2>1. Moves(x, u) = 0
    BY <1>3
  <2>2. Grown(toServer[m], Append(toServer[m], x), u, 0)
    BY <1>2, <1>5, <2>1, PathMore
  <2> QED
    BY <1>5, <2>2, GrownNot
<1>7. ReportsOfOwners'
  <2> SUFFICES ASSUME NEW n \in Players, NEW i \in 1 .. Len(toServer'[n])
               PROVE  MayReport(n, toServer'[n][i], astray')
    BY DEF ReportsOfOwners
  <2>1. CASE n # m \/ i \in 1 .. Len(toServer[n])
    <3>1. i \in 1 .. Len(toServer[n]) /\ toServer'[n][i] = toServer[n][i]
      BY <1>5, <2>1
    <3> QED
      BY <1>1, <3>1, ReportsStay DEF StackInv
  <2>2. CASE n = m /\ i \notin 1 .. Len(toServer[n])
    <3>1. toServer'[n][i] = x
      BY <1>5, <2>2
    <3> QED
      BY <1>2, <3>1 DEF MayReport
  <2> QED
    BY <2>1, <2>2
<1>8. ASSUME NEW u \in Things, u # t PROVE Serialised(u)'
  <2>1. Serialised(u) /\ Founders \subseteq Players
    BY <1>1, RelayAssumption DEF StackInv
  <2>2. ASSUME NEW n \in Founders, NEW v \in Nat, NEW seen \in BOOLEAN, InStep(n, u, v, seen)
        PROVE  InStep(n, u, v, seen)'
    <3>1. n \in Players /\ relayed'[n] = relayed[n] /\ stack'[n][u] = stack[n][u]
      BY <1>1, <1>4, <1>8, <2>1
    <3>2. Grown(toServer[n], toServer'[n], u, 0)
      BY <1>6, <3>1
    <3> QED
      BY <2>2, <3>1, <3>2, OtherStack
  <2>3. astray \subseteq astray'
    BY <1>1
  <2> QED
    BY <2>1, <2>2, <2>3 DEF Serialised
<1>9. Serialised(t)'
  <2> SUFFICES ASSUME <<m, t>> \notin astray'
               PROVE  \E v \in Nat, seen \in BOOLEAN :
                         \A n \in Founders : <<n, t>> \notin astray' => InStep(n, t, v, seen)'
    BY <1>1 DEF Serialised
  <2>1. <<m, t>> \notin astray /\ \A n \in Founders : <<n, t>> \notin astray' => n = m
    BY <1>1, RelayAssumption
  <2>2. PICK v \in Nat, seen \in BOOLEAN :
            \A n \in Founders : <<n, t>> \notin astray => InStep(n, t, v, seen)
    BY <1>1, <2>1 DEF StackInv, Serialised
  <2>3. m \in Founders
    BY <1>1, RelayAssumption
  <2>4. InStep(m, t, v, seen)
    BY <2>1, <2>2, <2>3
  <2> DEFINE c == Count(stack[m][t])
  <2>5. PICK w \in Nat : /\ Path(toServer[m], t, v, w, m # KeeperOf[t])
                         /\ Path(relayed[m], t, c, w, m = KeeperOf[t])
    BY <2>4 DEF InStep
  <2>6. c \in Nat /\ stack'[m][t] # None /\ Count(stack'[m][t]) = c + 1
    <3>1. stack[m][t] \in Nat \cup {None}
      BY <1>0
    <3> QED
      BY <1>4, <3>1, CountUp DEF Count
  <2> HIDE DEF c
  <2>7. Path(toServer[m], t, v + 1, w + 1, m # KeeperOf[t])
    <3>1. \A i \in 1 .. Len(toServer[m]) : Moves(toServer[m][i], t) \in Int
      <4>1. \A i \in 1 .. Len(toServer[m]) : toServer[m][i] \in HookMail
        BY <1>5
      <4> QED
        BY <4>1, MovesByKind
    <3>2. (m # KeeperOf[t]) \in BOOLEAN /\ v + 1 \in Nat /\ 1 >= 0 /\ 1 \in Int
      OBVIOUS
    <3> QED
      BY <1>5, <2>5, <3>1, <3>2, PathShift
  <2>8. Path(relayed[m], t, c + 1, w + 1, m = KeeperOf[t])
    <3>1. \A i \in 1 .. Len(relayed[m]) : Moves(relayed[m][i], t) \in Int
      <4>1. \A i \in 1 .. Len(relayed[m]) : relayed[m][i] \in OtherMail
        BY <1>0
      <4> QED
        BY <4>1, MovesByKind
    <3>2. (m = KeeperOf[t]) \in BOOLEAN /\ c + 1 \in Nat /\ 1 >= 0 /\ 1 \in Int
      BY <2>6
    <3>3. relayed[m] \in Seq(OtherMail)
      BY <1>0
    <3> QED
      BY <2>5, <2>6, <3>1, <3>2, <3>3, PathShift
  <2>9. Path(toServer'[m], t, v + 1, w + 1, m # KeeperOf[t])
    <3>1. Grown(toServer[m], toServer'[m], t, 0)
      BY <1>6
    <3>2. v + 1 \in Nat /\ w + 1 \in Nat /\ w + 1 + 0 = w + 1 /\ (m # KeeperOf[t]) \in BOOLEAN
      OBVIOUS
    <3>3. (m # KeeperOf[t]) => 0 >= 0
      OBVIOUS
    <3> QED
      BY <2>7, <3>1, <3>2, <3>3 DEF Grown
  <2>10. w + 1 \in Nat /\ v + 1 \in Nat
    OBVIOUS
  <2>11. InStep(m, t, v + 1, TRUE)'
    BY <1>1, <2>6, <2>8, <2>9, <2>10 DEF InStep
  <2>12. \A n \in Founders : <<n, t>> \notin astray' => InStep(n, t, v + 1, TRUE)'
    BY <2>1, <2>11
  <2> QED
    BY <2>10, <2>12
<1> QED
  BY <1>1, <1>7, <1>8, <1>9 DEF StackInv

\* Another's character buys in m's game: m's copy is astray.
LEMMA TheirPurchaseKeepsStep ==
    ASSUME RelayTypes, StackInv, NEW m \in Players, NEW t \in Things, NEW seller \in Things \cup {None},
           Hook_BuyItem(m, t, seller), KeeperOf[t] # m
    PROVE  StackInv'
<1>0. stack \in [Players -> [Things -> Nat \cup {None}]]
  BY DEF RelayTypes, HeldTypes
<1>1. /\ stack' = [stack EXCEPT ![m][t] = IF stack[m][t] = None THEN 1 ELSE stack[m][t] + 1]
      /\ Send(m, Msg("buy", t, seller)) /\ topic = "items" /\ astray' = astray \cup {<<m, t>>}
      /\ UNCHANGED <<topic, present, relayed>>
  BY <1>0 DEF Hook_BuyItem, Change, store, Stays
<1>2. /\ Msg("buy", t, seller) \in HookMail /\ Msg("buy", t, seller).kind = "buy"
      /\ Msg("buy", t, seller).t = t
  BY DEF Msg, HookMail
<1>3. /\ \A n \in Players : n # m => stack'[n] = stack[n]
      /\ \A u \in Things : u # t => stack'[m][u] = stack[m][u]
  BY <1>0, <1>1
<1> QED
  BY <1>1, <1>2, <1>3, GoneAstray

LEMMA SilentTail ==
    ASSUME NEW S, NEW q \in Seq(S), q # << >>, NEW t
    PROVE  Silent(q, t) <=> Moves(Head(q), t) = 0 /\ Silent(Tail(q), t)
<1> DEFINE n == Len(q)
           r == Tail(q)
<1>1. /\ n \in Nat /\ n > 0 /\ Len(r) = n - 1 /\ Head(q) = q[1] /\ 1 \in 1 .. n
      /\ \A i \in 1 .. n - 1 : i + 1 \in 1 .. n /\ r[i] = q[i + 1]
  OBVIOUS
<1>2. \A i \in 1 .. n : i = 1 \/ (i - 1 \in 1 .. n - 1 /\ q[i] = r[i - 1])
  BY <1>1
<1> HIDE DEF n, r
<1>3. Silent(q, t) <=> \A i \in 1 .. n : Moves(q[i], t) = 0
  BY DEF Silent, n
<1>4. Silent(r, t) <=> \A i \in 1 .. n - 1 : Moves(r[i], t) = 0
  BY <1>1 DEF Silent
<1>5. ASSUME \A i \in 1 .. n : Moves(q[i], t) = 0 PROVE Moves(q[1], t) = 0 /\ \A i \in 1 .. n - 1 : Moves(r[i], t) = 0
  BY <1>1, <1>5
<1>6. ASSUME Moves(q[1], t) = 0, \A i \in 1 .. n - 1 : Moves(r[i], t) = 0, NEW i \in 1 .. n PROVE Moves(q[i], t) = 0
  BY <1>2, <1>6
<1> QED
  BY <1>1, <1>3, <1>4, <1>5, <1>6 DEF r

\* The server passes on what a report says, to all others and once.
LEMMA Casts ==
    ASSUME RelayTypes, NEW m \in Players, NEW x \in HookMail, Dispatch(m, x),
           x.kind \in {"pickup", "drop", "transfer"} => KeeperOf[x.t] = m,
           x.kind = "transfer" => x.arg # x.t,
           NEW n \in Players, NEW t \in Things
    PROVE  IF n \in present \ {m} THEN Grown(relayed[n], relayed'[n], t, Moves(x, t))
                                  ELSE relayed'[n] = relayed[n]
<1>0. relayed \in [Players -> Seq(OtherMail)] /\ relayed[n] \in Seq(OtherMail)
  BY DEF RelayTypes, WireTypes
<1>1. ASSUME NEW msg
      PROVE  \A f \in [Players -> Seq(OtherMail)] :
               BroadcastExcept(f, m, msg)[n] = IF n \in present \ {m} THEN Append(f[n], msg) ELSE f[n]
  BY DEF BroadcastExcept
<1>2. ASSUME NEW u \in Things, NEW k \in {-1, 1}
      PROVE  /\ Msg("bag", u, k) \in OtherMail
             /\ Moves(Msg("bag", u, k), t) = IF u = t THEN k ELSE 0
  BY DEF Msg, OtherMail, Moves
<1>3. ASSUME NEW u \in Things, NEW k \in {-1, 1}, relayed' = BroadcastExcept(relayed, m, Msg("bag", u, k)),
             Moves(x, t) = IF u = t THEN k ELSE 0
      PROVE  IF n \in present \ {m} THEN Grown(relayed[n], relayed'[n], t, Moves(x, t))
                                    ELSE relayed'[n] = relayed[n]
  <2>1. Msg("bag", u, k) \in OtherMail /\ Moves(Msg("bag", u, k), t) = Moves(x, t) /\ Moves(x, t) \in Int
    BY <1>2, <1>3
  <2>2. Grown(relayed[n], Append(relayed[n], Msg("bag", u, k)), t, Moves(x, t))
    BY <1>0, <2>1, PathMore
  <2> QED
    BY <1>0, <1>1, <1>3, <2>2
<1>4. CASE x.kind = "pickup" /\ HandleItemPickup(m, x.t, x.arg)
  <2>1. x.t \in Things /\ x.arg = 1 /\ Owned(m, x.t)
    BY <1>4 DEF HookMail, Owned
  <2>2. Moves(x, t) = IF x.t = t THEN 1 ELSE 0
    BY <1>4, <2>1 DEF Moves
  <2>3. relayed' = BroadcastExcept(relayed, m, Msg("bag", x.t, 1))
    BY <1>4, <2>1 DEF HandleItemPickup
  <2> QED
    BY <1>3, <2>1, <2>2, <2>3
<1>5. CASE x.kind = "drop" /\ HandleItemDrop(m, x.t)
  <2>1. x.t \in Things /\ Owned(m, x.t)
    BY <1>5 DEF HookMail, Owned
  <2>2. Moves(x, t) = IF x.t = t THEN -1 ELSE 0
    BY <1>5 DEF Moves
  <2>3. relayed' = BroadcastExcept(relayed, m, Msg("bag", x.t, -1))
    BY <1>5, <2>1 DEF HandleItemDrop
  <2> QED
    BY <1>3, <2>1, <2>2, <2>3
<1>6. CASE x.kind = "transfer" /\ HandleItemTransfer(m, x.t, x.arg)
  <2> DEFINE less == Msg("bag", x.t, -1)
             more == Msg("bag", x.arg, 1)
             once == BroadcastExcept(relayed, m, less)
  <2>1. x.t \in Things /\ x.arg \in Things /\ x.arg # x.t /\ Owned(m, x.t)
    BY <1>6 DEF HookMail, Owned
  <2>2. Moves(x, t) = IF x.t = t THEN -1 ELSE IF x.arg = t THEN 1 ELSE 0
    BY <1>6 DEF Moves
  <2>3. /\ less \in OtherMail /\ Moves(less, t) = IF x.t = t THEN -1 ELSE 0
        /\ more \in OtherMail /\ Moves(more, t) = IF x.arg = t THEN 1 ELSE 0
    BY <1>2, <2>1
  <2>4. relayed' = BroadcastExcept(once, m, more)
    BY <1>6, <2>1 DEF HandleItemTransfer
  <2> HIDE DEF less, more
  <2>5. once \in [Players -> Seq(OtherMail)]
    BY <1>0, <2>3, ChannelGrows
  <2>6. once[n] = IF n \in present \ {m} THEN Append(relayed[n], less) ELSE relayed[n]
    BY <1>0, <1>1
  <2> HIDE DEF once
  <2>7. relayed'[n] = IF n \in present \ {m} THEN Append(once[n], more) ELSE once[n]
    BY <1>1, <2>4, <2>5
  <2>8. CASE n \in present \ {m}
    <3> DEFINE q == Append(relayed[n], less)
    <3>1. q \in Seq(OtherMail) /\ relayed'[n] = Append(q, more)
      BY <1>0, <2>3, <2>6, <2>7, <2>8
    <3>2. Grown(relayed[n], q, t, Moves(less, t))
      BY <1>0, <2>3, PathMore
    <3> HIDE DEF q
    <3>3. Grown(q, relayed'[n], t, Moves(more, t))
      BY <2>3, <3>1, PathMore
    <3>4. CASE x.arg # t
      <4>1. Moves(more, t) = 0 /\ Moves(less, t) = Moves(x, t) /\ Moves(x, t) \in Int
        BY <2>2, <2>3, <3>4
      <4> QED
        BY <2>8, <3>2, <3>3, <4>1, GrownTwice
    <3>5. CASE x.arg = t
      <4>1. Moves(less, t) = 0 /\ Moves(more, t) = 1 /\ Moves(x, t) = 1
        BY <2>1, <2>2, <2>3, <3>5
      <4>2. Grown(relayed[n], relayed'[n], t, 1)
        BY <3>2, <3>3, <4>1, GrownAfter
      <4> QED
        BY <2>8, <4>1, <4>2
    <3> QED
      BY <3>4, <3>5
  <2> QED
    BY <2>6, <2>7, <2>8
<1>7. CASE x.kind = "gear" /\ HandleEquipmentUpdate(m, x.t, x.arg)
  <2> DEFINE y == Msg("gear", x.t, x.arg)
  <2>1. y \in OtherMail /\ y.kind = "gear"
    BY <1>7 DEF HookMail, Msg, OtherMail
  <2> HIDE DEF y
  <2>2. Moves(x, t) = 0 /\ Moves(y, t) = 0
    BY <1>7, <2>1, MovesByKind
  <2>3. relayed' \in {relayed, BroadcastExcept(relayed, m, y)}
    BY <1>7 DEF HandleEquipmentUpdate, y
  <2>4. Grown(relayed[n], Append(relayed[n], y), t, 0) /\ Grown(relayed[n], relayed[n], t, 0)
    BY <1>0, <2>1, <2>2, PathMore, GrownNot
  <2> QED
    BY <1>0, <1>1, <2>2, <2>3, <2>4
<1>8. ASSUME x.kind \in {"buy", "relation"}, relayed' = relayed
      PROVE  IF n \in present \ {m} THEN Grown(relayed[n], relayed'[n], t, Moves(x, t))
                                    ELSE relayed'[n] = relayed[n]
  <2>1. Moves(x, t) = 0
    BY <1>8, MovesByKind
  <2> QED
    BY <1>8, <2>1, GrownNot
<1> QED
  BY <1>4, <1>5, <1>6, <1>7, <1>8 DEF Dispatch, HandleTradeRequest, HandleFactionRelation

\* A report the server takes: its order goes on by what it says.
LEMMA TakenKeepsStep ==
    ASSUME RelayTypes, StackInv, NEW m \in Players, ServerUpdate(m)
    PROVE  StackInv'
<1> DEFINE q == toServer[m]
           x == Head(q)
<1>0. /\ toServer \in [Players -> Seq(HookMail)] /\ relayed \in [Players -> Seq(OtherMail)]
      /\ stack \in [Players -> [Things -> Nat \cup {None}]] /\ Founders \subseteq Players
  BY RelayAssumption DEF RelayTypes, WireTypes, HeldTypes
<1>1. /\ q \in Seq(HookMail) /\ q # << >> /\ Dispatch(m, x) /\ m \in present
      /\ toServer' = [toServer EXCEPT ![m] = Tail(@)]
      /\ UNCHANGED <<topic, stack, astray>>
  BY <1>0 DEF ServerUpdate, games, ghosts
<1>2. /\ x \in HookMail /\ x = q[1] /\ 1 \in 1 .. Len(q) /\ Len(Tail(q)) = Len(q) - 1
      /\ \A i \in 1 .. Len(q) - 1 : Tail(q)[i] = q[i + 1] /\ i + 1 \in 1 .. Len(q)
  BY <1>1
<1>3. /\ toServer'[m] = Tail(q) /\ \A n \in Players : n # m => toServer'[n] = toServer[n]
  BY <1>0, <1>1
<1>4. MayReport(m, x, astray)
  BY <1>2 DEF StackInv, ReportsOfOwners
<1> HIDE DEF q, x
<1>5. UNCHANGED present
  BY <1>1 DEF Dispatch, HandleItemPickup, HandleItemDrop, HandleItemTransfer, HandleTradeRequest,
              HandleEquipmentUpdate, HandleFactionRelation, store
<1> DEFINE owned == x.kind \in {"pickup", "drop", "transfer"} => KeeperOf[x.t] = m
<1>6. ASSUME owned, NEW n \in Players, NEW t \in Things
      PROVE  IF n \in present \ {m} THEN Grown(relayed[n], relayed'[n], t, Moves(x, t))
                                    ELSE relayed'[n] = relayed[n]
  BY <1>1, <1>2, <1>4, <1>6, Casts DEF MayReport
<1>7. ReportsOfOwners'
  <2> SUFFICES ASSUME NEW n \in Players, NEW i \in 1 .. Len(toServer'[n])
               PROVE  MayReport(n, toServer'[n][i], astray')
    BY DEF ReportsOfOwners
  <2>1. CASE n # m
    BY <1>1, <1>3, <2>1 DEF StackInv, ReportsOfOwners
  <2>2. CASE n = m
    <3>1. toServer'[n][i] = toServer[m][i + 1] /\ i + 1 \in 1 .. Len(toServer[m])
      BY <1>2, <1>3, <2>2 DEF q
    <3> QED
      BY <1>1, <2>2, <3>1 DEF StackInv, ReportsOfOwners
  <2> QED
    BY <2>1, <2>2
<1>8. ASSUME NEW t \in Things PROVE Silent(q, t) <=> Moves(x, t) = 0 /\ Silent(Tail(q), t)
  BY <1>1, SilentTail DEF x
<1>9. CASE owned /\ topic # "items"
  <2>1. ASSUME NEW n \in Players, NEW t \in Things PROVE Silent(relayed'[n], t) /\ Silent(toServer'[n], t)
    <3>1. Silent(relayed[n], t) /\ Silent(toServer[n], t) /\ Silent(q, t)
      BY <1>9 DEF StackInv, NothingMoves, q
    <3>2. Moves(x, t) = 0 /\ Silent(Tail(q), t)
      BY <1>8, <3>1
    <3>3. Silent(relayed'[n], t)
      BY <1>6, <1>9, <3>1, <3>2 DEF Grown
    <3> QED
      BY <1>3, <3>1, <3>2, <3>3
  <2> QED
    BY <1>1, <1>7, <1>9, <2>1 DEF StackInv, NothingMoves
<1>10. CASE owned /\ topic = "items"
  <2>1. ASSUME NEW t \in Things PROVE Serialised(t)'
    <3> DEFINE k == KeeperOf[t]
    <3>0. PICK d : d = Moves(x, t)
      OBVIOUS
    <3> SUFFICES ASSUME <<k, t>> \notin astray
                 PROVE  \E v \in Nat, seen \in BOOLEAN :
                           \A n \in Founders : <<n, t>> \notin astray => InStep(n, t, v, seen)'
      BY <1>1 DEF Serialised
    <3>1. PICK v \in Nat, seen \in BOOLEAN :
              \A n \in Founders : <<n, t>> \notin astray => InStep(n, t, v, seen)
      BY <1>10 DEF StackInv, Serialised
    <3>2. m \in Founders /\ present = Founders
      BY <1>1, <1>10 DEF StackInv
    <3>3. d \in {-1, 0, 1} /\ (d = -1 => m = k)
      <4>1. d \in {-1, 0, 1}
        BY <1>2, <3>0, MovesByKind
      <4>2. ASSUME d = -1 PROVE x.kind \in {"drop", "transfer"} /\ x.t = t
        BY <1>2, <3>0, <4>2 DEF HookMail, Moves
      <4> QED
        BY <1>10, <4>1, <4>2
    <3>4. ASSUME <<m, t>> \notin astray PROVE v + d \in Nat
      <4>1. PICK w \in Nat : Path(q, t, v, w, m # k)
        BY <3>1, <3>2, <3>4 DEF InStep, q
      <4>2. (m # k) \in BOOLEAN /\ Moves(Head(q), t) \in Int
        BY <3>0, <3>3 DEF x
      <4> QED
        BY <1>1, <3>0, <4>1, <4>2, PathHead DEF x
    <3>5. ASSUME <<m, t>> \in astray PROVE d >= 0
      BY <3>3, <3>5
    <3>6. v + d \in Nat
      BY <3>3, <3>4, <3>5
    <3> DEFINE heard2 == seen \/ d # 0
    <3>7. ASSUME <<m, t>> \notin astray PROVE InStep(m, t, v + d, heard2)'
      <4>1. InStep(m, t, v, seen)
        BY <3>1, <3>2, <3>7
      <4>2. PICK w \in Nat : /\ Path(q, t, v, w, m # k)
                             /\ Path(relayed[m], t, Count(stack[m][t]), w, m = k)
        BY <4>1 DEF InStep, q
      <4>3. Path(Tail(q), t, v + d, w, m # k)
        <5>1. (m # k) \in BOOLEAN /\ Moves(Head(q), t) \in Int
          BY <3>0, <3>3 DEF x
        <5> QED
          BY <1>1, <3>0, <4>2, <5>1, PathHead DEF x
      <4>4. relayed'[m] = relayed[m] /\ stack'[m][t] = stack[m][t] /\ toServer'[m] = Tail(q)
        BY <1>1, <1>3, <1>6, <1>10
      <4>5. \E u \in Nat : /\ Path(toServer[m], t, v + d, u, m # k)'
                            /\ Path(relayed[m], t, Count(stack[m][t]), u, m = k)'
        BY <4>2, <4>3, <4>4
      <4>6. Silent(q, t) <=> d = 0 /\ Silent(Tail(q), t)
        BY <1>8, <3>0
      <4>7. /\ stack[m][t] = None => Silent(q, t)
            /\ ~seen => Silent(relayed[m], t) /\ (stack[m][t] # None => ~Silent(q, t))
            /\ seen /\ stack[m][t] = None => ~Silent(relayed[m], t)
        BY <4>1 DEF InStep, q
      <4> QED
        BY <4>4, <4>5, <4>6, <4>7 DEF InStep
    <3>8. ASSUME NEW n \in Founders, n # m, <<n, t>> \notin astray PROVE InStep(n, t, v + d, heard2)'
      <4>1. InStep(n, t, v, seen) /\ n \in Players
        BY <1>0, <3>1, <3>8
      <4>2. PICK w \in Nat : /\ Path(toServer[n], t, v, w, n # k)
                             /\ Path(relayed[n], t, Count(stack[n][t]), w, n = k)
        BY <4>1 DEF InStep
      <4>3. d \in Int /\ (d >= 0 \/ n # k)
        BY <3>3, <3>8
      <4>4. w + d \in Nat /\ Path(toServer[n], t, v + d, w + d, n # k)
        <5>1. \A i \in 1 .. Len(toServer[n]) : Moves(toServer[n][i], t) \in Int
          <6>1. \A i \in 1 .. Len(toServer[n]) : toServer[n][i] \in HookMail
            BY <1>0, <4>1
          <6> QED
            BY <6>1, MovesByKind
        <5>2. toServer[n] \in Seq(HookMail) /\ (n # k) \in BOOLEAN
          BY <1>0, <4>1
        <5> QED
          BY <3>6, <4>2, <4>3, <5>1, <5>2, PathShift
      <4>5. Grown(relayed[n], relayed'[n], t, d)
        BY <1>6, <1>10, <3>0, <3>2, <3>8, <4>1
      <4>6. Path(relayed'[n], t, Count(stack[n][t]), w + d, n = k)
        <5>1. Count(stack[n][t]) \in Nat
          BY <1>0, <4>1 DEF Count
        <5>2. (n = k) \in BOOLEAN /\ (n = k => d >= 0)
          BY <4>3
        <5> QED
          BY <4>2, <4>4, <4>5, <5>1, <5>2 DEF Grown
      <4>7. stack'[n][t] = stack[n][t] /\ toServer'[n] = toServer[n]
        BY <1>1, <1>3, <3>8, <4>1
      <4>8. \E u \in Nat : /\ Path(toServer[n], t, v + d, u, n # k)'
                            /\ Path(relayed[n], t, Count(stack[n][t]), u, n = k)'
        BY <4>4, <4>6, <4>7
      <4>9. Silent(relayed'[n], t) <=> Silent(relayed[n], t) /\ d = 0
        BY <4>5 DEF Grown
      <4>10. /\ stack[n][t] = None => Silent(toServer[n], t)
             /\ ~seen => Silent(relayed[n], t) /\ (stack[n][t] # None => ~Silent(toServer[n], t))
             /\ seen /\ stack[n][t] = None => ~Silent(relayed[n], t)
        BY <4>1 DEF InStep
      <4> QED
        BY <4>7, <4>8, <4>9, <4>10 DEF InStep
    <3> DEFINE v2 == v + d
    <3>9. \A n \in Founders : <<n, t>> \notin astray => InStep(n, t, v2, heard2)'
      BY <3>7, <3>8
    <3>10. v2 \in Nat /\ heard2 \in BOOLEAN
      BY <3>6
    <3> HIDE DEF v2, heard2
    <3> QED
      BY <3>9, <3>10
  <2> QED
    BY <1>1, <1>5, <1>7, <1>10, <2>1 DEF StackInv
<1>11. CASE ~owned
  <2>1. x.kind \in {"pickup", "drop"} /\ KeeperOf[x.t] # m /\ <<m, x.t>> \in astray
    BY <1>4, <1>11 DEF MayReport
  <2>2. relayed' = relayed
    BY <1>1, <2>1 DEF Dispatch, HandleItemPickup, HandleItemDrop, Owned
  <2>3. stack' = stack /\ topic' = topic /\ present' = present /\ astray' = astray
    BY <1>1, <1>5
  <2>4. CASE topic # "items"
    <3>1. ASSUME NEW n \in Players, NEW t \in Things PROVE Silent(relayed'[n], t) /\ Silent(toServer'[n], t)
      <4>1. Silent(relayed[n], t) /\ Silent(toServer[n], t) /\ Silent(q, t)
        BY <2>4 DEF StackInv, NothingMoves, q
      <4> QED
        BY <1>3, <1>8, <2>2, <4>1
    <3>2. NothingMoves'
      BY <2>3, <2>4, <3>1 DEF StackInv, NothingMoves
    <3> QED
      BY <1>7, <2>3, <2>4, <3>2 DEF StackInv
  <2>5. CASE topic = "items"
    <3>1. ASSUME NEW n \in Founders, NEW t \in Things, <<n, t>> \notin astray,
                 NEW v \in Nat, NEW seen \in BOOLEAN, InStep(n, t, v, seen)
          PROVE  InStep(n, t, v, seen)'
      <4>0. n \in Players
        BY <1>0
      <4>1. CASE n # m
        <5>1. toServer'[n] = toServer[n]
          BY <1>3, <4>0, <4>1
        <5> QED
          BY <2>2, <2>3, <3>1, <5>1 DEF InStep
      <4>2. CASE n = m
        <5>1. Moves(x, t) = 0
          BY <1>2, <2>1, <3>1, <4>2 DEF HookMail, Moves
        <5>2. PICK w \in Nat : /\ Path(q, t, v, w, m # KeeperOf[t])
                               /\ Path(relayed[m], t, Count(stack[m][t]), w, m = KeeperOf[t])
          BY <3>1, <4>2 DEF InStep, q
        <5>3. Path(Tail(q), t, v, w, m # KeeperOf[t])
          <6>1. (m # KeeperOf[t]) \in BOOLEAN /\ Moves(Head(q), t) = 0 /\ 0 \in Int /\ v + 0 = v
            BY <5>1 DEF x
          <6>2. Path(Tail(q), t, v + Moves(Head(q), t), w, m # KeeperOf[t])
            BY <1>1, <5>2, <6>1, PathHead
          <6> QED
            BY <6>1, <6>2
        <5>4. toServer'[m] = Tail(q)
          BY <1>3
        <5>5. Silent(q, t) <=> Silent(Tail(q), t)
          BY <1>8, <5>1
        <5>6. /\ stack[m][t] = None => Silent(q, t)
              /\ ~seen => Silent(relayed[m], t) /\ (stack[m][t] # None => ~Silent(q, t))
              /\ seen /\ stack[m][t] = None => ~Silent(relayed[m], t)
          BY <3>1, <4>2 DEF InStep, q
        <5> QED
          BY <2>2, <2>3, <4>2, <5>2, <5>3, <5>4, <5>5, <5>6 DEF InStep
      <4> QED
        BY <4>1, <4>2
    <3>2. ASSUME NEW t \in Things PROVE Serialised(t)'
      <4>1. Serialised(t)
        BY <2>5 DEF StackInv
      <4> QED
        BY <2>3, <3>1, <4>1 DEF Serialised
    <3> QED
      BY <1>7, <2>3, <2>5, <3>2 DEF StackInv
  <2> QED
    BY <2>4, <2>5
<1> QED
  BY <1>9, <1>10, <1>11

\* Requests of other kinds, positions and a join.
LEMMA ServerKeepsStep ==
    ASSUME RelayTypes, StackInv, NEW m \in Players,
           \/ \E t \in Things :
                \/ \E p \in Places : HandlePositionUpdate(m, t, p)
                \/ Notice(m, t)
           \/ BroadcastPositions(m)
           \/ SendWorldSnapshot(m)
    PROVE  StackInv'
<1>0. relayed \in [Players -> Seq(OtherMail)] /\ storeGear \in [Things -> Gear]
  BY DEF RelayTypes, WireTypes, StoreTypes
<1>1. ASSUME UNCHANGED <<topic, present, stack, toServer, relayed, astray>> PROVE StackInv'
  <2>1. \A k \in Players, t \in Things : Grown(relayed[k], relayed'[k], t, 0)
    BY <1>1, GrownNot
  <2> QED
    BY <1>1, <2>1, Unmoved
<1>2. ASSUME NEW t \in Things, NEW p \in Places, HandlePositionUpdate(m, t, p) PROVE StackInv'
  BY <1>1, <1>2 DEF HandlePositionUpdate, Change, games, wires, store
<1>3. ASSUME NEW t \in Things, Notice(m, t) PROVE StackInv'
  <2>1. UNCHANGED <<topic, present, stack, toServer, astray>>
    BY <1>3 DEF Notice, games, ghosts, store, HandleSquadCreate, HandleSquadAddMember, HandleDoorInteract,
                HandleCombatStance, HandleStatusEffect, HandleBuildRepair
  <2>2. ASSUME NEW kind \in {"stance", "status", "progress"}, NEW arg \in Int,
               relayed' \in {relayed, BroadcastExcept(relayed, m, Msg(kind, t, arg))}
        PROVE  StackInv'
    <3>1. Msg(kind, t, arg) \in OtherMail /\ \A u : Moves(Msg(kind, t, arg), u) = 0
      BY DEF Msg, OtherMail, Moves
    <3> DEFINE y == Msg(kind, t, arg)
    <3> HIDE DEF y
    <3>2. ASSUME NEW k \in Players, NEW u \in Things PROVE Grown(relayed[k], relayed'[k], u, 0)
      <4>1. relayed'[k] \in {relayed[k], Append(relayed[k], y)} /\ relayed[k] \in Seq(OtherMail)
        BY <1>0, <2>2 DEF BroadcastExcept, y
      <4>2. Grown(relayed[k], Append(relayed[k], y), u, 0)
        BY <3>1, <4>1, PathMore DEF y
      <4> QED
        BY <4>1, <4>2, GrownNot
    <3> QED
      BY <2>1, <3>2, Unmoved
  <2>3. CASE relayed' = relayed
    BY <1>1, <2>1, <2>3
  <2>4. ASSUME NEW stance \in {3, 4}, HandleCombatStance(m, t, stance) PROVE StackInv'
    BY <2>2, <2>4 DEF HandleCombatStance
  <2>5. ASSUME NEW effect \in {3, 4}, HandleStatusEffect(m, t, effect) PROVE StackInv'
    BY <2>2, <2>5 DEF HandleStatusEffect
  <2>6. CASE HandleBuildRepair(m, t)
    <3>1. progress' \in Int
      BY <2>6 DEF HandleBuildRepair, Repaired, RelayTypes, StoreTypes
    <3> QED
      BY <2>2, <2>6, <3>1 DEF HandleBuildRepair
  <2> QED
    BY <1>3, <2>3, <2>4, <2>5, <2>6 DEF Notice, HandleSquadCreate, HandleSquadAddMember, HandleDoorInteract
<1>4. CASE BroadcastPositions(m)
  BY <1>1, <1>4 DEF BroadcastPositions, store, wires, ghosts
<1>5. CASE SendWorldSnapshot(m)
  <2> DEFINE dressed == SetToSeq({t \in Things : storeGear[t] # 0})
             gears  == [i \in DOMAIN dressed |-> Msg("gear", dressed[i], storeGear[dressed[i]])]
  <2>0. topic = "gear" /\ UNCHANGED <<topic, stack, toServer, astray>>
    BY <1>5 DEF SendWorldSnapshot, games, ghosts
  <2>1. relayed' = [relayed EXCEPT ![m] = @ \o gears]
    BY <1>5 DEF SendWorldSnapshot
  <2>2. dressed \in Seq({t \in Things : storeGear[t] # 0})
    <3>0. IsFiniteSet(Things)
      BY RelayAssumption
    <3>1. IsFiniteSet({t \in Things : storeGear[t] # 0})
      BY <3>0, FS_Subset
    <3> QED
      BY <3>1, SetIsListed
  <2> HIDE DEF dressed
  <2>3. gears \in Seq(OtherMail) /\ \A i \in 1 .. Len(gears) : gears[i].kind = "gear"
    <3>1. \A i \in DOMAIN dressed : Msg("gear", dressed[i], storeGear[dressed[i]]) \in OtherMail
      BY <1>0, <2>2 DEF Msg, OtherMail
    <3>2. Len(gears) = Len(dressed) /\ gears \in Seq(OtherMail)
      BY <2>2, <3>1
    <3> QED
      BY <2>2, <3>2 DEF Msg
  <2> HIDE DEF gears
  <2>4. ASSUME NEW k \in Players, NEW t \in Things PROVE Silent(relayed'[k], t)
    <3>1. Silent(relayed[k], t)
      BY <2>0 DEF StackInv, NothingMoves
    <3>2. CASE k # m
      BY <1>0, <2>1, <3>1, <3>2
    <3>3. CASE k = m
      <4>1. relayed'[k] = relayed[k] \o gears /\ relayed[k] \in Seq(OtherMail)
        BY <1>0, <2>1, <3>3
      <4> SUFFICES ASSUME NEW i \in 1 .. Len(relayed'[k]) PROVE Moves(relayed'[k][i], t) = 0
        BY DEF Silent
      <4>2. CASE i <= Len(relayed[k])
        <5>1. i \in 1 .. Len(relayed[k]) /\ relayed'[k][i] = relayed[k][i]
          BY <2>3, <4>1, <4>2
        <5> QED
          BY <3>1, <5>1 DEF Silent
      <4>3. CASE ~(i <= Len(relayed[k]))
        <5>1. i - Len(relayed[k]) \in 1 .. Len(gears) /\ relayed'[k][i] = gears[i - Len(relayed[k])]
          BY <2>3, <4>1, <4>3
        <5>2. relayed'[k][i].kind = "gear"
          BY <2>3, <5>1
        <5> QED
          BY <5>2, MovesByKind
      <4> QED
        BY <4>2, <4>3
    <3> QED
      BY <3>2, <3>3
  <2> QED
    BY <2>0, <2>4, ReportsUntouched DEF StackInv, NothingMoves
<1> QED
  BY <1>2, <1>3, <1>4, <1>5

\* A message the client takes: what it sees goes on by what the message says.
LEMMA RelayedKeepsStep ==
    ASSUME RelayTypes, StackInv, NEW m \in Players, TakeRelayed(m)
    PROVE  StackInv'
<1> DEFINE q == relayed[m]
           x == Head(q)
<1>0. /\ relayed \in [Players -> Seq(OtherMail)] /\ Founders \subseteq Players
      /\ stack \in [Players -> [Things -> Nat \cup {None}]]
  BY RelayAssumption DEF RelayTypes, WireTypes, HeldTypes
<1>1. /\ q \in Seq(OtherMail) /\ q # << >>
      /\ relayed' = [relayed EXCEPT ![m] = Tail(@)]
      /\ \/ x.kind = "bag" /\ HandleInventoryUpdate(m, x)
         \/ x.kind = "gear" /\ HandleEquipment(m, x)
         \/ x.kind \in {"stance", "status", "progress"} /\ UNCHANGED <<stack, worn, astray>>
      /\ UNCHANGED <<topic, present, toServer>>
  BY <1>0 DEF TakeRelayed, store
<1>2. x \in OtherMail
  BY <1>1
<1>3. relayed'[m] = Tail(q) /\ \A n \in Players : n # m => relayed'[n] = relayed[n]
  BY <1>0, <1>1
<1> HIDE DEF q, x
<1>4. ASSUME NEW t \in Things PROVE Silent(q, t) <=> Moves(x, t) = 0 /\ Silent(Tail(q), t)
  BY <1>1, SilentTail DEF x
<1>5. /\ astray \subseteq astray'
      /\ \A n \in Players : n # m => stack'[n] = stack[n]
      /\ \/ stack' = stack /\ (x.kind = "bag" => <<m, x.t>> \in astray')
         \/ /\ x.kind = "bag" /\ stack[m][x.t] # None
            /\ stack' = [stack EXCEPT ![m][x.t] = IF x.arg > 0 THEN AddItem(@, x.arg)
                                                  ELSE RemoveItem(@, -x.arg)]
  <2>1. CASE x.kind = "bag" /\ HandleInventoryUpdate(m, x)
    <3>1. CASE x.t \in linked[m] /\ stack[m][x.t] # None
      BY <1>0, <2>1, <3>1 DEF HandleInventoryUpdate
    <3>2. CASE ~(x.t \in linked[m] /\ stack[m][x.t] # None)
      BY <2>1, <3>2 DEF HandleInventoryUpdate
    <3> QED
      BY <3>1, <3>2
  <2>2. CASE x.kind = "gear" /\ HandleEquipment(m, x)
    BY <2>2 DEF HandleEquipment
  <2>3. CASE x.kind \in {"stance", "status", "progress"} /\ UNCHANGED <<stack, worn, astray>>
    BY <2>3
  <2> QED
    BY <1>1, <2>1, <2>2, <2>3
<1>6. CASE topic # "items"
  <2>1. ASSUME NEW n \in Players, NEW t \in Things
        PROVE  Silent(relayed'[n], t) /\ Silent(toServer'[n], t)
    <3>1. Silent(relayed[n], t) /\ Silent(toServer[n], t) /\ Silent(q, t)
      BY <1>6 DEF StackInv, NothingMoves, q
    <3> QED
      BY <1>1, <1>3, <1>4, <3>1
  <2>2. stack' = stack
    <3>1. ASSUME x.kind = "bag" PROVE FALSE
      <4>1. x.t \in Things /\ x.arg \in {-1, 1}
        BY <1>2, <3>1 DEF OtherMail
      <4>2. Moves(x, x.t) = x.arg
        BY <3>1 DEF Moves
      <4>3. Silent(q, x.t)
        BY <1>6, <4>1 DEF StackInv, NothingMoves, q
      <4> QED
        BY <1>4, <4>1, <4>2, <4>3
    <3> QED
      BY <1>5, <3>1
  <2> QED
    BY <1>1, <1>5, <1>6, <2>1, <2>2, ReportsUntouched DEF StackInv, NothingMoves
<1>7. CASE topic = "items"
  <2>1. ASSUME NEW t \in Things PROVE Serialised(t)'
    <3> DEFINE k == KeeperOf[t]
    <3> SUFFICES ASSUME <<k, t>> \notin astray'
                 PROVE  \E v \in Nat, seen \in BOOLEAN :
                           \A n \in Founders : <<n, t>> \notin astray' => InStep(n, t, v, seen)'
      BY DEF Serialised
    <3>1. PICK v \in Nat, seen \in BOOLEAN :
              \A n \in Founders : <<n, t>> \notin astray => InStep(n, t, v, seen)
      BY <1>5, <1>7 DEF StackInv, Serialised
    <3>2. ASSUME NEW n \in Founders, <<n, t>> \notin astray', n # m PROVE InStep(n, t, v, seen)'
      <4>1. InStep(n, t, v, seen) /\ n \in Players
        BY <1>0, <1>5, <3>1, <3>2
      <4>2. relayed'[n] = relayed[n] /\ stack'[n] = stack[n] /\ toServer' = toServer
        BY <1>1, <1>3, <1>5, <3>2, <4>1
      <4> QED
        BY <4>1, <4>2 DEF InStep
    <3>3. ASSUME m \in Founders, <<m, t>> \notin astray' PROVE InStep(m, t, v, seen)'
      <4>0. PICK d : d = Moves(x, t)
        OBVIOUS
      <4>1. InStep(m, t, v, seen)
        BY <1>5, <3>1, <3>3
      <4>2. PICK w \in Nat : /\ Path(toServer[m], t, v, w, m # k)
                             /\ Path(q, t, Count(stack[m][t]), w, m = k)
        BY <4>1 DEF InStep, q
      <4>3. d \in {-1, 0, 1}
        BY <1>2, <4>0, MovesByKind
      <4>4. /\ Count(stack[m][t]) \in Nat /\ Count(stack[m][t]) + d \in Nat
            /\ Path(Tail(q), t, Count(stack[m][t]) + d, w, m = k)
        <5>1. (m = k) \in BOOLEAN /\ Moves(Head(q), t) \in Int
          BY <4>0, <4>3 DEF x
        <5> QED
          BY <1>1, <4>0, <4>2, <5>1, PathHead DEF x
      <4>5. /\ Count(stack'[m][t]) = Count(stack[m][t]) + d
            /\ stack'[m][t] = None <=> stack[m][t] = None
            /\ d # 0 => stack[m][t] # None
        <5>1. CASE x.kind = "bag" /\ x.t = t
          <6>1. d = x.arg /\ x.arg \in {-1, 1}
            BY <1>2, <4>0, <5>1 DEF Moves, OtherMail
          <6>2. /\ stack[m][t] # None
                /\ stack' = [stack EXCEPT ![m][t] = IF x.arg > 0 THEN AddItem(@, x.arg)
                                                    ELSE RemoveItem(@, -x.arg)]
            BY <1>5, <3>3, <5>1
          <6>3. stack[m][t] \in Nat /\ Count(stack[m][t]) = stack[m][t]
            BY <1>0, <6>2 DEF Count
          <6>4. stack'[m][t] = IF x.arg > 0 THEN AddItem(stack[m][t], x.arg)
                               ELSE RemoveItem(stack[m][t], -x.arg)
            BY <1>0, <6>2
          <6>5. stack'[m][t] = stack[m][t] + d /\ stack'[m][t] \in Nat
            BY <4>4, <6>1, <6>3, <6>4 DEF AddItem, RemoveItem
          <6>6. None \notin Nat
            BY RelayAssumption
          <6> QED
            BY <6>2, <6>3, <6>5, <6>6 DEF Count
        <5>2. CASE ~(x.kind = "bag" /\ x.t = t)
          <6>1. d = 0
            BY <1>2, <4>0, <5>2 DEF OtherMail, Moves
          <6>2. stack'[m][t] = stack[m][t]
            BY <1>0, <1>5, <5>2
          <6> QED
            BY <4>4, <6>1, <6>2
        <5> QED
          BY <5>1, <5>2
      <4>6. toServer'[m] = toServer[m] /\ relayed'[m] = Tail(q)
        BY <1>1, <1>3
      <4>7. \E u \in Nat : /\ Path(toServer[m], t, v, u, m # k)'
                            /\ Path(relayed[m], t, Count(stack[m][t]), u, m = k)'
        BY <4>2, <4>4, <4>5, <4>6
      <4>8. Silent(q, t) <=> d = 0 /\ Silent(Tail(q), t)
        BY <1>4, <4>0
      <4>9. /\ stack[m][t] = None => Silent(toServer[m], t)
            /\ ~seen => Silent(q, t) /\ (stack[m][t] # None => ~Silent(toServer[m], t))
            /\ seen /\ stack[m][t] = None => ~Silent(q, t)
        BY <4>1 DEF InStep, q
      <4> QED
        BY <4>5, <4>6, <4>7, <4>8, <4>9 DEF InStep
    <3> QED
      BY <3>2, <3>3
  <2> QED
    BY <1>1, <1>5, <1>7, <2>1, ReportsUntouched DEF StackInv
<1> QED
  BY <1>6, <1>7

\* Nothing else that a client does touches an item.
LEMMA ClientKeepsStep ==
    ASSUME RelayTypes, StackInv, NEW m \in Players,
           TakeReliable(m) \/ ApplyRelation(m) \/ ClearServerSourced(m)
    PROVE  StackInv'
<1>1. /\ UNCHANGED <<topic, stack, toServer, present, relayed>> /\ astray \subseteq astray'
  <2>1. CASE TakeReliable(m)
    BY <2>1 DEF TakeReliable, store
  <2>2. CASE ApplyRelation(m) \/ ClearServerSourced(m)
    BY <2>2 DEF ApplyRelation, ClearServerSourced, store, wires, ghosts
  <2> QED
    BY <2>1, <2>2
<1>2. \A k \in Players, t \in Things : Grown(relayed[k], relayed'[k], t, 0)
  BY <1>1, GrownNot
<1> QED
  BY <1>1, <1>2, Unmoved

LEMMA StackStart ==
    ASSUME RsInit PROVE StackInv
<1>1. /\ \A m \in Players : toServer[m] = << >> /\ relayed[m] = << >>
      /\ Len(<< >>) = 0 /\ \A i \in 1 .. 0 : FALSE
      /\ Founders \subseteq Players /\ present = Founders
  BY RelayAssumption DEF RsInit
<1>2. \A t : Silent(<< >>, t)
  BY <1>1 DEF Silent
<1>3. PICK content \in {None, 1} : stack = [m \in Players |-> [t \in Things |-> content]]
  BY DEF RsInit
<1>4. ASSUME NEW t \in Things PROVE Serialised(t)
  <2> DEFINE v == Count(content)
             seen == content # None
  <2>1. v \in Nat /\ seen \in BOOLEAN
    BY DEF Count
  <2>2. ASSUME NEW m \in Founders PROVE InStep(m, t, v, seen)
    <3>1. stack[m][t] = content /\ toServer[m] = << >> /\ relayed[m] = << >>
      BY <1>1, <1>3
    <3>2. Path(<< >>, t, v, v, m # KeeperOf[t]) /\ Path(<< >>, t, v, v, m = KeeperOf[t])
      <4>1. (m # KeeperOf[t]) \in BOOLEAN /\ (m = KeeperOf[t]) \in BOOLEAN
        OBVIOUS
      <4> HIDE DEF v
      <4> QED
        BY <2>1, <4>1, PathNone
    <3> QED
      BY <1>2, <2>1, <3>1, <3>2 DEF InStep
  <2> HIDE DEF v, seen
  <2> QED
    BY <2>1, <2>2 DEF Serialised
<1>5. ReportsOfOwners
  BY <1>1 DEF ReportsOfOwners
<1>6. NothingMoves
  <2>1. \A m, n \in Players : stack[m] = stack[n]
    BY <1>3
  <2> QED
    BY <1>1, <1>2, <2>1 DEF NothingMoves
<1> QED
  BY <1>1, <1>4, <1>5, <1>6 DEF StackInv

LEMMA StackStep ==
    ASSUME RelayTypes, StackInv, [RsNext]_rsVars PROVE StackInv'
<1>1. CASE UNCHANGED rsVars
  <2>1. UNCHANGED <<topic, stack, toServer, present, relayed, astray>>
    BY <1>1 DEF rsVars, store, games, wires, ghosts
  <2>2. \A k \in Players, t \in Things : Grown(relayed[k], relayed'[k], t, 0)
    BY <2>1, GrownNot
  <2> QED
    BY <2>1, <2>2, Unmoved
<1>2. ASSUME NEW m \in Players, NEW t \in Things, NEW seller \in Things \cup {None}, Hook_BuyItem(m, t, seller)
      PROVE  StackInv'
  BY <1>2, PurchaseKeepsStep, TheirPurchaseKeepsStep
<1>3. ASSUME NEW m \in Players, ServerUpdate(m) PROVE StackInv'
  BY <1>3, TakenKeepsStep
<1>4. ASSUME NEW m \in Players, TakeRelayed(m) PROVE StackInv'
  BY <1>4, RelayedKeepsStep
<1>5. CASE RsNext
  BY <1>2, <1>3, <1>4, <1>5, HooksKeepStep, ServerKeepsStep, ClientKeepsStep DEF RsNext
<1> QED
  BY <1>1, <1>5

LEMMA PathEnds ==
    ASSUME NEW t, NEW s, NEW e, NEW up, Path(<< >>, t, s, e, up) PROVE s = e
<1>1. Len(<< >>) = 0
  OBVIOUS
<1> QED
  BY <1>1 DEF Path

\* When everything has arrived, no report and no message is left between two sizes.
LEMMA StacksFollow ==
    ASSUME RelayTypes, StackInv PROVE StacksAgree
<1> SUFFICES ASSUME Quiet, NEW t \in Things, NEW m \in present,
                    {<<m, t>>, <<KeeperOf[t], t>>} \cap astray = {}
             PROVE  stack[m][t] = stack[KeeperOf[t]][t]
  BY DEF StacksAgree
<1> DEFINE k == KeeperOf[t]
<1>1. m \in Players /\ k \in Founders /\ k \in Players
  BY RelayAssumption DEF RelayTypes, StoreTypes
<1>2. CASE topic # "items"
  BY <1>1, <1>2 DEF StackInv, NothingMoves
<1>3. CASE topic = "items"
  <2>1. m \in Founders /\ <<m, t>> \notin astray /\ <<k, t>> \notin astray
    BY <1>3 DEF StackInv
  <2>2. PICK v \in Nat, seen \in BOOLEAN : InStep(m, t, v, seen) /\ InStep(k, t, v, seen)
    BY <1>1, <1>3, <2>1 DEF StackInv, Serialised
  <2>3. \A u \in Players : toServer[u] = << >> /\ relayed[u] = << >>
    BY DEF Quiet
  <2>4. Silent(<< >>, t)
    <3>1. Len(<< >>) = 0 /\ \A i \in 1 .. 0 : FALSE
      OBVIOUS
    <3> QED
      BY <3>1 DEF Silent
  <2>5. ASSUME NEW u \in {m, k} PROVE Count(stack[u][t]) = v /\ (stack[u][t] = None <=> ~seen)
    <3>1. InStep(u, t, v, seen) /\ u \in Players
      BY <1>1, <2>2
    <3>2. PICK w \in Nat : /\ Path(<< >>, t, v, w, u # KeeperOf[t])
                           /\ Path(<< >>, t, Count(stack[u][t]), w, u = KeeperOf[t])
      BY <2>3, <3>1 DEF InStep
    <3>3. v = w /\ Count(stack[u][t]) = w
      BY <3>2, PathEnds
    <3> QED
      BY <2>3, <2>4, <3>1, <3>3 DEF InStep
  <2> QED
    BY <2>5 DEF Count
<1> QED
  BY <1>2, <1>3

\* Pickups, drops and transfers of several clients reach everybody once and nobody
\* twice, in the order in which the server takes them, which is the order of their
\* owner's game too: once everything has arrived, the copies that missed nothing hold
\* as much as the character itself (server.cpp:1561, :1597, :2012).
THEOREM ClientsAgreeOnStacks == RsSpec => []StacksAgree
<1> QED
  BY RelayStart, RelayStep, StackStart, StackStep, StacksFollow, PTL DEF RsSpec

-----------------------------------------------------------------------------
(* How bodies move: the ring of snapshots is a window on what was received. *)

\* Every set of numbers that is not empty has a least one.
LEMMA LeastExists ==
    ASSUME NEW T, T \subseteq Nat, T # {}
    PROVE  \E n \in T : \A k \in T : n <= k
<1> DEFINE F == {0 .. n : n \in T}
           R == StrictSubsetOrdering(Nat)
<1>1. F # {} /\ F \subseteq FiniteSubsetsOf(Nat)
  <2>1. ASSUME NEW n \in T PROVE (0 .. n) \in FiniteSubsetsOf(Nat)
    <3>1. n \in Int /\ 0 \in Int /\ 0 .. n \subseteq Nat
      OBVIOUS
    <3>2. IsFiniteSet(0 .. n)
      BY <3>1, FS_Interval
    <3> QED
      BY <3>1, <3>2 DEF FiniteSubsetsOf
  <2> QED
    BY <2>1
<1>2. IsWellFoundedOn(R, FiniteSubsetsOf(Nat))
  BY FS_StrictSubsetOrderingWellFounded
<1> HIDE DEF F, R
<1>3. PICK X \in F : \A Y \in F : ~(<<Y, X>> \in R)
  BY <1>1, <1>2, WFMin
<1>4. PICK n \in T : X = 0 .. n
  BY DEF F
<1>5. ASSUME NEW k \in T, k < n PROVE FALSE
  <2>1. (0 .. k) \in F
    BY DEF F
  <2>2. n \in 0 .. n /\ n \notin 0 .. k
    BY <1>5
  <2>3. 0 .. k \subseteq 0 .. n /\ 0 .. k # 0 .. n /\ 0 .. n \subseteq Nat
    BY <1>5, <2>2
  <2>4. <<0 .. k, X>> \in R
    BY <1>4, <2>3 DEF R, StrictSubsetOrdering
  <2> QED
    BY <1>3, <2>1, <2>4
<1> QED
  BY <1>5

\* A set that has 0, and of each other number up to n the next to one it has, has all.
LEMMA UpTo ==
    ASSUME NEW n \in Nat, NEW T, 0 \in T, \A i \in 1 .. n : i - 1 \in T => i \in T
    PROVE  \A i \in 0 .. n : i \in T
<1> DEFINE Left == {i \in 0 .. n : i \notin T}
<1>1. Left \subseteq Nat
  OBVIOUS
<1>2. ASSUME Left # {} PROVE FALSE
  <2>1. PICK i \in Left : \A k \in Left : i <= k
    <3> HIDE DEF Left
    <3> QED
      BY <1>1, <1>2, LeastExists
  <2>2. i \in 1 .. n /\ i - 1 \in 0 .. n /\ i \notin T
    BY <2>1
  <2>3. i - 1 \notin Left
    <3> HIDE DEF Left
    <3> QED
      BY <2>1, <2>2
  <2> QED
    BY <2>2, <2>3
<1> QED
  BY <1>2

Maps(n, M) == [1 .. n -> [M -> M]]

\* The values a chain of functions goes through.
Runs(f, n, M, first, G) ==
    f \in [0 .. n -> M] /\ f[0] = first /\ \A i \in 1 .. n : f[i] = G[i][f[i - 1]]

LEMMA Iterated ==
    ASSUME NEW n \in Nat, NEW M, NEW first \in M, NEW G \in Maps(n, M)
    PROVE  \E f : Runs(f, n, M, first, G)
<1> USE DEF Maps
<1> DEFINE Chain(f, k) == f[0] = first /\ \A i \in 1 .. k : f[i] = G[i][f[i - 1]]
           T == {k \in 0 .. n : \E f \in [0 .. k -> M] : Chain(f, k)}
<1>1. 0 \in T
  <2> DEFINE f == [i \in 0 .. 0 |-> first]
  <2>1. f \in [0 .. 0 -> M] /\ f[0] = first /\ \A i \in 1 .. 0 : FALSE
    OBVIOUS
  <2>2. Chain(f, 0) /\ 0 \in 0 .. n
    BY <2>1
  <2> QED
    BY <2>1, <2>2
<1>2. ASSUME NEW k \in 1 .. n, k - 1 \in T PROVE k \in T
  <2>1. PICK f \in [0 .. k - 1 -> M] : Chain(f, k - 1)
    BY <1>2
  <2> DEFINE g == [i \in 0 .. k |-> IF i = k THEN G[k][f[k - 1]] ELSE f[i]]
  <2>2. k \in Nat /\ k - 1 \in 0 .. k - 1 /\ f[k - 1] \in M /\ G[k] \in [M -> M]
    BY <1>2
  <2>3. G[k][f[k - 1]] \in M
    BY <2>2
  <2>4. \A i \in 0 .. k : i = k \/ i \in 0 .. k - 1
    BY <2>2
  <2>5. g \in [0 .. k -> M]
    BY <2>1, <2>3, <2>4
  <2>6. /\ g[k] = G[k][f[k - 1]]
        /\ \A i \in 0 .. k - 1 : g[i] = f[i]
    BY <1>2
  <2> HIDE DEF g
  <2>7. g[0] = first
    <3>1. 0 \in 0 .. k - 1
      BY <1>2
    <3> QED
      BY <2>1, <2>6, <3>1
  <2>8. ASSUME NEW i \in 1 .. k PROVE g[i] = G[i][g[i - 1]]
    <3>1. CASE i = k
      BY <2>2, <2>6, <3>1
    <3>2. CASE i # k
      <4>1. i \in 1 .. k - 1 /\ i \in 0 .. k - 1 /\ i - 1 \in 0 .. k - 1
        BY <2>2, <3>2
      <4> QED
        BY <2>1, <2>6, <4>1
    <3> QED
      BY <3>1, <3>2
  <2>9. Chain(g, k) /\ k \in 0 .. n
    BY <1>2, <2>7, <2>8
  <2> HIDE DEF Chain
  <2> QED
    BY <2>5, <2>9
<1> HIDE DEF T
<1>3. n \in T
  <2>1. n \in 0 .. n
    OBVIOUS
  <2> QED
    BY <1>1, <1>2, <2>1, UpTo
<1> QED
  BY <1>3 DEF T, Runs

Updates == [at : 0 .. Horizon, pos : Int]

Snapshots == [at : 0 .. Horizon, pos : Int, vel : Int]

Rings == [buffer : [Slots -> Snapshots], head : Slots, count : 0 .. RingSize, delay : Delays,
          timed : BOOLEAN, err : -SnapMax .. SnapMax, timer : 0 .. SnapTime]

\* How fast the body came to where snapshot i of h says it is.
Heading(h, i) ==
    IF i = 1 \/ h[i].at <= h[i - 1].at THEN 0 ELSE (h[i].pos - h[i - 1].pos) \div (h[i].at - h[i - 1].at)

\* Snapshot g of the ring is the one that came as number i of h.
IsCopy(g, h, i) == g.at = h[i].at /\ g.pos = h[i].pos /\ g.vel \in {0, Heading(h, i)}

\* The ring has the last RingSize of the snapshots h, the newest first.
Mirrors(m, h) ==
    /\ Len(h) <= RingSize + 1
    /\ m.count = IF Len(h) < RingSize THEN Len(h) ELSE RingSize
    /\ \A a \in 0 .. m.count - 1 : IsCopy(GetByAge(m, a), h, Len(h) - a)

LEMMA MotionNumbers ==
    /\ RingSize \in Nat /\ RingSize > 0 /\ Delays \subseteq Nat /\ FirstDelay \in Delays
    /\ {ExtrapMax, VelocityMax, SnapMin, SnapMax, PendingAge, MailEnd, MailBound, Horizon} \subseteq Nat
    /\ SnapTime \in Nat /\ SnapTime > 0 /\ FrameTimes \subseteq Nat /\ Spots \subseteq Int
BY MotionAssumption

\* The slot of age a, when slot h is to be written next.
LEMMA SlotOfAge ==
    ASSUME NEW h \in Slots, NEW a \in 0 .. RingSize - 1
    PROVE  /\ (h - 1 - a + 2 * RingSize) % RingSize = IF a < h THEN h - 1 - a ELSE h - 1 - a + RingSize
           /\ (h - 1 - a + 2 * RingSize) % RingSize \in Slots
<1>1. RingSize \in Nat /\ RingSize > 0
  BY MotionNumbers
<1>2. ASSUME NEW x \in 0 .. RingSize - 1 PROVE (x + RingSize) % RingSize = x /\ (x + 2 * RingSize) % RingSize = x
  BY <1>1
<1>3. CASE a < h
  <2>1. h - 1 - a \in 0 .. RingSize - 1
    BY <1>1, <1>3 DEF Slots
  <2> QED
    BY <1>2, <1>3, <2>1 DEF Slots
<1>4. CASE ~(a < h)
  <2>1. h - 1 - a + RingSize \in 0 .. RingSize - 1 /\ h - 1 - a + 2 * RingSize = (h - 1 - a + RingSize) + RingSize
    BY <1>1, <1>4 DEF Slots
  <2> QED
    BY <1>2, <1>4, <2>1 DEF Slots
<1> QED
  BY <1>3, <1>4

\* A new snapshot becomes the newest, and all others one older.
LEMMA Pushed ==
    ASSUME NEW m \in Rings, NEW s \in Snapshots
    PROVE  LET r == PushSnapshot(m, s) IN
           /\ r \in Rings /\ GetByAge(r, 0) = s
           /\ \A a \in 1 .. RingSize - 1 : GetByAge(r, a) = GetByAge(m, a - 1)
           /\ r.count = IF m.count < RingSize THEN m.count + 1 ELSE m.count
           /\ r.timed = m.timed
<1> DEFINE r == PushSnapshot(m, s)
           R == RingSize
<1>1. R \in Nat /\ R > 0 /\ m.head \in 0 .. R - 1 /\ m.head \in Slots /\ m.buffer \in [Slots -> Snapshots]
      /\ m.count \in 0 .. R
  BY MotionNumbers DEF Rings, Slots
<1>2. (m.head + 1) % R = IF m.head = R - 1 THEN 0 ELSE m.head + 1
  BY <1>1
<1>3. (m.head + 1) % R \in Slots
  BY <1>1, <1>2 DEF Slots
<1> DEFINE head2   == (m.head + 1) % R
           buffer2 == [m.buffer EXCEPT ![m.head] = s]
           count2  == IF m.count < R THEN m.count + 1 ELSE m.count
<1>9. r = [m EXCEPT !.buffer = buffer2, !.head = head2, !.count = count2]
  <2>1. /\ m = [buffer |-> m.buffer, head |-> m.head, count |-> m.count, delay |-> m.delay,
                timed |-> m.timed, err |-> m.err, timer |-> m.timer]
    BY DEF Rings
  <2> QED
    BY <2>1 DEF PushSnapshot
<1>4. /\ r.head = (m.head + 1) % R /\ r.buffer = [m.buffer EXCEPT ![m.head] = s]
      /\ r.count = (IF m.count < R THEN m.count + 1 ELSE m.count)
      /\ r.delay = m.delay /\ r.timed = m.timed /\ r.err = m.err /\ r.timer = m.timer
      /\ r = [buffer |-> r.buffer, head |-> r.head, count |-> r.count, delay |-> r.delay,
              timed |-> r.timed, err |-> r.err, timer |-> r.timer]
  <2>1. m = [buffer |-> m.buffer, head |-> m.head, count |-> m.count, delay |-> m.delay,
             timed |-> m.timed, err |-> m.err, timer |-> m.timer]
    BY DEF Rings
  <2> HIDE DEF r, head2, buffer2, count2
  <2>2. /\ r.head = head2 /\ r.buffer = buffer2 /\ r.count = count2
        /\ r.delay = m.delay /\ r.timed = m.timed /\ r.err = m.err /\ r.timer = m.timer
        /\ r = [buffer |-> r.buffer, head |-> r.head, count |-> r.count, delay |-> r.delay,
              timed |-> r.timed, err |-> r.err, timer |-> r.timer]
    BY <1>9, <2>1
  <2> QED
    BY <2>2 DEF head2, buffer2, count2
<1>5. r \in Rings
  <2>1. r.count \in 0 .. R /\ r.head \in Slots /\ r.buffer \in [Slots -> Snapshots]
    BY <1>1, <1>3, <1>4
  <2>2. r.delay \in Delays /\ r.timed \in BOOLEAN /\ r.err \in -SnapMax .. SnapMax /\ r.timer \in 0 .. SnapTime
    BY <1>4 DEF Rings
  <2> HIDE DEF r
  <2> QED
    BY <1>4, <2>1, <2>2 DEF Rings
<1> HIDE DEF r
<1>6. GetByAge(r, 0) = s
  <2>1. (r.head - 1 - 0 + 2 * R) % R = IF 0 < r.head THEN r.head - 1 - 0 ELSE r.head - 1 - 0 + R
    BY <1>1, <1>3, <1>4, SlotOfAge
  <2>2. (r.head - 1 - 0 + 2 * R) % R = m.head
    BY <1>1, <1>2, <1>4, <2>1
  <2> QED
    BY <1>1, <1>4, <2>2 DEF GetByAge
<1>7. ASSUME NEW a \in 1 .. R - 1 PROVE GetByAge(r, a) = GetByAge(m, a - 1)
  <2>1. a \in 0 .. R - 1 /\ a - 1 \in 0 .. R - 1
    BY <1>1
  <2> DEFINE i == (r.head - 1 - a + 2 * R) % R
             j == (m.head - 1 - (a - 1) + 2 * R) % R
  <2>2. i = IF a < r.head THEN r.head - 1 - a ELSE r.head - 1 - a + R
    BY <1>3, <1>4, <2>1, SlotOfAge
  <2>3. j = (IF a - 1 < m.head THEN m.head - 1 - (a - 1) ELSE m.head - 1 - (a - 1) + R) /\ j \in Slots
    BY <1>1, <2>1, SlotOfAge
  <2>4. GetByAge(r, a) = r.buffer[i] /\ GetByAge(m, a - 1) = m.buffer[j]
    BY DEF GetByAge
  <2> HIDE DEF i, j
  <2>5. i = j /\ j # m.head
    BY <1>1, <1>2, <1>4, <2>1, <2>2, <2>3
  <2> QED
    BY <1>1, <1>4, <2>3, <2>4, <2>5
<1> QED
  BY <1>4, <1>5, <1>6, <1>7 DEF r

LEMMA InRing ==
    ASSUME NEW m \in Rings, NEW a \in 0 .. RingSize - 1 PROVE GetByAge(m, a) \in Snapshots
<1>1. m.head \in Slots /\ m.buffer \in [Slots -> Snapshots]
  BY DEF Rings
<1> QED
  BY <1>1, SlotOfAge DEF GetByAge

LEMMA RingIsRecord ==
    ASSUME NEW m \in Rings
    PROVE  m = [buffer |-> m.buffer, head |-> m.head, count |-> m.count, delay |-> m.delay,
                timed |-> m.timed, err |-> m.err, timer |-> m.timer]
BY DEF Rings

\* The blend of a jump is never longer than a teleport, and moves no snapshot.
LEMMA SnapTypes ==
    ASSUME NEW m \in Rings, NEW prev \in Snapshots, NEW t \in Int, NEW p \in Int
    PROVE  LET r == SnapAfter(m, prev, t, p) IN
           r \in Rings /\ r.buffer = m.buffer /\ r.head = m.head /\ r.count = m.count /\ r.timed = m.timed
<1> DEFINE r == SnapAfter(m, prev, t, p)
           err == p - (prev.pos + prev.vel * (t - prev.at))
<1>0. SnapMax \in Nat /\ SnapTime \in Nat
  BY MotionNumbers
<1>1. err \in Int
  <2>1. prev.pos \in Int /\ prev.vel \in Int /\ t - prev.at \in Int
    BY DEF Snapshots
  <2>2. prev.vel * (t - prev.at) \in Int
    BY <2>1
  <2> QED
    BY <2>1, <2>2
<1> HIDE DEF err
<1>2. r = IF Abs(err) > SnapMax THEN [m EXCEPT !.timer = 0, !.err = 0]
          ELSE IF Abs(err) > SnapMin THEN [m EXCEPT !.err = err, !.timer = SnapTime] ELSE m
  BY DEF SnapAfter, err
<1>3. PICK e, c : /\ r = [m EXCEPT !.err = e, !.timer = c] \/ r = m
                  /\ e \in -SnapMax .. SnapMax /\ c \in 0 .. SnapTime
  <2>1. CASE Abs(err) > SnapMax
    <3>1. [m EXCEPT !.timer = 0, !.err = 0] = [m EXCEPT !.err = 0, !.timer = 0]
      BY RingIsRecord
    <3>2. r = [m EXCEPT !.err = 0, !.timer = 0] /\ 0 \in -SnapMax .. SnapMax /\ 0 \in 0 .. SnapTime
      BY <1>0, <1>2, <2>1, <3>1
    <3> HIDE DEF r
    <3> QED
      BY <3>2
  <2>2. CASE ~(Abs(err) > SnapMax) /\ Abs(err) > SnapMin
    <3>1. r = [m EXCEPT !.err = err, !.timer = SnapTime]
      BY <1>2, <2>2
    <3>2. err \in -SnapMax .. SnapMax /\ SnapTime \in 0 .. SnapTime
      BY <1>0, <1>1, <2>2 DEF Abs
    <3> HIDE DEF r
    <3> QED
      BY <3>1, <3>2
  <2>3. CASE ~(Abs(err) > SnapMax) /\ ~(Abs(err) > SnapMin)
    <3>1. r = m /\ 0 \in -SnapMax .. SnapMax /\ 0 \in 0 .. SnapTime
      BY <1>0, <1>2, <2>3
    <3> HIDE DEF r
    <3> QED
      BY <3>1
  <2> QED
    BY <2>1, <2>2, <2>3
<1> HIDE DEF r
<1>4. ASSUME r = [m EXCEPT !.err = e, !.timer = c]
      PROVE  r \in Rings /\ r.buffer = m.buffer /\ r.head = m.head /\ r.count = m.count /\ r.timed = m.timed
  <2>0. m = [buffer |-> m.buffer, head |-> m.head, count |-> m.count, delay |-> m.delay,
             timed |-> m.timed, err |-> m.err, timer |-> m.timer]
    BY RingIsRecord
  <2>1. r = [buffer |-> m.buffer, head |-> m.head, count |-> m.count, delay |-> m.delay,
             timed |-> m.timed, err |-> e, timer |-> c]
    BY <1>4, <2>0
  <2>2. /\ m.buffer \in [Slots -> Snapshots] /\ m.head \in Slots /\ m.count \in 0 .. RingSize
        /\ m.delay \in Delays /\ m.timed \in BOOLEAN
    BY DEF Rings
  <2> QED
    BY <1>3, <2>1, <2>2 DEF Rings
<1> QED
  BY <1>3, <1>4 DEF r

LEMMA AddedOne ==
    ASSUME NEW m \in Rings, NEW h \in Seq(Updates), Mirrors(m, h), NEW u \in Updates, NEW d \in Delays
    PROVE  LET r == AddSnapshot(m, u.at, u.pos, d)
               g == [at |-> u.at, pos |-> u.pos,
                     vel |-> IF m.count > 0 THEN VelocityTo(GetByAge(m, 0), u.at, u.pos) ELSE 0]
           IN /\ r \in Rings /\ GetByAge(r, 0) = g /\ g \in Snapshots
              /\ \A a \in 1 .. RingSize - 1 : GetByAge(r, a) = GetByAge(m, a - 1)
              /\ r.count = IF m.count < RingSize THEN m.count + 1 ELSE m.count
<1> DEFINE prev == GetByAge(m, 0)
           snap == IF m.count > 0 THEN SnapAfter(m, prev, u.at, u.pos) ELSE m
           vel  == IF m.count > 0 THEN VelocityTo(prev, u.at, u.pos) ELSE 0
           g    == [at |-> u.at, pos |-> u.pos, vel |-> vel]
           r    == AddSnapshot(m, u.at, u.pos, d)
           pushed == PushSnapshot(snap, g)
<1>1. RingSize \in Nat /\ RingSize > 0 /\ u.at \in 0 .. Horizon /\ Horizon \in Nat /\ u.at \in Int /\ u.pos \in Int
  BY MotionNumbers DEF Updates
<1>2. prev \in Snapshots
  <2>1. 0 \in 0 .. RingSize - 1
    BY <1>1
  <2> QED
    BY <2>1, InRing
<1> HIDE DEF prev
<1>3. /\ snap \in Rings /\ snap.buffer = m.buffer /\ snap.head = m.head /\ snap.count = m.count
  BY <1>1, <1>2, SnapTypes
<1>4. vel \in Int
  <2>1. prev.at \in Int /\ prev.pos \in Int
    BY <1>1, <1>2 DEF Snapshots
  <2>2. \A n \in Int, k \in Int : k > 0 => n \div k \in Int
    OBVIOUS
  <2>3. VelocityTo(prev, u.at, u.pos) \in Int
    BY <1>1, <2>1, <2>2 DEF VelocityTo
  <2> QED
    BY <2>3
<1>5. g \in Snapshots
  <2> HIDE DEF vel
  <2> QED
    BY <1>1, <1>4 DEF Snapshots
<1>6. r = [pushed EXCEPT !.delay = IF snap.timed THEN d ELSE @, !.timed = TRUE]
  <2>1. snap.timed = m.timed
    BY <1>1, <1>2, SnapTypes
  <2> QED
    BY <2>1 DEF AddSnapshot, prev
<1> HIDE DEF snap, g
<1>7. /\ pushed \in Rings /\ GetByAge(pushed, 0) = g
      /\ \A a \in 1 .. RingSize - 1 : GetByAge(pushed, a) = GetByAge(snap, a - 1)
      /\ pushed.count = IF snap.count < RingSize THEN snap.count + 1 ELSE snap.count
  BY <1>3, <1>5, Pushed
<1> HIDE DEF pushed, r
<1>8. r \in Rings /\ r.buffer = pushed.buffer /\ r.head = pushed.head /\ r.count = pushed.count
  <2>1. PICK delay2 \in Delays : r = [pushed EXCEPT !.delay = delay2, !.timed = TRUE]
    <3>1. pushed.delay \in Delays
      BY <1>7 DEF Rings
    <3> QED
      BY <1>6, <3>1
  <2>0. pushed = [buffer |-> pushed.buffer, head |-> pushed.head, count |-> pushed.count,
                  delay |-> pushed.delay, timed |-> pushed.timed, err |-> pushed.err, timer |-> pushed.timer]
    BY <1>7, RingIsRecord
  <2>2. r = [buffer |-> pushed.buffer, head |-> pushed.head, count |-> pushed.count, delay |-> delay2,
             timed |-> TRUE, err |-> pushed.err, timer |-> pushed.timer]
    BY <2>0, <2>1
  <2> QED
    BY <1>7, <2>2 DEF Rings
<1>9. \A a : GetByAge(r, a) = GetByAge(pushed, a) /\ GetByAge(snap, a) = GetByAge(m, a)
  BY <1>3, <1>8 DEF GetByAge
<1> QED
  BY <1>3, <1>5, <1>7, <1>8, <1>9 DEF r, g, prev

LEMMA SameCopy ==
    ASSUME NEW g, NEW h, NEW i, NEW k, NEW j, IsCopy(g, h, i), k[j] = h[i],
           j = 1 <=> i = 1, j # 1 => k[j - 1] = h[i - 1]
    PROVE  IsCopy(g, k, j)
BY DEF IsCopy, Heading

\* A snapshot is added to the ring as it is to the list.
LEMMA Mirrored ==
    ASSUME NEW m \in Rings, NEW h \in Seq(Updates), Mirrors(m, h), NEW u \in Updates, NEW d \in Delays
    PROVE  /\ AddSnapshot(m, u.at, u.pos, d) \in Rings /\ Heard(h, u) \in Seq(Updates)
           /\ Mirrors(AddSnapshot(m, u.at, u.pos, d), Heard(h, u))
<1> DEFINE r == AddSnapshot(m, u.at, u.pos, d)
           g == [at |-> u.at, pos |-> u.pos,
                 vel |-> IF m.count > 0 THEN VelocityTo(GetByAge(m, 0), u.at, u.pos) ELSE 0]
           all == Append(h, u)
           n == Len(h)
           R == RingSize
<1>0. R \in Nat /\ R > 0 /\ m.count \in 0 .. R
  BY MotionNumbers DEF Rings
<1>1. /\ r \in Rings /\ GetByAge(r, 0) = g
      /\ \A a \in 1 .. R - 1 : GetByAge(r, a) = GetByAge(m, a - 1)
      /\ r.count = IF m.count < R THEN m.count + 1 ELSE m.count
  BY AddedOne
<1>2. /\ n \in Nat /\ n <= R + 1 /\ m.count = IF n < R THEN n ELSE R
      /\ \A a \in 0 .. m.count - 1 : IsCopy(GetByAge(m, a), h, n - a)
  BY DEF Mirrors
<1>3. /\ all \in Seq(Updates) /\ Len(all) = n + 1 /\ all[n + 1] = u
      /\ \A i \in 1 .. n : all[i] = h[i]
  OBVIOUS
<1> HIDE DEF r, all, n
<1>4. IsCopy(g, all, n + 1)
  <2>1. g.at = all[n + 1].at /\ g.pos = all[n + 1].pos
    BY <1>3
  <2>2. CASE n = 0
    <3>1. g.vel = 0
      BY <1>0, <1>2, <2>2
    <3> QED
      BY <2>1, <3>1 DEF IsCopy
  <2>3. CASE n # 0
    <3> DEFINE prev == GetByAge(m, 0)
    <3>1. m.count > 0 /\ 0 \in 0 .. m.count - 1 /\ n \in 1 .. n /\ n - 0 = n
      BY <1>0, <1>2, <2>3
    <3>2. prev.at = all[n].at /\ prev.pos = all[n].pos
      BY <1>2, <1>3, <3>1 DEF IsCopy
    <3>3. g.vel = VelocityTo(prev, u.at, u.pos)
      BY <3>1
    <3> HIDE DEF g, prev
    <3>4. PICK i : i = n + 1
      OBVIOUS
    <3>5. i # 1 /\ i - 1 = n /\ all[i] = u /\ u.at \in Int /\ prev.at \in Int
      <4>1. all[n] \in Updates
        BY <1>2, <1>3, <2>3
      <4>2. Horizon \in Nat
        BY MotionNumbers
      <4>3. u.at \in Int /\ prev.at \in Int
        BY <3>2, <4>1, <4>2 DEF Updates
      <4> QED
        BY <1>2, <1>3, <2>3, <3>4, <4>3
    <3>7. Heading(all, i) = IF u.at <= prev.at THEN 0 ELSE (u.pos - prev.pos) \div (u.at - prev.at)
      BY <3>2, <3>5 DEF Heading
    <3>6. g.vel \in {0, Heading(all, n + 1)}
      BY <3>3, <3>4, <3>5, <3>7 DEF VelocityTo
    <3> QED
      BY <2>1, <3>6 DEF IsCopy, g
  <2> QED
    BY <2>2, <2>3
<1>5. ASSUME NEW a \in 0 .. r.count - 1 PROVE IsCopy(GetByAge(r, a), all, n + 1 - a)
  <2>1. CASE a = 0
    <3>1. n + 1 - 0 = n + 1
      BY <1>2
    <3> QED
      BY <1>1, <1>4, <2>1, <3>1
  <2>2. CASE a # 0
    <3>1. a \in 1 .. R - 1 /\ a - 1 \in 0 .. m.count - 1
      BY <1>0, <1>1, <2>2
    <3>2. n - (a - 1) = n + 1 - a /\ n + 1 - a \in 1 .. n
          /\ (n + 1 - a # 1 => n + 1 - a - 1 \in 1 .. n)
      BY <1>0, <1>2, <3>1
    <3>3. IsCopy(GetByAge(r, a), h, n + 1 - a)
      BY <1>1, <1>2, <3>1, <3>2
    <3>4. PICK i : i = n + 1 - a
      OBVIOUS
    <3>5. all[i] = h[i] /\ (i # 1 => all[i - 1] = h[i - 1])
      <4>1. i \in 1 .. n /\ (i # 1 => i - 1 \in 1 .. n)
        BY <1>0, <1>2, <3>1, <3>4
      <4>2. \A k \in 1 .. n : all[k] = h[k]
        BY <1>3
      <4> QED
        BY <4>1, <4>2
    <3>7. IsCopy(GetByAge(r, a), h, i)
      BY <3>3, <3>4
    <3>6. IsCopy(GetByAge(r, a), all, i)
      BY <3>5, <3>7, SameCopy
    <3> QED
      BY <3>4, <3>6
  <2> QED
    BY <2>1, <2>2
<1>6. CASE ~(n + 1 > R + 1)
  <2>1. Heard(h, u) = all
    BY <1>3, <1>6 DEF Heard, all
  <2>2. r.count = IF n + 1 < R THEN n + 1 ELSE R
    BY <1>0, <1>1, <1>2, <1>6
  <2>3. n + 1 <= R + 1
    BY <1>0, <1>2, <1>6
  <2>4. Mirrors(r, all)
    <3>1. ASSUME NEW a \in 0 .. r.count - 1 PROVE IsCopy(GetByAge(r, a), all, Len(all) - a)
      <4>0. Len(all) = n + 1 /\ n \in Nat
        BY <1>2, <1>3
      <4>1. Len(all) - a = n + 1 - a
        BY <4>0
      <4> QED
        BY <1>5, <4>1
    <3>2. Len(all) <= R + 1 /\ r.count = IF Len(all) < R THEN Len(all) ELSE R
      BY <1>3, <2>2, <2>3
    <3> QED
      BY <3>1, <3>2 DEF Mirrors
  <2> QED
    BY <1>1, <1>3, <2>1, <2>4 DEF r
<1>7. CASE n + 1 > R + 1
  <2> DEFINE rest == Tail(all)
  <2>1. Heard(h, u) = rest
    BY <1>3, <1>7 DEF Heard, all
  <2>2. n = R + 1 /\ m.count = R /\ r.count = R
    BY <1>0, <1>1, <1>2, <1>7
  <2>3. rest \in Seq(Updates) /\ Len(rest) = n /\ \A i \in 1 .. n : rest[i] = all[i + 1]
    BY <1>2, <1>3
  <2> HIDE DEF rest
  <2>4. ASSUME NEW a \in 0 .. r.count - 1 PROVE IsCopy(GetByAge(r, a), rest, n - a)
    <3>1. /\ n - a \in 1 .. n /\ n - a - 1 \in 1 .. n /\ n - a + 1 = n + 1 - a
          /\ n - a - 1 + 1 = n + 1 - a - 1 /\ n - a # 1 /\ n + 1 - a # 1
      BY <1>0, <2>2
    <3>2. /\ rest[n - a] = all[n + 1 - a] /\ rest[n - a - 1] = all[n + 1 - a - 1]
          /\ IsCopy(GetByAge(r, a), all, n + 1 - a)
      BY <1>5, <2>3, <3>1
    <3> QED
      BY <3>1, <3>2, SameCopy
  <2>5. Len(rest) <= R + 1 /\ r.count = IF Len(rest) < R THEN Len(rest) ELSE R
    BY <1>0, <2>2, <2>3
  <2>6. Mirrors(r, rest)
    BY <2>3, <2>4, <2>5 DEF Mirrors
  <2> QED
    BY <1>1, <2>1, <2>3, <2>6 DEF r
<1> QED
  BY <1>6, <1>7

\* A flush adds all the snapshots that waited.
LEMMA AllMirrored ==
    ASSUME NEW m \in Rings, NEW h \in Seq(Updates), Mirrors(m, h), NEW q \in Seq(Updates), NEW d \in Delays
    PROVE  /\ Flushed(m, q, d) \in Rings /\ HeardAll(h, q) \in Seq(Updates)
           /\ Mirrors(Flushed(m, q, d), HeardAll(h, q))
<1> DEFINE M == {x \in Rings \X Seq(Updates) : Mirrors(x[1], x[2])}
           n == Len(q)
           Both(x, i) == <<AddSnapshot(x[1], q[i].at, q[i].pos, d), Heard(x[2], q[i])>>
           G == [i \in 1 .. n |-> [x \in M |-> Both(x, i)]]
<1>1. n \in Nat /\ \A i \in 1 .. n : q[i] \in Updates
  OBVIOUS
<1> HIDE DEF n
<1>2. ASSUME NEW i \in 1 .. n, NEW x \in M PROVE Both(x, i) \in M
  <2>1. q[i] \in Updates /\ x[1] \in Rings /\ x[2] \in Seq(Updates) /\ Mirrors(x[1], x[2])
    BY <1>1
  <2>2. /\ AddSnapshot(x[1], q[i].at, q[i].pos, d) \in Rings /\ Heard(x[2], q[i]) \in Seq(Updates)
        /\ Mirrors(AddSnapshot(x[1], q[i].at, q[i].pos, d), Heard(x[2], q[i]))
    BY <2>1, Mirrored
  <2> QED
    BY <2>2
<1>3. <<m, h>> \in M
  OBVIOUS
<1> HIDE DEF M, Both
<1>4. G \in Maps(n, M)
  BY <1>2 DEF Maps
<1>5. PICK f \in [0 .. n -> M] : f[0] = <<m, h>> /\ \A i \in 1 .. n : f[i] = G[i][f[i - 1]]
  <2> DEFINE first == <<m, h>>
  <2>1. first \in M
    BY <1>3
  <2> HIDE DEF G, first
  <2>2. PICK f : Runs(f, n, M, first, G)
    BY <1>1, <1>4, <2>1, Iterated
  <2> QED
    BY <2>2 DEF first, Runs
<1>6. ASSUME NEW i \in 1 .. n PROVE f[i] = Both(f[i - 1], i)
  <2>1. i - 1 \in 0 .. n
    BY <1>1
  <2> QED
    BY <1>5, <2>1
<1> HIDE DEF G
<1> DEFINE Motions(c) == c = [i \in 0 .. n |-> IF i = 0 THEN m ELSE AddSnapshot(c[i - 1], q[i].at, q[i].pos, d)]
           Heards(c) == c = [i \in 0 .. n |-> IF i = 0 THEN h ELSE Heard(c[i - 1], q[i])]
           motions == CHOOSE c : Motions(c)
           heards  == CHOOSE c : Heards(c)
<1>7. ASSUME NEW i \in 0 .. n, i # 0
      PROVE  /\ i \in 1 .. n /\ i - 1 \in 0 .. n
             /\ f[i][1] = AddSnapshot(f[i - 1][1], q[i].at, q[i].pos, d)
             /\ f[i][2] = Heard(f[i - 1][2], q[i])
  <2>1. i \in 1 .. n /\ i - 1 \in 0 .. n
    BY <1>1, <1>7
  <2> QED
    BY <1>6, <2>1 DEF Both
<1>8. Motions(motions)
  <2> DEFINE c == [i \in 0 .. n |-> f[i][1]]
  <2>1. \A i \in 0 .. n : c[i] = IF i = 0 THEN m ELSE AddSnapshot(c[i - 1], q[i].at, q[i].pos, d)
    BY <1>5, <1>7
  <2>2. Motions(c)
    BY <2>1
  <2> HIDE DEF c, Motions
  <2> QED
    BY <2>2
<1>9. Heards(heards)
  <2> DEFINE c == [i \in 0 .. n |-> f[i][2]]
  <2>1. \A i \in 0 .. n : c[i] = IF i = 0 THEN h ELSE Heard(c[i - 1], q[i])
    BY <1>5, <1>7
  <2>2. Heards(c)
    BY <2>1
  <2> HIDE DEF c, Heards
  <2> QED
    BY <2>2
<1>10. Flushed(m, q, d) = motions[n] /\ HeardAll(h, q) = heards[n]
  BY DEF Flushed, HeardAll, n
<1> HIDE DEF motions, heards
<1> DEFINE T == {i \in 0 .. n : motions[i] = f[i][1] /\ heards[i] = f[i][2]}
<1>11. \A i \in 0 .. n : i \in T
  <2>1. 0 \in T
    BY <1>1, <1>5, <1>8, <1>9
  <2>2. ASSUME NEW i \in 1 .. n, i - 1 \in T PROVE i \in T
    <3>1. /\ motions[i - 1] = f[i - 1][1] /\ heards[i - 1] = f[i - 1][2]
          /\ i \in 0 .. n /\ i # 0
      BY <1>1, <2>2
    <3>2. /\ motions[i] = AddSnapshot(motions[i - 1], q[i].at, q[i].pos, d)
          /\ heards[i] = Heard(heards[i - 1], q[i])
      BY <1>8, <1>9, <3>1
    <3> QED
      BY <1>7, <3>1, <3>2
  <2> HIDE DEF T
  <2> QED
    BY <1>1, <2>1, <2>2, UpTo
<1>12. n \in 0 .. n /\ f[n] \in M
  BY <1>1, <1>5
<1> QED
  BY <1>10, <1>11, <1>12 DEF M

LEMMA LastExists ==
    ASSUME NEW h \in Seq(Updates), NEW I, I \subseteq 1 .. Len(h), I # {}
    PROVE  /\ LastOf(h, I) \in I
           /\ \A j \in I : h[j].at < h[LastOf(h, I)].at \/ (h[j].at = h[LastOf(h, I)].at /\ j <= LastOf(h, I))
<1>1. Horizon \in Nat /\ Len(h) \in Nat
  BY MotionNumbers
<1>2. ASSUME NEW i \in I PROVE i \in 1 .. Len(h) /\ h[i].at \in 0 .. Horizon
  <2>1. h[i] \in Updates
    OBVIOUS
  <2> QED
    BY <2>1 DEF Updates
<1> DEFINE Ats == {Horizon - h[i].at : i \in I}
<1>3. PICK s \in Ats : \A k \in Ats : s <= k
  <2>0. PICK i \in I : TRUE
    OBVIOUS
  <2>1. Ats \subseteq Nat /\ Ats # {}
    <3>1. ASSUME NEW k \in I PROVE Horizon - h[k].at \in Nat
      BY <1>1, <1>2
    <3>2. Horizon - h[i].at \in Ats
      BY <2>0
    <3> QED
      BY <3>1, <3>2
  <2> HIDE DEF Ats
  <2> QED
    BY <2>1, LeastExists
<1>4. PICK i \in I : s = Horizon - h[i].at
  OBVIOUS
<1>5. ASSUME NEW j \in I PROVE h[j].at <= h[i].at
  <2>1. Horizon - h[i].at <= Horizon - h[j].at
    BY <1>3, <1>4
  <2> QED
    BY <1>1, <1>2, <2>1
<1> HIDE DEF Ats
<1> DEFINE Same == {j \in I : h[j].at = h[i].at}
           Backs == {Len(h) - j : j \in Same}
<1>6. PICK b \in Backs : \A k \in Backs : b <= k
  <2>1. Backs \subseteq Nat /\ Backs # {}
    BY <1>1, <1>2
  <2> HIDE DEF Backs
  <2> QED
    BY <2>1, LeastExists
<1>7. PICK l \in Same : b = Len(h) - l
  OBVIOUS
<1>8. \A j \in I : h[j].at < h[l].at \/ (h[j].at = h[l].at /\ j <= l)
  <2> SUFFICES ASSUME NEW j \in I PROVE h[j].at < h[l].at \/ (h[j].at = h[l].at /\ j <= l)
    OBVIOUS
  <2>1. CASE j \in Same
    <3>1. Len(h) - l <= Len(h) - j
      BY <1>6, <1>7, <2>1
    <3> QED
      BY <1>1, <1>2, <2>1, <3>1
  <2>2. CASE j \notin Same
    BY <1>2, <1>5, <2>2
  <2> QED
    BY <2>1, <2>2
<1> QED
  BY <1>8 DEF LastOf

LEMMA FirstExists ==
    ASSUME NEW h \in Seq(Updates), NEW I, I \subseteq 1 .. Len(h), I # {}
    PROVE  /\ FirstOf(h, I) \in I
           /\ \A j \in I : h[FirstOf(h, I)].at < h[j].at \/ (h[j].at = h[FirstOf(h, I)].at /\ j <= FirstOf(h, I))
<1>1. Horizon \in Nat /\ Len(h) \in Nat
  BY MotionNumbers
<1>2. ASSUME NEW i \in I PROVE i \in 1 .. Len(h) /\ h[i].at \in 0 .. Horizon
  <2>1. h[i] \in Updates
    OBVIOUS
  <2> QED
    BY <2>1 DEF Updates
<1> DEFINE Ats == {h[i].at : i \in I}
<1>3. PICK s \in Ats : \A k \in Ats : s <= k
  <2>0. PICK i \in I : TRUE
    OBVIOUS
  <2>1. Ats \subseteq Nat /\ Ats # {}
    <3>1. ASSUME NEW k \in I PROVE h[k].at \in Nat
      BY <1>1, <1>2
    <3>2. h[i].at \in Ats
      BY <2>0
    <3> QED
      BY <3>1, <3>2
  <2> HIDE DEF Ats
  <2> QED
    BY <2>1, LeastExists
<1>4. PICK i \in I : s = h[i].at
  OBVIOUS
<1>5. ASSUME NEW j \in I PROVE h[i].at <= h[j].at
  BY <1>3, <1>4
<1> HIDE DEF Ats
<1> DEFINE Same == {j \in I : h[j].at = h[i].at}
           Backs == {Len(h) - j : j \in Same}
<1>6. PICK b \in Backs : \A k \in Backs : b <= k
  <2>1. Backs \subseteq Nat /\ Backs # {}
    BY <1>1, <1>2
  <2> HIDE DEF Backs
  <2> QED
    BY <2>1, LeastExists
<1>7. PICK l \in Same : b = Len(h) - l
  OBVIOUS
<1>8. \A j \in I : h[l].at < h[j].at \/ (h[j].at = h[l].at /\ j <= l)
  <2> SUFFICES ASSUME NEW j \in I PROVE h[l].at < h[j].at \/ (h[j].at = h[l].at /\ j <= l)
    OBVIOUS
  <2>1. CASE j \in Same
    <3>1. Len(h) - l <= Len(h) - j
      BY <1>6, <1>7, <2>1
    <3> QED
      BY <1>1, <1>2, <2>1, <3>1
  <2>2. CASE j \notin Same
    BY <1>2, <1>5, <2>2
  <2> QED
    BY <2>1, <2>2
<1> QED
  BY <1>8 DEF FirstOf

\* What the ring has at the ages A is what h has at the places I.
Matches(m, h, A, I) ==
    /\ \A a \in A : Len(h) - a \in I /\ IsCopy(GetByAge(m, a), h, Len(h) - a)
    /\ \A i \in I : Len(h) - i \in A

LEMMA BestIsLast ==
    ASSUME NEW m \in Rings, NEW h \in Seq(Updates), NEW A, A \subseteq Nat,
           NEW I, I \subseteq 1 .. Len(h), I # {}, Matches(m, h, A, I)
    PROVE  Best(m, A, 1) \in A /\ Len(h) - Best(m, A, 1) = LastOf(h, I)
<1> DEFINE n == Len(h)
           l == LastOf(h, I)
           At(a) == GetByAge(m, a).at
           Is(b) == \A j \in A \ {b} : 1 * At(b) > 1 * At(j) \/ (At(j) = At(b) /\ b < j)
<1>1. n \in Nat /\ \A i \in 1 .. n : h[i] \in Updates
  OBVIOUS
<1>2. ASSUME NEW a \in A
      PROVE  a \in Nat /\ n - a \in I /\ n - (n - a) = a /\ At(a) = h[n - a].at /\ At(a) \in Int
  <2>1. a \in Nat /\ n - a \in I /\ At(a) = h[n - a].at /\ h[n - a] \in Updates
    BY <1>1 DEF Matches, IsCopy
  <2>2. Horizon \in Nat
    BY MotionNumbers
  <2> QED
    BY <1>1, <2>1, <2>2 DEF Updates
<1>3. l \in I /\ \A j \in I : h[j].at < h[l].at \/ (h[j].at = h[l].at /\ j <= l)
  BY LastExists
<1> HIDE DEF l
<1>4. n - l \in A /\ n - (n - l) = l
  BY <1>1, <1>3 DEF Matches
<1> HIDE DEF n, At
<1>5. PICK c : c = n - l
  OBVIOUS
<1>6. c \in A /\ n - c = l
  BY <1>4, <1>5
<1>7. Is(c)
  <2> SUFFICES ASSUME NEW j \in A \ {c} PROVE 1 * At(c) > 1 * At(j) \/ (At(j) = At(c) /\ c < j)
    OBVIOUS
  <2>1. /\ n - j \in I /\ At(j) = h[n - j].at /\ At(j) \in Int /\ j \in Nat
        /\ At(c) = h[l].at /\ At(c) \in Int /\ c \in Nat
    BY <1>2, <1>6
  <2>2. At(j) < At(c) \/ (At(j) = At(c) /\ n - j <= n - c)
    BY <1>3, <1>6, <2>1
  <2> QED
    BY <1>1, <2>1, <2>2
<1>8. ASSUME NEW b \in A, Is(b) PROVE b = c
  <2> SUFFICES ASSUME b # c PROVE FALSE
    OBVIOUS
  <2>1. 1 * At(b) > 1 * At(c) \/ (At(c) = At(b) /\ b < c)
    BY <1>6, <1>8
  <2>2. 1 * At(c) > 1 * At(b) \/ (At(b) = At(c) /\ c < b)
    BY <1>7
  <2> QED
    BY <1>2, <1>6, <2>1, <2>2
<1>9. Best(m, A, 1) = CHOOSE b \in A : Is(b)
  BY DEF Best, At
<1> HIDE DEF Is
<1> QED
  BY <1>5, <1>6, <1>7, <1>8, <1>9 DEF n, l

LEMMA BestIsFirst ==
    ASSUME NEW m \in Rings, NEW h \in Seq(Updates), NEW A, A \subseteq Nat,
           NEW I, I \subseteq 1 .. Len(h), I # {}, Matches(m, h, A, I)
    PROVE  Best(m, A, -1) \in A /\ Len(h) - Best(m, A, -1) = FirstOf(h, I)
<1> DEFINE n == Len(h)
           l == FirstOf(h, I)
           At(a) == GetByAge(m, a).at
           Is(b) == \A j \in A \ {b} : (-1) * At(b) > (-1) * At(j) \/ (At(j) = At(b) /\ b < j)
<1>1. n \in Nat /\ \A i \in 1 .. n : h[i] \in Updates
  OBVIOUS
<1>2. ASSUME NEW a \in A
      PROVE  a \in Nat /\ n - a \in I /\ n - (n - a) = a /\ At(a) = h[n - a].at /\ At(a) \in Int
  <2>1. a \in Nat /\ n - a \in I /\ At(a) = h[n - a].at /\ h[n - a] \in Updates
    BY <1>1 DEF Matches, IsCopy
  <2>2. Horizon \in Nat
    BY MotionNumbers
  <2> QED
    BY <1>1, <2>1, <2>2 DEF Updates
<1>3. l \in I /\ \A j \in I : h[l].at < h[j].at \/ (h[j].at = h[l].at /\ j <= l)
  BY FirstExists
<1> HIDE DEF l
<1>4. n - l \in A /\ n - (n - l) = l
  BY <1>1, <1>3 DEF Matches
<1> HIDE DEF n, At
<1>5. PICK c : c = n - l
  OBVIOUS
<1>6. c \in A /\ n - c = l
  BY <1>4, <1>5
<1>7. Is(c)
  <2> SUFFICES ASSUME NEW j \in A \ {c} PROVE (-1) * At(c) > (-1) * At(j) \/ (At(j) = At(c) /\ c < j)
    OBVIOUS
  <2>1. /\ n - j \in I /\ At(j) = h[n - j].at /\ At(j) \in Int /\ j \in Nat
        /\ At(c) = h[l].at /\ At(c) \in Int /\ c \in Nat
    BY <1>2, <1>6
  <2>2. At(c) < At(j) \/ (At(j) = At(c) /\ n - j <= n - c)
    BY <1>3, <1>6, <2>1
  <2>3. n \in Int /\ j # c
    BY <1>1
  <2>4. PICK x, y : x = At(c) /\ y = At(j)
    OBVIOUS
  <2>5. (-1) * x > (-1) * y \/ (y = x /\ c < j)
    BY <2>1, <2>2, <2>3, <2>4
  <2> QED
    BY <2>4, <2>5
<1>8. ASSUME NEW b \in A, Is(b) PROVE b = c
  <2> SUFFICES ASSUME b # c PROVE FALSE
    OBVIOUS
  <2>1. (-1) * At(b) > (-1) * At(c) \/ (At(c) = At(b) /\ b < c)
    BY <1>6, <1>8
  <2>2. (-1) * At(c) > (-1) * At(b) \/ (At(b) = At(c) /\ c < b)
    BY <1>7
  <2> QED
    BY <1>2, <1>6, <2>1, <2>2
<1>9. Best(m, A, -1) = CHOOSE b \in A : Is(b)
  BY DEF Best, At
<1> HIDE DEF Is
<1> QED
  BY <1>5, <1>6, <1>7, <1>8, <1>9 DEF n, l

LEMMA Divided ==
    ASSUME NEW n \in Int, NEW d \in Int, d > 0
    PROVE  n \div d \in Int /\ d * (n \div d) <= n /\ n < d * (n \div d) + d
OBVIOUS

LEMMA RoundedDown ==
    ASSUME NEW n \in Int, NEW d \in Int, d > 0 PROVE n - (n \div d) * d \in 0 .. d - 1
<1>1. PICK k : k = n \div d
  OBVIOUS
<1>2. k \in Int /\ d * k <= n /\ n < d * k + d
  BY <1>1, Divided
<1>3. PICK c : c = d * k
  OBVIOUS
<1>4. c \in Int /\ k * d = c
  BY <1>2, <1>3
<1> QED
  BY <1>1, <1>2, <1>3, <1>4

\* Less of a step is not more than the whole.
LEMMA PartOf ==
    ASSUME NEW v \in Int, NEW k \in Nat, NEW c \in Nat, k <= c
    PROVE  v * k \in Int /\ Abs(v * k) <= c * Abs(v)
<1>1. ASSUME NEW a \in Nat PROVE a * k \in Nat /\ a * k <= c * a /\ c * a \in Nat
  <2>1. a * k <= a * c /\ a * c = c * a /\ a * k \in Nat /\ c * a \in Nat
    OBVIOUS
  <2> QED
    BY <2>1
<1>2. CASE v >= 0
  <2>1. v \in Nat /\ Abs(v) = v
    BY <1>2 DEF Abs
  <2>2. v * k \in Nat /\ v * k <= c * v
    BY <1>1, <2>1
  <2>3. Abs(v * k) = v * k
    BY <2>2 DEF Abs
  <2> QED
    BY <2>1, <2>2, <2>3
<1>3. CASE ~(v >= 0)
  <2>1. PICK w : w = -v
    OBVIOUS
  <2>2. w \in Nat /\ Abs(v) = w /\ v * k = -(w * k)
    BY <1>3, <2>1 DEF Abs
  <2>3. w * k \in Nat /\ w * k <= c * w
    BY <1>1, <2>2
  <2>4. Abs(v * k) = w * k /\ v * k \in Int
    BY <2>2, <2>3 DEF Abs
  <2> QED
    BY <2>2, <2>3, <2>4
<1> QED
  BY <1>2, <1>3

LEMMA CorrectionBound ==
    ASSUME NEW m \in Rings PROVE Abs(Correction(m)) <= SnapMax
<1> DEFINE n == m.err * m.timer
           q == n \div SnapTime
<1>1. SnapMax \in Nat /\ SnapTime \in Nat /\ SnapTime > 0
  BY MotionNumbers
<1>2. m.err \in Int /\ m.timer \in Nat /\ m.timer <= SnapTime /\ -SnapMax <= m.err /\ m.err <= SnapMax
  BY <1>1 DEF Rings
<1>3. n \in Int /\ Abs(n) <= SnapTime * Abs(m.err) /\ Abs(m.err) \in Nat /\ Abs(m.err) <= SnapMax
  <2>1. Abs(m.err) \in Nat /\ Abs(m.err) <= SnapMax
    BY <1>1, <1>2 DEF Abs
  <2> QED
    BY <1>1, <1>2, <2>1, PartOf
<1>4. SnapTime * Abs(m.err) <= SnapTime * SnapMax
  <2>1. PICK a : a = Abs(m.err)
    OBVIOUS
  <2>2. a \in Nat /\ a <= SnapMax
    BY <1>3, <2>1
  <2>3. SnapTime * a <= SnapTime * SnapMax
    BY <1>1, <2>2
  <2> QED
    BY <2>1, <2>3
<1> HIDE DEF n
<1>5. PICK top : top = SnapTime * SnapMax
  OBVIOUS
<1>6. top \in Nat /\ n <= top /\ -top <= n
  <2>1. top \in Nat /\ SnapTime * Abs(m.err) \in Nat
    BY <1>1, <1>3, <1>5
  <2>2. Abs(n) <= top
    <3>1. PICK k : k = SnapTime * Abs(m.err)
      OBVIOUS
    <3>2. Abs(n) \in Int
      BY <1>3 DEF Abs
    <3> QED
      BY <1>3, <1>4, <1>5, <2>1, <3>1, <3>2
  <2> QED
    BY <1>3, <2>1, <2>2 DEF Abs
<1>7. q \in Int /\ SnapTime * q <= n /\ n < SnapTime * q + SnapTime
  BY <1>1, <1>3, Divided
<1> HIDE DEF q
<1>8. q <= SnapMax
  <2> SUFFICES ASSUME q >= SnapMax + 1 PROVE FALSE
    BY <1>1, <1>7
  <2>1. SnapTime * (SnapMax + 1) <= SnapTime * q
    BY <1>1, <1>7
  <2>2. SnapTime * (SnapMax + 1) = top + SnapTime
    BY <1>1, <1>5
  <2>3. PICK k : k = SnapTime * q
    OBVIOUS
  <2>4. k \in Int
    BY <1>1, <1>7, <2>3
  <2> QED
    BY <1>1, <1>3, <1>6, <1>7, <2>1, <2>2, <2>3, <2>4
<1>9. q >= -SnapMax
  <2> SUFFICES ASSUME q <= -SnapMax - 1 PROVE FALSE
    BY <1>1, <1>7
  <2>1. SnapTime * q <= SnapTime * (-SnapMax - 1)
    BY <1>1, <1>7
  <2>2. SnapTime * (-SnapMax - 1) = -top - SnapTime
    BY <1>1, <1>5
  <2>3. PICK k : k = SnapTime * q
    OBVIOUS
  <2>4. k \in Int
    BY <1>1, <1>7, <2>3
  <2> QED
    BY <1>1, <1>3, <1>6, <1>7, <2>1, <2>2, <2>3, <2>4
<1>10. Abs(q) <= SnapMax
  BY <1>1, <1>7, <1>8, <1>9 DEF Abs
<1> QED
  BY <1>10 DEF Correction, q, n

\* Dead reckoning goes at most ExtrapMax of the speed away.
LEMMA Reckoned ==
    ASSUME NEW g, NEW h, NEW i, IsCopy(g, h, i), h[i].pos \in Int, Heading(h, i) \in Int, NEW over \in Int
    PROVE  /\ Abs(Reckon(g, over) - h[i].pos) <= ExtrapMax * SpeedBefore(h, i)
           /\ over > ExtrapMax \/ over <= 0 => Reckon(g, over) = h[i].pos
<1>1. ExtrapMax \in Nat
  BY MotionNumbers
<1>2. g.pos = h[i].pos /\ g.vel \in {0, Heading(h, i)}
  BY DEF IsCopy
<1>3. SpeedBefore(h, i) = Abs(Heading(h, i)) /\ Abs(Heading(h, i)) \in Nat
  <2>1. Abs(0) = 0
    BY DEF Abs
  <2>2. SpeedBefore(h, i) = Abs(Heading(h, i))
    BY <2>1 DEF SpeedBefore, Heading
  <2>3. Abs(Heading(h, i)) \in Nat
    BY DEF Abs
  <2> QED
    BY <2>2, <2>3
<1>4. PICK v, p, c : v = Heading(h, i) /\ p = h[i].pos /\ c = ExtrapMax * Abs(v)
  OBVIOUS
<1>5. c \in Nat /\ Abs(0) = 0
  <2>1. Abs(v) \in Nat
    BY <1>3, <1>4
  <2> QED
    BY <1>1, <1>4, <2>1 DEF Abs
<1>6. CASE over > 0 /\ over <= ExtrapMax
  <2>1. Reckon(g, over) = p + g.vel * over
    BY <1>2, <1>4, <1>6 DEF Reckon
  <2>2. CASE g.vel = v
    <3>1. v * over \in Int /\ Abs(v * over) <= c
      BY <1>1, <1>4, <1>6, PartOf
    <3>2. PICK k : k = v * over
      OBVIOUS
    <3>3. Reckon(g, over) - p = k
      BY <1>4, <2>1, <2>2, <3>1, <3>2
    <3> QED
      BY <1>1, <1>3, <1>4, <1>6, <3>1, <3>2, <3>3
  <2>3. CASE g.vel = 0
    <3>1. Reckon(g, over) - p = 0
      BY <1>4, <2>1, <2>3
    <3> QED
      BY <1>1, <1>3, <1>4, <1>5, <1>6, <3>1
  <2> QED
    BY <1>2, <1>4, <2>2, <2>3
<1>7. CASE ~(over > 0 /\ over <= ExtrapMax)
  <2>1. Reckon(g, over) = p /\ p - p = 0
    BY <1>2, <1>4, <1>7 DEF Reckon
  <2> QED
    BY <1>3, <1>4, <1>5, <2>1
<1> QED
  BY <1>6, <1>7

LEMMA HeadingTypes ==
    ASSUME NEW h \in Seq(Updates), NEW i \in 1 .. Len(h)
    PROVE  h[i].at \in Int /\ h[i].pos \in Int /\ Heading(h, i) \in Int
<1>1. \A k \in 1 .. Len(h) : h[k].at \in Int /\ h[k].pos \in Int
  <2> SUFFICES ASSUME NEW k \in 1 .. Len(h) PROVE h[k].at \in Int /\ h[k].pos \in Int
    OBVIOUS
  <2>1. h[k] \in Updates /\ Horizon \in Nat
    BY MotionNumbers
  <2> QED
    BY <2>1 DEF Updates
<1>2. CASE i = 1 \/ h[i].at <= h[i - 1].at
  BY <1>1, <1>2 DEF Heading
<1>3. CASE ~(i = 1 \/ h[i].at <= h[i - 1].at)
  <2>1. i - 1 \in 1 .. Len(h)
    BY <1>3
  <2>2. PICK n, d : n = h[i].pos - h[i - 1].pos /\ d = h[i].at - h[i - 1].at
    OBVIOUS
  <2>3. n \in Int /\ d \in Int /\ d > 0
    BY <1>1, <1>3, <2>1, <2>2
  <2>4. n \div d \in Int
    BY <2>3, Divided
  <2> QED
    BY <1>1, <1>3, <2>2, <2>4 DEF Heading
<1> QED
  BY <1>2, <1>3

\* What MotionSound says of a place p at the time t between the updates l and n of h.
IsSound(h, t, past, next, p, l, n) ==
    /\ past = {} => p = n.pos
    /\ past # {} /\ next # {} =>
         IF l.at = n.at THEN p = l.pos
         ELSE (n.pos - l.pos) * (t - l.at) - (p - l.pos) * (n.at - l.at) \in 0 .. n.at - l.at - 1
    /\ next = {} => /\ Abs(p - l.pos) <= ExtrapMax * SpeedBefore(h, LastOf(h, past))
                    /\ t - l.at > ExtrapMax => p = l.pos

\* What is drawn of a ring that mirrors h at the given time.
LEMMA DrawnSound ==
    ASSUME NEW m \in Rings, NEW h \in Seq(Updates), Mirrors(m, h), h # << >>, NEW time \in Nat,
           NEW t, t = time - m.delay, NEW past, past = {i \in Kept(h) : h[i].at <= t},
           NEW next, next = {i \in Kept(h) : h[i].at >= t},
           NEW p, p = InterpolateEntity(m, time),
           NEW l, l = h[LastOf(h, past)], NEW n, n = h[FirstOf(h, next)]
    PROVE  IsSound(h, t, past, next, p, l, n)
<1> SUFFICES
      /\ past = {} => p = n.pos
      /\ past # {} /\ next # {} =>
           IF l.at = n.at THEN p = l.pos
           ELSE (n.pos - l.pos) * (t - l.at) - (p - l.pos) * (n.at - l.at) \in 0 .. n.at - l.at - 1
      /\ next = {} => /\ Abs(p - l.pos) <= ExtrapMax * SpeedBefore(h, LastOf(h, past))
                      /\ t - l.at > ExtrapMax => p = l.pos
  BY DEF IsSound
<1> DEFINE len == Len(h)
           R == RingSize
           ages == 0 .. m.count - 1
           pastAges == {a \in ages : GetByAge(m, a).at <= t}
           nextAges == {a \in ages : GetByAge(m, a).at >= t}
           b == Best(m, pastAges, 1)
           f == Best(m, nextAges, -1)
           B == GetByAge(m, b)
           F == GetByAge(m, f)
<1>1. /\ len \in Nat /\ len > 0 /\ R \in Nat /\ R > 0 /\ len <= R + 1
      /\ m.count = (IF len < R THEN len ELSE R) /\ m.delay \in Int /\ t \in Int
  <2>1. m.delay \in Int
    <3>1. m.delay \in Delays /\ Delays \subseteq Nat
      BY MotionNumbers DEF Rings
    <3>2. m.delay \in Nat
      BY <3>1, Zenon
    <3> QED
      BY <3>2, SMT
  <2>2. len <= R + 1 /\ m.count = (IF len < R THEN len ELSE R)
    BY DEF Mirrors
  <2>3. len \in Nat /\ len > 0
    OBVIOUS
  <2>4. R \in Nat /\ R > 0
    BY MotionNumbers
  <2>5. t \in Int
    BY <2>1
  <2> QED
    BY <2>1, <2>2, <2>3, <2>4, <2>5, Zenon
<1>2. ASSUME NEW i PROVE i \in Kept(h) <=> i \in 1 .. len /\ len - i \in ages
  BY <1>1 DEF Kept
<1>3. ASSUME NEW a \in ages
      PROVE  /\ len - a \in Kept(h) /\ len - (len - a) = a /\ IsCopy(GetByAge(m, a), h, len - a)
             /\ GetByAge(m, a).at = h[len - a].at
  <2>1. len - a \in 1 .. len /\ len - (len - a) = a
    BY <1>1
  <2> QED
    BY <1>2, <2>1 DEF Mirrors, IsCopy
<1>4. ASSUME NEW i \in Kept(h)
      PROVE  /\ i \in 1 .. len /\ len - i \in ages /\ len - (len - i) = i
             /\ h[i].at \in Int /\ h[i].pos \in Int /\ Heading(h, i) \in Int
             /\ GetByAge(m, len - i).at = h[i].at
  <2>1. i \in 1 .. len /\ len - i \in ages /\ len - (len - i) = i
    BY <1>1, <1>2
  <2>2. IsCopy(GetByAge(m, len - i), h, i)
    BY <1>3, <2>1
  <2> QED
    BY <2>1, <2>2, HeadingTypes DEF IsCopy
<1>5. past \subseteq 1 .. len /\ next \subseteq 1 .. len /\ ages \subseteq Nat
      /\ pastAges \subseteq Nat /\ nextAges \subseteq Nat
  BY <1>1, <1>2
<1> HIDE DEF len, ages
<1>6. Matches(m, h, pastAges, past) /\ Matches(m, h, nextAges, next)
  <2>1. ASSUME NEW a \in ages PROVE (len - a \in past <=> a \in pastAges) /\ (len - a \in next <=> a \in nextAges)
    BY <1>3
  <2>2. ASSUME NEW i \in Kept(h) PROVE (len - i \in pastAges <=> i \in past) /\ (len - i \in nextAges <=> i \in next)
    BY <1>4
  <2> QED
    BY <1>3, <2>1, <2>2 DEF Matches, len
<1>7. (past = {} <=> pastAges = {}) /\ (next = {} <=> nextAges = {})
  BY <1>6 DEF Matches
<1>8. Kept(h) = past \cup next /\ Kept(h) # {}
  <2>1. len \in Kept(h)
    <3>1. len \in 1 .. len /\ len - len \in ages
      BY <1>1 DEF ages
    <3> QED
      BY <1>2, <3>1
  <2>2. ASSUME NEW i \in Kept(h) PROVE i \in past \/ i \in next
    <3>1. h[i].at \in Int /\ t \in Int
      BY <1>1, <1>4
    <3>2. h[i].at <= t \/ h[i].at >= t
      BY <3>1
    <3> QED
      BY <3>2
  <2> QED
    BY <2>1, <2>2
<1>9. p = IF pastAges = {} THEN F.pos
          ELSE IF nextAges = {} \/ f = b THEN Reckon(B, t - B.at) ELSE Between(B, F, t)
  BY DEF InterpolateEntity, ages
<1> HIDE DEF pastAges, nextAges
<1>10. PICK li, ni : li = LastOf(h, past) /\ ni = FirstOf(h, next)
  OBVIOUS
<1>11. ASSUME past # {}
       PROVE  /\ li \in past /\ b \in pastAges /\ len - b = li /\ IsCopy(B, h, li)
              /\ B.at = l.at /\ B.pos = l.pos /\ l = h[li]
              /\ l.at \in Int /\ l.pos \in Int /\ Heading(h, li) \in Int /\ l.at <= t
  <2>1. b \in pastAges /\ len - b = li
    BY <1>5, <1>6, <1>10, <1>11, BestIsLast DEF len
  <2>2. li \in past /\ IsCopy(B, h, li)
    BY <1>6, <2>1 DEF Matches, len
  <2> QED
    BY <1>4, <1>10, <2>1, <2>2 DEF IsCopy
<1>12. ASSUME next # {}
       PROVE  /\ ni \in next /\ f \in nextAges /\ len - f = ni /\ IsCopy(F, h, ni)
              /\ F.at = n.at /\ F.pos = n.pos /\ n = h[ni]
              /\ n.at \in Int /\ n.pos \in Int /\ n.at >= t
  <2>1. f \in nextAges /\ len - f = ni
    BY <1>5, <1>6, <1>10, <1>12, BestIsFirst DEF len
  <2>2. ni \in next /\ IsCopy(F, h, ni)
    BY <1>6, <2>1 DEF Matches, len
  <2> QED
    BY <1>4, <1>10, <2>1, <2>2 DEF IsCopy
<1> HIDE DEF b, f, B, F
<1>13. CASE past = {}
  <2>1. next # {}
    BY <1>8, <1>13
  <2> QED
    BY <1>7, <1>9, <1>12, <1>13, <2>1
<1>14. CASE past # {} /\ next = {}
  <2>0. B.at = l.at /\ l.at \in Int /\ t \in Int
    BY <1>1, <1>11, <1>14
  <2>1. p = Reckon(B, t - l.at) /\ t - l.at \in Int
    <3>1. p = Reckon(B, t - B.at)
      BY <1>7, <1>9, <1>14
    <3> QED
      BY <2>0, <3>1
  <2>2. IsCopy(B, h, li) /\ h[li].pos \in Int /\ Heading(h, li) \in Int
    BY <1>11, <1>14
  <2>3. /\ Abs(Reckon(B, t - l.at) - h[li].pos) <= ExtrapMax * SpeedBefore(h, li)
        /\ t - l.at > ExtrapMax => Reckon(B, t - l.at) = h[li].pos
    BY <2>1, <2>2, Reckoned
  <2>4. l = h[li]
    BY <1>10
  <2> QED
    BY <1>10, <1>14, <2>1, <2>3, <2>4
<1>15. CASE past # {} /\ next # {}
  <2>1. CASE f = b
    <3>1. li = ni
      BY <1>11, <1>12, <1>15, <2>1
    <3>2. l = n /\ l.at = t
      BY <1>1, <1>11, <1>12, <1>15, <3>1
    <3>3. p = Reckon(B, 0)
      <4>1. p = Reckon(B, t - l.at) /\ t - l.at = 0
        BY <1>1, <1>7, <1>9, <1>11, <1>15, <2>1, <3>2
      <4> QED
        BY <4>1
    <3>4. p = l.pos
      <4>1. p = h[li].pos
        <5>1. IsCopy(B, h, li) /\ h[li].pos \in Int /\ Heading(h, li) \in Int /\ 0 \in Int /\ 0 <= 0
          BY <1>11, <1>15
        <5> QED
          BY <3>3, <5>1, Reckoned
      <4> QED
        BY <1>10, <4>1
    <3> QED
      BY <1>15, <3>2, <3>4
  <2>2. CASE f # b
    <3>1. p = Between(B, F, t)
      BY <1>7, <1>9, <1>15, <2>2
    <3>2. CASE l.at = n.at
      <4>1. p = l.pos
        BY <1>11, <1>12, <1>15, <3>1, <3>2 DEF Between
      <4> QED
        BY <1>15, <3>2, <4>1
    <3>3. CASE l.at # n.at
      <4>1. PICK top, d : top = (n.pos - l.pos) * (t - l.at) /\ d = n.at - l.at
        OBVIOUS
      <4>0. /\ t \in Int /\ l.at \in Int /\ n.at \in Int /\ l.pos \in Int /\ n.pos \in Int
            /\ l.at <= t /\ t <= n.at
        BY <1>1, <1>11, <1>12, <1>15
      <4>2. p = l.pos + top \div d
        BY <1>11, <1>12, <1>15, <3>1, <3>3, <4>1 DEF Between
      <4>3. d \in Int /\ d > 0
        <5>1. n.at - l.at \in Int /\ n.at - l.at > 0
          BY <3>3, <4>0
        <5> QED
          BY <4>1, <5>1
      <4>4. top \in Int
        <5>1. n.pos - l.pos \in Int /\ t - l.at \in Int
          BY <4>0
        <5>2. PICK x \in Int, y \in Int : x = n.pos - l.pos /\ y = t - l.at
          BY <5>1
        <5>3. x * y \in Int
          OBVIOUS
        <5> QED
          BY <4>1, <5>2, <5>3
      <4>5. PICK k : k = top \div d
        OBVIOUS
      <4>6. k \in Int /\ top - k * d \in 0 .. d - 1
        BY <4>3, <4>4, <4>5, Divided, RoundedDown
      <4>7. p - l.pos = k
        BY <1>11, <1>15, <4>2, <4>5, <4>6
      <4> QED
        BY <1>15, <3>3, <4>1, <4>6, <4>7
    <3> QED
      BY <3>2, <3>3
  <2> QED
    BY <2>1, <2>2
<1> QED
  BY <1>13, <1>14, <1>15

\* What is too old does not wait any longer.
LEMMA CleanedTypes ==
    ASSUME NEW q \in Seq(Updates), NEW time PROVE CleanupOld(q, time) \in Seq(Updates)
<1> DEFINE n == Len(q)
           After(x, i) == IF q[i].at < time - PendingAge THEN x ELSE Append(x, q[i])
           M == Seq(Updates)
           G == [i \in 1 .. n |-> [x \in M |-> After(x, i)]]
           first == << >>
<1>1. n \in Nat /\ \A i \in 1 .. n : q[i] \in Updates
  OBVIOUS
<1> HIDE DEF n
<1>2. ASSUME NEW i \in 1 .. n, NEW x \in M PROVE After(x, i) \in M
  <2>1. q[i] \in Updates
    BY <1>1
  <2> QED
    BY <2>1
<1>3. first \in M
  OBVIOUS
<1> HIDE DEF M, After, first
<1>4. G \in Maps(n, M)
  BY <1>2 DEF Maps
<1>5. PICK f : Runs(f, n, M, first, G)
  <2> HIDE DEF G
  <2> QED
    BY <1>1, <1>3, <1>4, Iterated
<1>6. ASSUME NEW i \in 1 .. n PROVE i \in 0 .. n /\ i - 1 \in 0 .. n /\ f[i] = After(f[i - 1], i)
  <2>1. i \in 0 .. n /\ i - 1 \in 0 .. n
    BY <1>1
  <2>2. f[i - 1] \in M /\ f[i] = G[i][f[i - 1]]
    BY <1>5, <2>1 DEF Runs
  <2> QED
    BY <2>1, <2>2
<1> HIDE DEF G
<1> DEFINE Kepts(c) == c = [i \in 0 .. n |-> IF i = 0 THEN first ELSE After(c[i - 1], i)]
           kept == CHOOSE c : Kepts(c)
<1>7. Kepts(kept)
  <2> DEFINE c == [i \in 0 .. n |-> f[i]]
  <2>1. ASSUME NEW i \in 0 .. n PROVE c[i] = IF i = 0 THEN first ELSE After(c[i - 1], i)
    <3>1. CASE i = 0
      BY <1>5, <3>1 DEF Runs
    <3>2. CASE i # 0
      <4>1. i \in 1 .. n /\ i - 1 \in 0 .. n
        BY <1>1, <3>2
      <4> QED
        BY <1>6, <3>2, <4>1
    <3> QED
      BY <3>1, <3>2
  <2>2. Kepts(c)
    BY <2>1
  <2> HIDE DEF c, Kepts
  <2> QED
    BY <2>2
<1>8. CleanupOld(q, time) = kept[n]
  BY DEF CleanupOld, n, first, After
<1> HIDE DEF kept
<1> DEFINE T == {i \in 0 .. n : kept[i] \in M}
<1>9. \A i \in 0 .. n : i \in T
  <2>1. 0 \in T
    BY <1>1, <1>3, <1>7
  <2>2. ASSUME NEW i \in 1 .. n, i - 1 \in T PROVE i \in T
    <3>1. kept[i - 1] \in M /\ i \in 0 .. n /\ i # 0
      BY <1>1, <2>2
    <3>2. kept[i] = After(kept[i - 1], i)
      BY <1>7, <3>1
    <3> QED
      BY <1>2, <3>1, <3>2
  <2> HIDE DEF T
  <2> QED
    BY <1>1, <2>1, <2>2, UpTo
<1>10. n \in 0 .. n
  BY <1>1
<1> QED
  BY <1>8, <1>9, <1>10 DEF M

-----------------------------------------------------------------------------
(* The ring of a body mirrors what was received of it in every state.      *)

MotionInv ==
    /\ clock \in 0 .. Horizon /\ mails \in 0 .. MailBound /\ registered \subseteq Bodies
    /\ motion \in [Bodies -> Rings] /\ history \in [Bodies -> Seq(Updates)]
    /\ waiting \in [Bodies -> Seq(Updates)]
    /\ judged.id \subseteq Bodies /\ judged.pos \in Int
    /\ frame \in [dt : Nat, due : BOOLEAN]
    /\ \A e \in Bodies : Mirrors(motion[e], history[e])
    /\ \A e \in Bodies : shown[e] = {} \/ \E p : shown[e] = {p}

LEMMA FreshMirrors == Fresh \in Rings /\ Mirrors(Fresh, << >>)
<1>1. /\ RingSize \in Nat /\ RingSize > 0 /\ FirstDelay \in Delays /\ SnapMax \in Nat /\ SnapTime \in Nat
      /\ Horizon \in Nat
  BY MotionNumbers
<1>2. Blank \in Snapshots
  BY <1>1 DEF Blank, Snapshots
<1>3. [i \in Slots |-> Blank] \in [Slots -> Snapshots] /\ 0 \in Slots /\ 0 \in 0 .. RingSize
      /\ 0 \in -SnapMax .. SnapMax /\ 0 \in 0 .. SnapTime
  BY <1>1, <1>2 DEF Slots
<1>4. Fresh \in Rings
  BY <1>1, <1>3 DEF Fresh, Rings
<1>5. Fresh.count = 0 /\ Len(<< >>) = 0 /\ \A a \in 0 .. 0 - 1 : FALSE
  BY DEF Fresh
<1> QED
  BY <1>1, <1>4, <1>5 DEF Mirrors

\* The end of a blend leaves the snapshots as they are.
LEMMA DecayMirrors ==
    ASSUME NEW m \in Rings, NEW h, Mirrors(m, h), NEW dt \in Nat
    PROVE  Decay(m, dt) \in Rings /\ Mirrors(Decay(m, dt), h)
<1>1. SnapMax \in Nat /\ SnapTime \in Nat /\ m.timer \in 0 .. SnapTime /\ m.err \in -SnapMax .. SnapMax
  BY MotionNumbers DEF Rings
<1>2. PICK e, c : Decay(m, dt) = [m EXCEPT !.timer = c, !.err = e] /\ e \in -SnapMax .. SnapMax /\ c \in 0 .. SnapTime
  <2>1. CASE m.timer > dt
    <3>1. m = [buffer |-> m.buffer, head |-> m.head, count |-> m.count, delay |-> m.delay,
               timed |-> m.timed, err |-> m.err, timer |-> m.timer]
      BY RingIsRecord
    <3>2. PICK k : k = m.timer - dt
      OBVIOUS
    <3>3. Decay(m, dt) = [m EXCEPT !.timer = k]
      BY <2>1, <3>2 DEF Decay
    <3>4. [m EXCEPT !.timer = k] = [m EXCEPT !.timer = k, !.err = m.err]
      BY <3>1
    <3>5. k \in 0 .. SnapTime
      BY <1>1, <2>1, <3>2
    <3> QED
      BY <1>1, <3>3, <3>4, <3>5
  <2>2. CASE ~(m.timer > dt)
    <3>1. Decay(m, dt) = [m EXCEPT !.timer = 0, !.err = 0] /\ 0 \in -SnapMax .. SnapMax /\ 0 \in 0 .. SnapTime
      BY <1>1, <2>2 DEF Decay
    <3> QED
      BY <3>1
  <2> QED
    BY <2>1, <2>2
<1> DEFINE r == Decay(m, dt)
<1> HIDE DEF r
<1>3. r = [m EXCEPT !.timer = c, !.err = e]
  BY <1>2 DEF r
<1>4. m = [buffer |-> m.buffer, head |-> m.head, count |-> m.count, delay |-> m.delay,
           timed |-> m.timed, err |-> m.err, timer |-> m.timer]
  BY RingIsRecord
<1>5. r = [buffer |-> m.buffer, head |-> m.head, count |-> m.count, delay |-> m.delay,
           timed |-> m.timed, err |-> e, timer |-> c]
  BY <1>3, <1>4
<1>6. /\ m.buffer \in [Slots -> Snapshots] /\ m.head \in Slots /\ m.count \in 0 .. RingSize
      /\ m.delay \in Delays /\ m.timed \in BOOLEAN
  BY DEF Rings
<1>7. r \in Rings
  BY <1>2, <1>5, <1>6 DEF Rings
<1>8. r.count = m.count /\ \A a : GetByAge(r, a) = GetByAge(m, a)
  BY <1>5 DEF GetByAge
<1>9. Mirrors(r, h)
  BY <1>8 DEF Mirrors
<1> QED
  BY <1>7, <1>9 DEF r

\* Snapshots for e are added to its ring and to its list.
LEMMA ReceivesMirrors ==
    ASSUME MotionInv, NEW e \in Bodies, NEW q \in Seq(Updates), Receives(e, q)
    PROVE  /\ motion' \in [Bodies -> Rings] /\ history' \in [Bodies -> Seq(Updates)]
           /\ \A b \in Bodies : Mirrors(motion'[b], history'[b])
<1>1. PICK d \in Delays : /\ motion' = [motion EXCEPT ![e] = Flushed(@, q, d)]
                          /\ history' = [history EXCEPT ![e] = HeardAll(@, q)]
  BY DEF Receives
<1>2. /\ motion \in [Bodies -> Rings] /\ history \in [Bodies -> Seq(Updates)]
      /\ \A b \in Bodies : Mirrors(motion[b], history[b])
  BY DEF MotionInv
<1>3. PICK m, h : m = Flushed(motion[e], q, d) /\ h = HeardAll(history[e], q)
  OBVIOUS
<1>4. m \in Rings /\ h \in Seq(Updates) /\ Mirrors(m, h)
  BY <1>2, <1>3, AllMirrored
<1>5. motion' = [motion EXCEPT ![e] = m] /\ history' = [history EXCEPT ![e] = h]
  BY <1>1, <1>3
<1> QED
  BY <1>2, <1>4, <1>5

LEMMA MotionStart == RmInit => MotionInv
<1> SUFFICES ASSUME RmInit PROVE MotionInv
  OBVIOUS
<1>1. Horizon \in Nat /\ MailBound \in Nat /\ << >> \in Seq(Updates)
  BY MotionNumbers
<1>2. 0 \in 0 .. Horizon /\ 0 \in 0 .. MailBound /\ 0 \in Nat /\ 0 \in Int
  BY <1>1
<1> QED
  BY <1>1, <1>2, FreshMirrors DEF RmInit, MotionInv, NoUpdate

\* Messages, and a body that goes.
LEMMA MailStep ==
    ASSUME MotionInv,
           \/ \E e \in Bodies, p \in Spots :
                \/ ValidateInboundSnapshot(e, p)
                \/ \E deferred \in BOOLEAN : HandleEntitySpawn(e, p, deferred)
           \/ QueueUpdate \/ ApplyUpdate
           \/ \E es \in SUBSET Bodies : Despawn(es)
    PROVE  MotionInv'
<1>0. /\ MailBound \in Nat /\ Spots \subseteq Int /\ Horizon \in Nat
      /\ motion \in [Bodies -> Rings] /\ history \in [Bodies -> Seq(Updates)] /\ waiting \in [Bodies -> Seq(Updates)]
      /\ clock \in 0 .. Horizon /\ judged.id \subseteq Bodies /\ judged.pos \in Int /\ mails \in 0 .. MailBound
      /\ \A b \in Bodies : Mirrors(motion[b], history[b])
      /\ \A b \in Bodies : shown[b] = {} \/ \E x : shown[b] = {x}
  BY MotionNumbers DEF MotionInv
<1>1. Mail => mails' \in 0 .. MailBound
  BY <1>0 DEF Mail
<1>2. NoUpdate.id \subseteq Bodies /\ NoUpdate.pos \in Int
  BY DEF NoUpdate
<1>3. ASSUME NEW x \in Int PROVE [at |-> clock, pos |-> x] \in Updates
  BY <1>0 DEF Updates
<1>4. ASSUME NEW e \in Bodies, NEW p \in Spots, ValidateInboundSnapshot(e, p) PROVE MotionInv'
  <2>1. judged'.id \subseteq Bodies /\ judged'.pos \in Int
    BY <1>0, <1>4 DEF ValidateInboundSnapshot
  <2> QED
    BY <1>1, <1>4, <2>1 DEF ValidateInboundSnapshot, MotionInv
<1>5. CASE QueueUpdate
  <2>1. waiting' \in [Bodies -> Seq(Updates)]
    <3>1. PICK u \in Updates : u = [at |-> clock, pos |-> judged.pos]
      BY <1>0, <1>3
    <3>2. waiting' = [b \in Bodies |-> IF b \in judged.id THEN Append(waiting[b], u) ELSE waiting[b]]
      BY <1>5, <3>1 DEF QueueUpdate
    <3> QED
      BY <1>0, <3>2
  <2> QED
    BY <1>2, <1>5, <2>1 DEF QueueUpdate, MotionInv
<1>6. CASE ApplyUpdate
  <2>1. PICK b \in judged.id : Receives(b, <<[at |-> clock, pos |-> judged.pos]>>)
    BY <1>6 DEF ApplyUpdate
  <2>2. b \in Bodies /\ <<[at |-> clock, pos |-> judged.pos]>> \in Seq(Updates)
    BY <1>0, <1>3, <2>1
  <2>3. /\ motion' \in [Bodies -> Rings] /\ history' \in [Bodies -> Seq(Updates)]
        /\ \A c \in Bodies : Mirrors(motion'[c], history'[c])
    BY <2>1, <2>2, ReceivesMirrors
  <2> QED
    BY <1>2, <1>6, <2>3 DEF ApplyUpdate, MotionInv
<1>7. ASSUME NEW e \in Bodies, NEW p \in Spots, NEW deferred \in BOOLEAN, HandleEntitySpawn(e, p, deferred)
      PROVE  MotionInv'
  <2>1. Append(waiting[e], [at |-> clock, pos |-> p]) \in Seq(Updates)
    BY <1>0, <1>3
  <2>2. /\ motion' \in [Bodies -> Rings] /\ history' \in [Bodies -> Seq(Updates)]
        /\ \A c \in Bodies : Mirrors(motion'[c], history'[c])
    BY <1>7, <2>1, ReceivesMirrors DEF HandleEntitySpawn
  <2>3. waiting' \in [Bodies -> Seq(Updates)] /\ registered' \subseteq Bodies
    BY <1>0, <1>7 DEF HandleEntitySpawn, MotionInv
  <2> QED
    BY <1>1, <1>7, <2>2, <2>3 DEF HandleEntitySpawn, MotionInv
<1>8. ASSUME NEW es \in SUBSET Bodies, Despawn(es) PROVE MotionInv'
  <2>1. /\ motion' = [b \in Bodies |-> IF b \in es THEN Fresh ELSE motion[b]]
        /\ history' = [b \in Bodies |-> IF b \in es THEN << >> ELSE history[b]]
        /\ shown' = [b \in Bodies |-> IF b \in es THEN {} ELSE shown[b]]
    BY <1>8 DEF Despawn, RemoveEntity
  <2>2. /\ motion' \in [Bodies -> Rings] /\ history' \in [Bodies -> Seq(Updates)]
    <3>1. << >> \in Seq(Updates)
      OBVIOUS
    <3> QED
      BY <1>0, <2>1, <3>1, FreshMirrors
  <2>3. /\ \A b \in Bodies : Mirrors(motion'[b], history'[b])
        /\ \A b \in Bodies : shown'[b] = {} \/ \E x : shown'[b] = {x}
    BY <1>0, <2>1, FreshMirrors
  <2> QED
    BY <1>8, <2>2, <2>3 DEF Despawn, MotionInv
<1> QED
  BY <1>4, <1>5, <1>6, <1>7, <1>8

\* A frame, and the worker's part of it.
LEMMA FrameStep ==
    ASSUME MotionInv,
           (\E dt \in FrameTimes, cleans \in BOOLEAN : Frame(dt, cleans)) \/ BackgroundInterpolate
    PROVE  MotionInv'
<1>0. /\ Horizon \in Nat /\ FrameTimes \subseteq Nat /\ clock \in 0 .. Horizon
      /\ motion \in [Bodies -> Rings] /\ waiting \in [Bodies -> Seq(Updates)]
      /\ frame \in [dt : Nat, due : BOOLEAN]
      /\ \A b \in Bodies : Mirrors(motion[b], history[b])
      /\ \A b \in Bodies : shown[b] = {} \/ \E x : shown[b] = {x}
  BY MotionNumbers DEF MotionInv
<1>1. ASSUME NEW dt \in Nat,
             motion' = [e \in Bodies |-> IF e \in Drawn THEN Decay(motion[e], dt) ELSE motion[e]],
             UNCHANGED history
      PROVE  motion' \in [Bodies -> Rings] /\ \A b \in Bodies : Mirrors(motion'[b], history'[b])
  <2>1. ASSUME NEW b \in Bodies PROVE motion'[b] \in Rings /\ Mirrors(motion'[b], history[b])
    <3>1. motion'[b] \in {Decay(motion[b], dt), motion[b]}
      BY <1>1
    <3>2. Decay(motion[b], dt) \in Rings /\ Mirrors(Decay(motion[b], dt), history[b])
      BY <1>0, DecayMirrors
    <3> QED
      BY <1>0, <3>1, <3>2
  <2>2. motion' = [e \in Bodies |-> motion'[e]]
    BY <1>1
  <2> QED
    BY <1>1, <2>1, <2>2
<1>2. ASSUME NEW dt \in FrameTimes, NEW cleans \in BOOLEAN, Frame(dt, cleans) PROVE MotionInv'
  <2>1. dt \in Nat
    BY <1>0
  <2>2. PICK time : /\ time = IF clock + dt < Horizon THEN clock + dt ELSE Horizon
                    /\ clock' = time /\ frame' = [dt |-> dt, due |-> TRUE]
                    /\ motion' = [e \in Bodies |-> IF e \in Drawn THEN Decay(motion[e], dt) ELSE motion[e]]
                    /\ shown' = [e \in Bodies |->
                          IF e \in Drawn THEN {InterpolateEntity(motion[e], time) - Correction(motion'[e])}
                          ELSE shown[e]]
                    /\ waiting' = IF cleans THEN [e \in Bodies |-> CleanupOld(waiting[e], time)] ELSE waiting
                    /\ UNCHANGED <<registered, judged, history, mails>>
    BY <1>2 DEF Frame
  <2>3. clock' \in 0 .. Horizon
    BY <1>0, <2>1, <2>2
  <2>4. waiting' \in [Bodies -> Seq(Updates)]
    <3>1. ASSUME NEW e \in Bodies PROVE CleanupOld(waiting[e], time) \in Seq(Updates)
      BY <1>0, CleanedTypes
    <3> QED
      BY <1>0, <2>2, <3>1
  <2>5. \A b \in Bodies : shown'[b] = {} \/ \E x : shown'[b] = {x}
    BY <1>0, <2>2
  <2>6. motion' \in [Bodies -> Rings] /\ \A b \in Bodies : Mirrors(motion'[b], history'[b])
    BY <1>1, <2>1, <2>2
  <2>7. frame' \in [dt : Nat, due : BOOLEAN]
    BY <2>1, <2>2
  <2> QED
    BY <2>2, <2>3, <2>4, <2>5, <2>6, <2>7 DEF MotionInv
<1>3. CASE BackgroundInterpolate
  <2>1. frame.dt \in Nat /\ frame' \in [dt : Nat, due : BOOLEAN]
    BY <1>0, <1>3 DEF BackgroundInterpolate
  <2>2. motion' \in [Bodies -> Rings] /\ \A b \in Bodies : Mirrors(motion'[b], history'[b])
    BY <1>1, <1>3, <2>1 DEF BackgroundInterpolate
  <2> QED
    BY <1>3, <2>1, <2>2 DEF BackgroundInterpolate, MotionInv
<1> QED
  BY <1>2, <1>3

LEMMA MotionStep == ASSUME MotionInv, [RmNext]_rmVars PROVE MotionInv'
<1>1. CASE UNCHANGED rmVars
  BY <1>1 DEF rmVars, MotionInv
<1>2. CASE RmNext
  <2>1. registered \subseteq Bodies
    BY DEF MotionInv
  <2>2. CASE \E e \in Bodies, p \in Spots :
               \/ ValidateInboundSnapshot(e, p)
               \/ \E deferred \in BOOLEAN : HandleEntitySpawn(e, p, deferred)
    BY <2>2, MailStep
  <2>3. CASE QueueUpdate \/ ApplyUpdate
    BY <2>3, MailStep
  <2>4. CASE Despawn(registered) \/ \E e \in registered : Despawn({e})
    <3>1. \E es \in SUBSET Bodies : Despawn(es)
      BY <2>1, <2>4
    <3> QED
      BY <3>1, MailStep
  <2>5. CASE (\E dt \in FrameTimes, cleans \in BOOLEAN : Frame(dt, cleans)) \/ BackgroundInterpolate
    BY <2>5, FrameStep
  <2> QED
    BY <1>2, <2>2, <2>3, <2>4, <2>5 DEF RmNext
<1> QED
  BY <1>1, <1>2

LEMMA MotionTypes == ASSUME MotionInv PROVE RmTypeOK
<1>1. ASSUME NEW e \in Bodies
      PROVE  /\ motion[e].head \in Slots /\ motion[e].count \in 0 .. RingSize
             /\ motion[e].delay \in Delays /\ motion[e].timer \in 0 .. SnapTime
             /\ Len(history[e]) <= RingSize + 1
  BY DEF MotionInv, Rings, Mirrors
<1>2. ASSUME NEW e \in Bodies PROVE Cardinality(shown[e]) <= 1
  <2>1. CASE shown[e] = {}
    <3>1. Cardinality({}) = 0 /\ 0 <= 1
      BY FS_EmptySet
    <3> QED
      BY <2>1, <3>1
  <2>2. ASSUME NEW p, shown[e] = {p} PROVE Cardinality(shown[e]) <= 1
    <3>1. Cardinality({p}) = 1 /\ 1 <= 1
      BY FS_Singleton
    <3> QED
      BY <2>2, <3>1
  <2> QED
    BY <2>1, <2>2 DEF MotionInv
<1> QED
  BY <1>1, <1>2 DEF MotionInv, RmTypeOK

LEMMA MotionFollows == ASSUME MotionInv PROVE MotionSound
<1> SUFFICES ASSUME NEW e \in Bodies, history[e] # << >>
    PROVE LET h == history[e]
              t == clock - motion[e].delay
              past == {i \in Kept(h) : h[i].at <= t}
              next == {i \in Kept(h) : h[i].at >= t}
              p == InterpolateEntity(motion[e], clock)
              l == h[LastOf(h, past)]
              n == h[FirstOf(h, next)]
          IN /\ past = {} => p = n.pos
             /\ past # {} /\ next # {} =>
                  IF l.at = n.at THEN p = l.pos
                  ELSE (n.pos - l.pos) * (t - l.at) - (p - l.pos) * (n.at - l.at) \in 0 .. n.at - l.at - 1
             /\ next = {} => /\ Abs(p - l.pos) <= ExtrapMax * SpeedBefore(h, LastOf(h, past))
                             /\ t - l.at > ExtrapMax => p = l.pos
             /\ Abs(Correction(motion[e])) <= SnapMax
  BY DEF MotionSound
<1>1. motion[e] \in Rings /\ history[e] \in Seq(Updates) /\ Mirrors(motion[e], history[e]) /\ clock \in Nat
  <2>1. Horizon \in Nat
    BY MotionNumbers
  <2> QED
    BY <2>1 DEF MotionInv
<1>2. Abs(Correction(motion[e])) <= SnapMax
  BY <1>1, CorrectionBound
<1>3. PICK h, t, past, next, p, l, n :
           /\ h = history[e] /\ t = clock - motion[e].delay
           /\ past = {i \in Kept(h) : h[i].at <= t} /\ next = {i \in Kept(h) : h[i].at >= t}
           /\ p = InterpolateEntity(motion[e], clock)
           /\ l = h[LastOf(h, past)] /\ n = h[FirstOf(h, next)]
  OBVIOUS
<1>4. h \in Seq(Updates) /\ Mirrors(motion[e], h) /\ h # << >>
  BY <1>1, <1>3
<1>5. IsSound(h, t, past, next, p, l, n)
  BY <1>1, <1>3, <1>4, DrawnSound
<1> QED
  BY <1>2, <1>3, <1>5 DEF IsSound

\* The ring of a body never counts more snapshots than it has, and no index leaves it, for
\* any size (interpolation.h, PushSnapshot and Get).
THEOREM MotionIsTyped == RmSpec => []RmTypeOK
<1> QED
  BY MotionStart, MotionStep, MotionTypes, PTL DEF RmSpec

\* Whatever order and number the updates come in, queued or at once, and whatever the ring has
\* overwritten, a body is drawn on the line between the two updates around the time shown, at
\* the first one while all are younger, and not farther than ExtrapMax of its speed from the
\* last one (interpolation.cpp, InterpolateEntity).
THEOREM MotionIsSound == RmSpec => []MotionSound
<1> QED
  BY MotionStart, MotionStep, MotionFollows, PTL DEF RmSpec

-----------------------------------------------------------------------------
(* The whole session, whatever part a behaviour is about.                  *)

WorldInv == RelayTypes /\ StackInv /\ JoinInv /\ RegistryInv /\ MotionInv

LEMMA PartsStep ==
    [Next]_vars => [RsNext]_rsVars /\ [JbNext]_jbVars /\ [RmNext]_rmVars
<1> SUFFICES ASSUME [Next]_vars PROVE [RsNext]_rsVars /\ [JbNext]_jbVars /\ [RmNext]_rmVars
  OBVIOUS
<1>1. RsNext \/ UNCHANGED rsVars
  BY DEF Next, vars
<1>2. JbNext \/ UNCHANGED jbVars
  BY DEF Next, vars
<1>3. RmNext \/ UNCHANGED rmVars
  BY DEF Next, vars
<1> QED
  BY <1>1, <1>2, <1>3

LEMMA WorldInvariant == Spec => []WorldInv
<1>1. Init => WorldInv
  <2>1. Init => RsInit /\ JbInit /\ RmInit
    BY DEF Init
  <2> QED
    BY <2>1, RelayStart, StackStart, JoinStart, RegistryStart, MotionStart DEF WorldInv
<1>2. WorldInv /\ [Next]_vars => WorldInv'
  <2> SUFFICES ASSUME WorldInv, [Next]_vars PROVE WorldInv'
    OBVIOUS
  <2>1. RelayTypes /\ StackInv /\ JoinInv /\ RegistryInv /\ MotionInv
    BY DEF WorldInv
  <2>2. [RsNext]_rsVars /\ [JbNext]_jbVars /\ [RmNext]_rmVars
    BY PartsStep
  <2> QED
    BY <2>1, <2>2, RelayStep, StackStep, JoinStep, RegistryStep, MotionStep DEF WorldInv
<1> QED
  BY <1>1, <1>2, PTL DEF Spec

\* The types of all parts: what the server and the clients store and send, the barrier's
\* entries and ids, and the rings of snapshots, whose indexes never leave them.
THEOREM WorldIsTyped == Spec => []WorldTypeOK
<1>1. WorldInv => WorldTypeOK
  BY RelayTyped, JoinTyped, MotionTypes DEF WorldInv, WorldTypeOK
<1> QED
  BY <1>1, WorldInvariant, PTL

\* Whatever part a behaviour is about: players who are all ready have been told so, a character
\* of the save has one master unless its claim and its link overlapped (server.cpp, core.cpp), and
\* a body is drawn on the line between the updates around the time shown (interpolation.cpp).
THEOREM WorldIsSound == Spec => [](BarrierOpens /\ OneMaster /\ MotionSound)
<1>1. WorldInv => BarrierOpens /\ OneMaster /\ MotionSound
  BY MotionFollows, MastersDiffer DEF WorldInv, JoinInv
<1> QED
  BY <1>1, WorldInvariant, PTL

\* Once everything has arrived, the clients have the same stacks and the same relation: all
\* take the reports in the order in which the server passed them on (server.cpp), when the
\* values the games set are in the range it passes on.
THEOREM CopiesDoAgree ==
    ASSUME Relations \subseteq -100 .. 100
    PROVE  Spec => []CopiesAgree
<1>1. RelayTypes /\ RelationInv /\ [Next]_vars => RelationInv'
  BY PartsStep, RelationStep
<1>2. Init => RelationInv
  BY RelationStart DEF Init
<1>3. WorldInv => RelayTypes
  BY DEF WorldInv
<1>4. WorldInv /\ RelationInv => CopiesAgree
  BY StacksFollow, RelationsFollow DEF WorldInv, CopiesAgree
<1> QED
  BY <1>1, <1>2, <1>3, <1>4, WorldInvariant, PTL DEF Spec
=============================================================================
