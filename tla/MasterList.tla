---------------------------- MODULE MasterList ----------------------------
(***************************************************************************)
(* The public server list (KenshiMP.MasterServer/main.cpp) and the part of *)
(* every game server that keeps itself on it (server.cpp, "Master Server   *)
(* Registration").  A game server opens a link, registers once per link,   *)
(* sends a heartbeat every 30 seconds and reopens a lost link with a       *)
(* growing delay.  The master files a server under the address it gives    *)
(* (or the one its link comes from) and removes it when it deregisters,    *)
(* when its link ends or when it was silent for more than 90 seconds.      *)
(*                                                                         *)
(* The two ends of a link notice its end separately, so a server can be    *)
(* back on a new link while the master still holds the old one.  Two       *)
(* servers behind one router may give the same address, and then stand in  *)
(* each other's way on the list.  Time is counted in heartbeat intervals   *)
(* (Interval).                                                             *)
(***************************************************************************)
EXTENDS Naturals, Sequences

CONSTANTS GameServers,   \* the game servers
          Keys,          \* "ip:port" strings, MakeKey
          PeerKey,       \* PeerKey[s]: the key made of the link's address
          OuterKey,      \* OuterKey[s]: the key made of the router's address
          NoLink,        \* no link is open
          LinkBound      \* how many links are opened in a behaviour

ASSUME KeysOfServers ==
    PeerKey \in [GameServers -> Keys] /\ OuterKey \in [GameServers -> Keys]

ASSUME LinkBoundIsNat == LinkBound \in Nat
ASSUME NoLinkIsNone == NoLink \notin Nat

VARIABLES running,      \* the game servers that run
          masterHost,   \* those of them with an ENet host for the master
          filedAs,      \* the key a server registers under
          peerOf,       \* m_masterPeer: the link the server holds, or NoLink
          upAt,         \* m_masterConnected
          delay,        \* m_masterReconnectDelay, in seconds
          due,          \* servers whose heartbeat interval has elapsed
          sender,       \* sender[l]: which server opened link l
          open,         \* links the master holds
          mail,         \* mail[l]: messages under way to the master on link l
          listed,       \* g_servers: key -> [peer, silence]
          displaced     \* servers whose entry another one has overwritten, or
                        \* whose heartbeat went to another entry, since they
                        \* last registered (of the specification only)

atStart == <<running, masterHost, filedAs>>
mlVars == <<atStart, peerOf, upAt, delay, due, sender, open, mail, listed, displaced>>

Links == 1..LinkBound

FirstDelay == 5

MaxDelay == 60

(* HEARTBEAT_TIMEOUT_SEC = 90 seconds, in heartbeat intervals. *)
SilenceLimit == 3

MlInit ==
    /\ running = {} /\ masterHost = {} /\ displaced = {}
    /\ filedAs = PeerKey
    /\ peerOf = [s \in GameServers |-> NoLink]
    /\ upAt = [s \in GameServers |-> FALSE]
    /\ delay = [s \in GameServers |-> FirstDelay]
    /\ due = {}
    /\ sender = <<>>
    /\ open = {}
    /\ mail = [l \in Links |-> <<>>]
    /\ listed = <<>>

WithoutEntries(keys) == [k \in DOMAIN listed \ keys |-> listed[k]]

KeysOfPeer(l) == {k \in DOMAIN listed : listed[k].peer = l}

(***************************************************************************)
(* The game server.                                                        *)
(***************************************************************************)

\* enet_host_connect: a fresh ENet connection.  The reconnect delay (at
\* least 5 seconds) and the start of a process outlast any datagram, so what
\* was under way on the server's older links has arrived or is lost.
OpenLink(s) ==
    /\ Len(sender) < LinkBound
    /\ \A l \in 1..Len(sender) : sender[l] = s => mail[l] = <<>>
    /\ sender' = Append(sender, s)
    /\ peerOf' = [peerOf EXCEPT ![s] = Len(sender) + 1]

(* Start: the router forwards the port and tells its address, or UPnP      *)
(* fails and the master will see the link's; then ConnectToMaster makes    *)
(* the first attempt.                                                      *)
ConnectToMaster(s) ==
    /\ s \notin running
    /\ running' = running \cup {s} /\ masterHost' = masterHost \cup {s}
    /\ \E k \in {PeerKey[s], OuterKey[s]} : filedAs' = [filedAs EXCEPT ![s] = k]
    /\ OpenLink(s)
    /\ upAt' = [upAt EXCEPT ![s] = FALSE]
    /\ delay' = [delay EXCEPT ![s] = FirstDelay]
    /\ due' = due \ {s}
    /\ UNCHANGED <<open, mail, listed, displaced>>

(* No host or no peer could be made, or no master is configured: the       *)
(* server runs without, and does not try again.                            *)
ConnectFails(s) ==
    /\ s \notin running
    /\ running' = running \cup {s}
    /\ UNCHANGED <<masterHost, filedAs, peerOf, upAt, delay, due, sender, open, mail, listed, displaced>>

(* Mutant of NextDelay: the delay doubles without the cap. *)
NextDelayUncapped(d) == 2 * d

NextDelay(d) == IF 2 * d > MaxDelay THEN MaxDelay ELSE 2 * d

(* Mutant of Reconnect: the server gives up when the delay has grown once. *)
ReconnectGivesUp(s) ==
    /\ s \in masterHost
    /\ ~upAt[s]
    /\ peerOf[s] = NoLink
    /\ delay[s] = FirstDelay
    /\ OpenLink(s)
    /\ delay' = [delay EXCEPT ![s] = NextDelay(delay[s])]
    /\ UNCHANGED <<atStart, upAt, due, open, mail, listed, displaced>>

(* The reconnect timer ran out. *)
Reconnect(s) ==
    /\ s \in masterHost
    /\ ~upAt[s]
    /\ peerOf[s] = NoLink
    /\ OpenLink(s)
    /\ delay' = [delay EXCEPT ![s] = NextDelay(delay[s])]
    /\ UNCHANGED <<atStart, upAt, due, open, mail, listed, displaced>>

(* ENET_EVENT_TYPE_CONNECT at the server, with SendMasterRegister. *)
LinkOpens(s) ==
    /\ peerOf[s] # NoLink
    /\ ~upAt[s]
    /\ upAt' = [upAt EXCEPT ![s] = TRUE]
    /\ delay' = [delay EXCEPT ![s] = FirstDelay]
    /\ open' = open \cup {peerOf[s]}
    /\ mail' = [mail EXCEPT ![peerOf[s]] = <<"register">>]
    /\ UNCHANGED <<atStart, peerOf, due, sender, listed, displaced>>

(* ENET_EVENT_TYPE_DISCONNECT at the server: a failed attempt, a loss, or  *)
(* the master's end.                                                       *)
LinkLost(s) ==
    /\ peerOf[s] # NoLink
    /\ peerOf' = [peerOf EXCEPT ![s] = NoLink]
    /\ upAt' = [upAt EXCEPT ![s] = FALSE]
    /\ UNCHANGED <<atStart, delay, due, sender, open, mail, listed, displaced>>

\* A message to a link the master no longer holds is lost.
Posted(s, m) ==
    IF peerOf[s] \in open THEN [mail EXCEPT ![peerOf[s]] = Append(@, m)] ELSE mail

SendMasterHeartbeat(s) ==
    /\ s \in due
    /\ upAt[s]
    /\ mail' = Posted(s, "heartbeat")
    /\ due' = due \ {s}
    /\ UNCHANGED <<atStart, peerOf, upAt, delay, sender, open, listed, displaced>>

(* Stop: SendMasterDeregister, then the link is closed at once. *)
StopServer(s) ==
    /\ s \in running
    /\ mail' = IF upAt[s] THEN Posted(s, "deregister") ELSE mail
    /\ running' = running \ {s} /\ masterHost' = masterHost \ {s}
    /\ peerOf' = [peerOf EXCEPT ![s] = NoLink]
    /\ upAt' = [upAt EXCEPT ![s] = FALSE]
    /\ UNCHANGED <<filedAs, delay, due, sender, open, listed, displaced>>

(* The process dies: nothing is sent. *)
CrashServer(s) ==
    /\ s \in running
    /\ running' = running \ {s} /\ masterHost' = masterHost \ {s}
    /\ peerOf' = [peerOf EXCEPT ![s] = NoLink]
    /\ upAt' = [upAt EXCEPT ![s] = FALSE]
    /\ UNCHANGED <<filedAs, delay, due, sender, open, mail, listed, displaced>>

(***************************************************************************)
(* The master.                                                             *)
(***************************************************************************)

(* Whose entry is under the key.  *)
HolderOf(k) == {sender[listed[i].peer] : i \in DOMAIN listed \cap {k}}

(* An entry under the key is overwritten, whoever's it is. *)
HandleRegister(l) ==
    LET s == sender[l]
        k == filedAs[s]
    IN  /\ listed' = [i \in DOMAIN listed \cup {k} |->
                        IF i = k THEN [peer |-> l, silence |-> 0] ELSE listed[i]]
        /\ displaced' = (displaced \cup HolderOf(k)) \ {s}

(* The entry a heartbeat refreshes: the one under the link's own address,  *)
(* or else one that was registered over this link under another address.   *)
HeartbeatKeys(l) ==
    IF PeerKey[sender[l]] \in DOMAIN listed THEN {PeerKey[sender[l]]} ELSE KeysOfPeer(l)

HandleHeartbeat(l) ==
    /\ listed' = [k \in DOMAIN listed |->
                     IF k \in HeartbeatKeys(l) THEN [listed[k] EXCEPT !.silence = 0]
                                               ELSE listed[k]]
    /\ displaced' = displaced \cup
                       {s \in {sender[l]} : filedAs[s] \notin HeartbeatKeys(l)}

HandleDeregister(l) == listed' = WithoutEntries(KeysOfPeer(l)) /\ UNCHANGED displaced

HandleMasterPacket(l) ==
    /\ l \in open
    /\ mail[l] # <<>>
    /\ \/ Head(mail[l]) = "register" /\ HandleRegister(l)
       \/ Head(mail[l]) = "heartbeat" /\ HandleHeartbeat(l)
       \/ Head(mail[l]) = "deregister" /\ HandleDeregister(l)
    /\ mail' = [mail EXCEPT ![l] = Tail(@)]
    /\ UNCHANGED <<atStart, peerOf, upAt, delay, due, sender, open>>

(* Mutant of EntriesOfLink: every entry of the server behind the link goes,*)
(* the one it has registered over a newer link included.                   *)
EntriesOfServer(l) == {filedAs[sender[l]]}

(* Mutant of EntriesOfLink: the end of a link removes nothing. *)
EntriesKept(l) == {}

EntriesOfLink(l) == KeysOfPeer(l)

(* ENET_EVENT_TYPE_DISCONNECT at the master; it can precede the server's   *)
(* own notice of the loss.                                                 *)
PeerGone(l) ==
    /\ l \in open
    /\ open' = open \ {l}
    /\ mail' = [mail EXCEPT ![l] = <<>>]
    /\ listed' = WithoutEntries(EntriesOfLink(l))
    /\ UNCHANGED <<atStart, peerOf, upAt, delay, due, sender, displaced>>

(* What a server that left its link had sent is lost; nothing resends it. *)
MailLost(l) ==
    /\ l \in open
    /\ mail[l] # <<>>
    /\ \A s \in GameServers : peerOf[s] # l
    /\ mail' = [mail EXCEPT ![l] = <<>>]
    /\ UNCHANGED <<atStart, peerOf, upAt, delay, due, sender, open, listed, displaced>>

(* The links in use at both ends. *)
LiveLink(s) == upAt[s] /\ peerOf[s] \in open

(* One heartbeat interval passes.  A server that is connected has sent the *)
(* last heartbeat and what is under way on a living link has arrived: ENet *)
(* gives a link up when a reliable message is not acknowledged for that    *)
(* long.                                                                   *)
Interval ==
    /\ \A s \in GameServers : LiveLink(s) => s \notin due /\ mail[peerOf[s]] = <<>>
    /\ due' = {s \in running : upAt[s]}
    /\ listed' = [k \in DOMAIN listed |->
                    [listed[k] EXCEPT !.silence = IF @ > SilenceLimit THEN @ ELSE @ + 1]]
    /\ UNCHANGED <<atStart, peerOf, upAt, delay, sender, open, mail, displaced>>

PruneStaleServers ==
    /\ listed' = WithoutEntries({k \in DOMAIN listed : listed[k].silence > SilenceLimit})
    /\ listed' # listed
    /\ UNCHANGED <<atStart, peerOf, upAt, delay, due, sender, open, mail, displaced>>

(* The master is restarted: it keeps the list in memory only. *)
MasterRestarts ==
    /\ open # {}
    /\ open' = {}
    /\ mail' = [l \in Links |-> <<>>]
    /\ listed' = <<>>
    /\ UNCHANGED <<atStart, peerOf, upAt, delay, due, sender, displaced>>

MlServerStep(s) ==
    ConnectToMaster(s) \/ ConnectFails(s) \/ Reconnect(s) \/ LinkOpens(s) \/ LinkLost(s)
        \/ SendMasterHeartbeat(s) \/ StopServer(s) \/ CrashServer(s)

MlNext ==
    \/ \E s \in GameServers : MlServerStep(s)
    \/ \E l \in Links : HandleMasterPacket(l) \/ PeerGone(l) \/ MailLost(l)
    \/ Interval \/ PruneStaleServers \/ MasterRestarts

(***************************************************************************)
(* Fairness: both loops poll their host (main.cpp every 10 ms, Update on   *)
(* every server tick), ENet reports a dead link within its time-out, and   *)
(* the reconnect timer runs out.                                           *)
(***************************************************************************)

\* The other end of the link is gone.
DeadAtServer(s) == upAt[s] /\ peerOf[s] \notin open

MlFairness ==
    /\ \A s \in GameServers :
          /\ WF_mlVars(DeadAtServer(s) /\ LinkLost(s))
          /\ WF_mlVars(Reconnect(s))
          /\ WF_mlVars(LinkOpens(s) \/ (~upAt[s] /\ LinkLost(s)))
    /\ \A l \in Links : WF_mlVars(HandleMasterPacket(l))

MlSpec == MlInit /\ [][MlNext]_mlVars /\ MlFairness

(***************************************************************************)
(* Properties.                                                             *)
(***************************************************************************)

(* Types; the reconnect delay never exceeds its cap of 60 seconds. *)
MlTypeOK ==
    /\ running \subseteq GameServers /\ masterHost \subseteq running /\ displaced \subseteq GameServers
    /\ filedAs \in [GameServers -> Keys]
    /\ peerOf \in [GameServers -> Links \cup {NoLink}]
    /\ upAt \in [GameServers -> BOOLEAN]
    /\ delay \in [GameServers -> FirstDelay..MaxDelay]
    /\ sender \in Seq(GameServers)
    /\ open \subseteq 1..Len(sender)
    /\ DOMAIN listed \subseteq Keys
    /\ \A k \in DOMAIN listed :
          listed[k].peer \in Links /\ listed[k].silence \in 0..(SilenceLimit + 1)

(* A server whose link is alive at both ends and whose messages have       *)
(* arrived is on the list under its address and its present link: neither  *)
(* the late end of an older link (main.cpp DISCONNECT) nor the pruning     *)
(* takes it off.  The exception is another server that gave the same       *)
(* address: it takes the entry over, and takes it off when it ends.        *)
LiveListed ==
    \A s \in GameServers \ displaced :
        LiveLink(s) /\ mail[peerOf[s]] = <<>> =>
            /\ filedAs[s] \in DOMAIN listed
            /\ listed[filedAs[s]].peer = peerOf[s]

(* Nothing stays listed over a link the master has closed: a server that   *)
(* died, or whose link ended, leaves the list with it (main.cpp DISCONNECT)*)
(* although it never deregistered.                                         *)
NoOrphans == \A k \in DOMAIN listed : listed[k].peer \in open

(* The list holds the servers that are there and no others. *)
ListingRight == LiveListed /\ NoOrphans

(* A server that runs, has a host for the master and does not stop is      *)
(* listed again after a loss, or after the master's restart, as long as    *)
(* links can be opened, unless another server has displaced it: it never   *)
(* registers again over a link that is alive.                              *)
Relisted ==
    \A s \in GameServers :
        s \in masterHost ~> \/ s \notin masterHost
                            \/ filedAs[s] \in DOMAIN listed
                            \/ s \in displaced
                            \/ Len(sender) = LinkBound
=============================================================================
