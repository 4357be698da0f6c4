--------------------------- MODULE ServerBrowser ---------------------------
(***************************************************************************)
(* The query client of the server browser (net/server_query.cpp), driven   *)
(* by the menu's REFRESH button (native_menu.cpp) and by the overlay,      *)
(* which calls Update on every frame.  A query occupies one of the peers   *)
(* of its ENet host.  The far end answers and then ends the connection;    *)
(* the peer is free again when Update has serviced that end, or when the   *)
(* client resets it.  Update services nothing while no query is pending.   *)
(***************************************************************************)
EXTENDS Naturals, FiniteSets

CONSTANTS Favourites,    \* servers queried directly
          Master,        \* the master server, which answers with a list
          PeerLimit,     \* peers of the query host (8 in the code)
          RefreshBound   \* how many times REFRESH is pressed

ASSUME BrowserAssumption ==
    /\ IsFiniteSet(Favourites) /\ Master \notin Favourites
    /\ PeerLimit \in Nat \ {0} /\ RefreshBound \in Nat

VARIABLES conn,         \* peers in use: query -> stage of its connection
          waiting,      \* m_pending
          active,       \* m_active
          rows,         \* m_results
          asked         \* how many times REFRESH was pressed

sbVars == <<conn, waiting, active, rows, asked>>

Queried == Favourites \cup {Master}

\* A query is a source and the press of REFRESH that asked for it.
Queries == Queried \X (1..RefreshBound)

(***************************************************************************)
(* Stages: connecting; connected (its event waits for Update); asking (the *)
(* query is sent); answered (the answer waits); closed (the answer and the *)
(* end wait); done (the answer was taken, the end is to come); ended (the  *)
(* end of a connection, answered long ago or never, waits).                *)
(***************************************************************************)
Stages == {"connecting", "connected", "asking", "answered", "closed", "done", "ended"}

SbInit ==
    /\ conn = <<>>
    /\ waiting = {} /\ active = FALSE
    /\ rows = {} /\ asked = 0

Restricted(qs) == [q \in qs |-> conn[q]]

ResultRow(q, isOnline) == [query |-> q, online |-> isOnline]

(* Clear: the peers of pending queries are reset and the results dropped.  *)
(* kept: the connections that are left; shown: the rows that are left.     *)
ClearQueries(kept, shown) == kept = DOMAIN conn \ waiting /\ shown = {}

(* Mutant of FreePeers: only the peers of pending queries count as used. *)
FreePeersOfPending(kept) == PeerLimit - Cardinality(kept \cap waiting)

\* enet_host_connect finds no peer when all are in use.
FreePeers(kept) == PeerLimit - Cardinality(kept)

(* OnRefreshServersClicked: Clear, unless a query is active; then the      *)
(* master (QueryMasterServer) and every favourite (QueryServer) is asked   *)
(* while peers are free.  A favourite without a peer is an offline row.    *)
OnRefreshServersClicked ==
    /\ asked < RefreshBound
    /\ asked' = asked + 1
    /\ \E kept \in SUBSET DOMAIN conn, shown \in SUBSET rows, served \in SUBSET Queried :
         LET free == FreePeers(kept)
             new  == served \X {asked + 1}
         IN /\ IF active THEN kept = DOMAIN conn /\ shown = rows ELSE ClearQueries(kept, shown)
            /\ Cardinality(served) = IF free < Cardinality(Queried) THEN free
                                                               ELSE Cardinality(Queried)
            /\ free > 0 => Master \in served
            /\ conn' = [q \in kept \cup new |-> IF q \in new THEN "connecting" ELSE conn[q]]
            /\ waiting' = (waiting \cap kept) \cup new
            /\ active' = (active \/ new # {})
            /\ rows' = shown \cup
                 {ResultRow(<<f, asked + 1>>, FALSE) : f \in Favourites \ served}

(***************************************************************************)
(* The network: a connection opens, the far end answers (HandleServerQuery *)
(* in server.cpp, HandleQueryList in the master) and ends it with          *)
(* enet_peer_disconnect_later; any connection can be lost.                 *)
(***************************************************************************)

Reaches(q, from, to) ==
    /\ q \in DOMAIN conn
    /\ conn[q] = from
    /\ conn' = [conn EXCEPT ![q] = to]
    /\ UNCHANGED <<waiting, active, rows, asked>>

ConnectionOpens(q) == Reaches(q, "connecting", "connected")

HandleServerQuery(q) == q[1] # Master /\ Reaches(q, "asking", "answered")

HandleQueryList(q) == q[1] = Master /\ Reaches(q, "asking", "answered")

FarEndCloses(q) == Reaches(q, "answered", "closed") \/ Reaches(q, "done", "ended")

ConnectionLost(q) ==
    \E from \in {"connecting", "connected", "asking", "done"} : Reaches(q, from, "ended")

(***************************************************************************)
(* Update.                                                                 *)
(***************************************************************************)

Answers == {q \in DOMAIN conn : conn[q] \in {"answered", "closed"}}

Ends == {q \in DOMAIN conn : conn[q] \in {"closed", "ended"}}

Served(st) == CASE st = "connected" -> "asking"
                [] st = "answered" -> "done"
                [] OTHER -> st

(* Mutant of Expirable: a connected peer never times out. *)
ExpirableUnconnected == {q \in waiting : conn[q] = "connecting"}

(* Pending queries that can be older than three seconds. *)
Expirable == waiting \ (Answers \cup Ends)

(* Mutant of Update: a query that timed out stays pending. *)
UpdateKeepsExpired ==
    /\ waiting # {}
    /\ \E late \in SUBSET Expirable :
         /\ conn' = [q \in DOMAIN conn \ Ends |-> Served(conn[q])]
         /\ waiting' = waiting \ (Answers \cup Ends)
         /\ rows' = rows \cup {ResultRow(q, TRUE) : q \in Answers \cap waiting}
                         \cup {ResultRow(q, FALSE) : q \in late}
         /\ active' = (waiting' # {})
    /\ UNCHANGED asked

(* All events that have arrived, then the time-outs.  The answer belongs   *)
(* to the pending query of its peer; an answer whose query is no longer    *)
(* pending is ignored.                                                     *)
Update ==
    /\ waiting # {}
    /\ \E late \in SUBSET Expirable :
         /\ conn' = [q \in DOMAIN conn \ (Ends \cup late) |-> Served(conn[q])]
         /\ waiting' = waiting \ (Answers \cup Ends \cup late)
         /\ rows' = rows \cup {ResultRow(q, TRUE) : q \in Answers \cap waiting}
                         \cup {ResultRow(q, FALSE) : q \in late}
         /\ active' = (waiting' # {})
    /\ UNCHANGED asked

SbNext ==
    \/ OnRefreshServersClicked
    \/ \E q \in Queries : ConnectionOpens(q) \/ HandleServerQuery(q) \/ HandleQueryList(q)
                             \/ FarEndCloses(q) \/ ConnectionLost(q)
    \/ Update

(* Fairness: Update runs on every frame, and after three seconds it takes  *)
(* a pending query as late.                                                *)
SbFairness ==
    /\ WF_sbVars(Update)
    /\ \A q \in Queries : WF_sbVars(Update /\ q \in waiting /\ q \notin waiting')

SbSpec == SbInit /\ [][SbNext]_sbVars /\ SbFairness

(***************************************************************************)
(* Properties.                                                             *)
(***************************************************************************)

(* Types; the host never has more connections than peers, and a pending    *)
(* query has its peer.                                                     *)
SbTypeOK ==
    /\ DOMAIN conn \subseteq Queries
    /\ \A q \in DOMAIN conn : conn[q] \in Stages
    /\ Cardinality(DOMAIN conn) <= PeerLimit
    /\ waiting \subseteq DOMAIN conn
    /\ rows \subseteq [query : Queries, online : BOOLEAN]
    /\ active \in BOOLEAN /\ asked \in 0..RefreshBound

(* A query has at most one row, none while it is pending, and every row    *)
(* belongs to a refresh since the results were last cleared: a late answer *)
(* never appears beside a time-out of the same query.                      *)
OneRowPerQuery ==
    \A r \in rows :
        /\ r.query \notin waiting
        /\ \A t \in rows : t.query = r.query => t = r

(* Every refresh comes to an end: nothing stays pending for ever. *)
QueriesSettle == \A q \in Queries : q \in waiting ~> q \notin waiting
=============================================================================
