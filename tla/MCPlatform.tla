----------------------------- MODULE MCPlatform -----------------------------
(***************************************************************************)
(* The parts below and beside a session, for TLC: the registry under calls *)
(* of any kind, the stub of one hook, start-up of one hook, the search for *)
(* one global, the server list and the server browser, the loading gate    *)
(* and the embedded server.                                                *)
(*                                                                         *)
(* The parts share no variable, so their interleavings add nothing: a      *)
(* behaviour is about one of them, its focus, and the others stay in one   *)
(* of their initial states.                                                *)
(***************************************************************************)
EXTENDS EntityRegistry, HookStub, HookStartup, GlobalPointers, MasterList, ServerBrowser,
        LoadingGate, EmbeddedHost, TLC

CONSTANTS Parts, s1, s2

VARIABLE focus

\* Two servers behind one router; s2 may be filed under another address.
MCPeerKey == s1 :> "p" @@ s2 :> "p"
MCOuterKey == s1 :> "p" @@ s2 :> "f"

vars == <<focus, registry, hsVars, hkVars, gpVars, mlVars, sbVars, lgVars, ehVars>>

MCInit ==
    /\ focus \in Parts
    /\ Init /\ HsInit /\ HkInit /\ GpInit /\ MlInit /\ SbInit /\ LgInit /\ EhInit
    /\ focus # "startup" => fn = "ItemDrop"
    /\ focus # "host" => ~taken
    /\ focus # "globals" =>
         /\ candidates = << >>
         /\ \A s \in Slots : mem[s] = "null"

\* With two servers: three links, the first one's before all, and both stay;
\* what the master sees of a server that goes is the end of its link.  The end
\* of the master and a start without a host are left to the server that is
\* alone.
Neighbourly ==
    /\ Len(sender') <= 3 /\ s1 \in masterHost'
    /\ running \subseteq running' /\ ~MasterRestarts /\ ~ConnectFails(s2)

MCNext ==
    /\ UNCHANGED focus
    /\ \/ focus = "registry" /\ Call   /\ UNCHANGED <<hsVars, hkVars, gpVars, mlVars, sbVars, lgVars, ehVars>>
       \/ focus = "stub"     /\ HsNext /\ UNCHANGED <<registry, hkVars, gpVars, mlVars, sbVars, lgVars, ehVars>>
       \/ focus = "startup"  /\ HkNext /\ UNCHANGED <<registry, hsVars, gpVars, mlVars, sbVars, lgVars, ehVars>>
       \/ focus = "globals"  /\ GpNext /\ UNCHANGED <<registry, hsVars, hkVars, mlVars, sbVars, lgVars, ehVars>>
       \/ focus = "master"   /\ MlNext /\ s2 \notin running'
                             /\ UNCHANGED <<registry, hsVars, hkVars, gpVars, sbVars, lgVars, ehVars>>
       \/ focus = "neighbours" /\ MlNext /\ Neighbourly
                             /\ UNCHANGED <<registry, hsVars, hkVars, gpVars, sbVars, lgVars, ehVars>>
       \/ focus = "browser"  /\ SbNext /\ UNCHANGED <<registry, hsVars, hkVars, gpVars, mlVars, lgVars, ehVars>>
       \/ focus = "gate"     /\ LgNext /\ UNCHANGED <<registry, hsVars, hkVars, gpVars, mlVars, sbVars, ehVars>>
       \/ focus = "host"     /\ EhNext /\ UNCHANGED <<registry, hsVars, hkVars, gpVars, mlVars, sbVars, lgVars>>

OfTheList == focus \in {"master", "neighbours"}

\* MlFairness, SbFairness, LgFairness and EhFairness, each for the behaviours about its part.
MCFairness ==
    /\ \A s \in GameServers :
         /\ WF_mlVars(OfTheList /\ DeadAtServer(s) /\ LinkLost(s))
         /\ WF_mlVars(OfTheList /\ Reconnect(s))
         /\ WF_mlVars(OfTheList /\ (LinkOpens(s) \/ (~upAt[s] /\ LinkLost(s))))
    /\ \A l \in Links : WF_mlVars(OfTheList /\ HandleMasterPacket(l))
    /\ WF_sbVars(focus = "browser" /\ Update)
    /\ \A q \in Queries :
         WF_sbVars(focus = "browser" /\ Update /\ q \in waiting /\ q \notin waiting')
    /\ WF_lgVars(focus = "gate" /\ TimePasses)
    /\ SF_lgVars(focus = "gate" /\ GateTick)
    /\ SF_lgVars(focus = "gate" /\ TestBegins)
    /\ WF_lgVars(focus = "gate" /\ (TestEnds \/ QueueServes(TRUE) \/ Blocked))
    /\ WF_ehVars(focus = "host" /\ WorkerStep)
    /\ WF_ehVars(focus = "host" /\ (Launch \/ JoinReturns))

MCSpec == MCInit /\ [][MCNext]_vars /\ MCFairness

\* The types of all parts, and with them their bounds: nesting depth, delays, peers.
PlatformTypeOK ==
    RegistryTypeOK /\ HsTypeOK /\ HkTypeOK /\ GpTypeOK /\ MlTypeOK /\ SbTypeOK /\ LgTypeOK /\ EhTypeOK

\* What is begun ends: a running server is listed again after any loss, and every
\* query of the browser is answered or given up.
PlatformSettles == Relisted /\ QueriesSettle /\ GateReopens /\ QueueServed /\ HostSettles

\* The browser's rows are right as well as the master's.
ListsRight == ListingRight /\ OneRowPerQuery
=============================================================================
