------------------------- MODULE ClientSessionProofs -------------------------
(***************************************************************************)
(* Proofs about ClientSession, for every number of attempts and commands and *)
(* both settings of AutoConnect.                                             *)
(***************************************************************************)
EXTENDS ClientSession, CharacterCreation, FiniteSetTheorems, WellFoundedInduction, TLAPS

\* A retry is pending only while attempts are left, so the counter stays in range.
AttemptsInv ==
    /\ attempts \in 0 .. MaxAttempts
    /\ ov.retry => attempts < MaxAttempts

OverlayOK == ov \in Overlay

ClicksOK == clicks \in 0 .. ClickBound

\* An attempt the overlay watches, or is about to greet, is still without
\* handshake, and the overlay stops watching before it greets.
HandshakeInv ==
    /\ greeting # "twice"
    /\ ov.connecting \/ pc = "greet" => greeting = "none"
    /\ pc = "greet" => ~ov.connecting

\* The hand-over between the two threads: if both flags are set and the hooks
\* are still off, one of the threads has yet to read the other's flag.
CombatInv ==
    connected /\ gameLoaded =>
        combat \/ net = "ack2" \/ pc \in {"load2", "load3"}

\* A handler that runs belongs to a live, connected session.
SilentInv ==
    /\ wire = "open" => cConnected
    /\ net # "idle" => cConnected /\ connected
    /\ combat => connected

\* The handshake's late resume never meets a load: its phase write comes before
\* its read of gameLoaded, the load's re-check of the phase before its reset.
LightInv ==
    /\ gap # "none" => pc \in {"idle", "create", "drop", "close", "start", "fault"}
    /\ pc \in {"drop", "close"} => ret # "auto"
    /\ net \in {"ack4", "ack5"} /\ (gap # "none" \/ pc = "gap1")
           => phase = "Connected"
    /\ pc \in {"gap2", "gap3"} => ~gameLoaded /\ net # "ack5"
    /\ pc = "gap3" => passthrough
    /\ pc \in {"load3", "load4"} => phase # "Loading"
    /\ phase = "Loading" /\ pc # "load2" => ~gameLoaded /\ net # "ack5"
    /\ phase = "Loading" /\ pc \notin {"load1", "load2"} => passthrough

----------------------------------------------------------------------------

\* Every flag stays a Boolean.
LEMMA FlagsCorrect == Spec => []FlagsOK
<1>1. Init => FlagsOK
  BY DEF Init, FlagsOK
<1>2. FlagsOK /\ [Next]_vars => FlagsOK'
  <2>. SUFFICES ASSUME FlagsOK, [Next]_vars
                PROVE  FlagsOK'
    OBVIOUS
  <2>. USE DEF FlagsOK, vars, coreVars, clientVars, ovVars, hookVars, gameVars
  <2>1. CASE Present \/ GapResets \/ GapPassthrough \/ GapLoading
            \/ PollFound \/ PollNothing \/ AutoFires
    BY <2>1
    DEF Present, GapResets, GapPassthrough, GapLoading, PollFound,
        PollNothing, AutoFires, LoadingGap, AutoWaits, Attempt, CanConnect,
        ConnectAsync
  <2>2. CASE AutoPasses \/ RetryFires \/ RetryPasses \/ Established
            \/ NotEstablished \/ SendHandshake \/ AttemptFailed
    BY <2>2
    DEF AutoPasses, RetryFires, RetryPasses, Established, NotEstablished,
        SendHandshake, AttemptFailed, Attempt, CanConnect, ConnectAsync
  <2>3. CASE DetectLoss \/ TickFindsWorld \/ TickPasses \/ LoadedOnce
            \/ LoadedReady \/ LoadedResumes \/ LoadedConnects
    BY <2>3
    DEF DetectLoss, TickFindsWorld, TickPasses, LoadedOnce, LoadedReady,
        LoadedResumes, LoadedConnects, SetOffline, CanConnect,
        ConnectAsync
  <2>4. CASE CreateOffline \/ CreateReturns \/ MenuConnect
            \/ CommandConnect \/ CommandDisconnect \/ CommandSync
            \/ QueueAutoConnect
    BY <2>4
    DEF CreateOffline, CreateReturns, MenuConnect, CommandConnect,
        CommandDisconnect, CommandSync, QueueAutoConnect, Click,
        HandlerDone
  <2>5. CASE LoadSave \/ Disconnect \/ DisconnectEnds \/ StartConnect
            \/ NetConnect \/ NetDisconnect \/ Ack
    BY <2>5
    DEF LoadSave, Disconnect, DisconnectEnds, StartConnect, NetConnect,
        NetDisconnect, Ack, HandlerDone, Closed, SetOffline, Attempt,
        CanConnect, ConnectAsync
  <2>6. CASE Reject \/ AckCombat \/ AckPhase \/ AckReadsLoaded
            \/ AckResumes \/ WorldUp \/ Stall
    BY <2>6
    DEF Reject, AckCombat, AckPhase, AckReadsLoaded, AckResumes, WorldUp,
        Stall, HandlerDone
  <2>7. CASE UNCHANGED vars
    BY <2>7
  <2>. QED
    BY <2>1, <2>2, <2>3, <2>4, <2>5, <2>6, <2>7
    DEF Next, Frame, Handler, User
<1>. QED
  BY <1>1, <1>2, PTL DEF Spec

\* Phases, program counters and the external states stay in their sets.
LEMMA PlacesCorrect == Spec => []PlacesOK
<1>1. Init => PlacesOK
  BY DEF Init, PlacesOK, Phases, GamePc, NetPc
<1>2. PlacesOK /\ [Next]_vars => PlacesOK'
  <2>. SUFFICES ASSUME PlacesOK, [Next]_vars
                PROVE  PlacesOK'
    OBVIOUS
  <2>. USE DEF PlacesOK, Phases, GamePc, NetPc, vars, coreVars, clientVars, ovVars, hookVars, gameVars
  <2>1. CASE Present \/ GapResets \/ GapPassthrough \/ GapLoading
            \/ PollFound \/ PollNothing \/ AutoFires
    BY <2>1
    DEF Present, GapResets, GapPassthrough, GapLoading, PollFound,
        PollNothing, AutoFires, LoadingGap, AutoWaits, Attempt, CanConnect,
        ConnectAsync
  <2>2. CASE AutoPasses \/ RetryFires \/ RetryPasses \/ Established
            \/ NotEstablished \/ SendHandshake \/ AttemptFailed
    BY <2>2
    DEF AutoPasses, RetryFires, RetryPasses, Established, NotEstablished,
        SendHandshake, AttemptFailed, Attempt, CanConnect, ConnectAsync
  <2>3. CASE DetectLoss \/ TickFindsWorld \/ TickPasses \/ LoadedOnce
            \/ LoadedReady \/ LoadedResumes \/ LoadedConnects
    BY <2>3
    DEF DetectLoss, TickFindsWorld, TickPasses, LoadedOnce, LoadedReady,
        LoadedResumes, LoadedConnects, SetOffline, CanConnect,
        ConnectAsync
  <2>4. CASE CreateOffline \/ CreateReturns \/ MenuConnect
            \/ CommandConnect \/ CommandDisconnect \/ CommandSync
            \/ QueueAutoConnect
    BY <2>4
    DEF CreateOffline, CreateReturns, MenuConnect, CommandConnect,
        CommandDisconnect, CommandSync, QueueAutoConnect, Click,
        HandlerDone
  <2>5. CASE LoadSave \/ Disconnect \/ DisconnectEnds \/ StartConnect
            \/ NetConnect \/ NetDisconnect \/ Ack
    BY <2>5
    DEF LoadSave, Disconnect, DisconnectEnds, StartConnect, NetConnect,
        NetDisconnect, Ack, HandlerDone, Closed, SetOffline, Attempt,
        CanConnect, ConnectAsync
  <2>6. CASE Reject \/ AckCombat \/ AckPhase \/ AckReadsLoaded
            \/ AckResumes \/ WorldUp \/ Stall
    BY <2>6
    DEF Reject, AckCombat, AckPhase, AckReadsLoaded, AckResumes, WorldUp,
        Stall, HandlerDone
  <2>7. CASE UNCHANGED vars
    BY <2>7
  <2>. QED
    BY <2>1, <2>2, <2>3, <2>4, <2>5, <2>6, <2>7
    DEF Next, Frame, Handler, User
<1>. QED
  BY <1>1, <1>2, PTL DEF Spec

\* The user's commands are counted up to the bound.
LEMMA ClicksCorrect == Spec => []ClicksOK
<1>1. Init => ClicksOK
  BY SessionAssumption DEF Init, ClicksOK
<1>2. ClicksOK /\ [Next]_vars => ClicksOK'
  <2>. SUFFICES ASSUME ClicksOK, [Next]_vars
                PROVE  ClicksOK'
    OBVIOUS
  <2>. USE SessionAssumption DEF ClicksOK, vars, coreVars, clientVars, ovVars, hookVars, gameVars
  <2>1. CASE MenuConnect
    BY <2>1 DEF MenuConnect, Click, HandlerDone
  <2>2. CASE CommandConnect
    BY <2>2 DEF CommandConnect, Click, HandlerDone
  <2>3. CASE CommandDisconnect
    BY <2>3 DEF CommandDisconnect, Click, HandlerDone
  <2>4. CASE QueueAutoConnect
    BY <2>4 DEF QueueAutoConnect, Click, HandlerDone
  <2>5. CASE Present \/ GapResets \/ GapPassthrough \/ GapLoading
            \/ PollFound \/ PollNothing \/ AutoFires
    BY <2>5
    DEF Present, GapResets, GapPassthrough, GapLoading, PollFound,
        PollNothing, AutoFires, LoadingGap, AutoWaits, Attempt, CanConnect,
        ConnectAsync
  <2>6. CASE AutoPasses \/ RetryFires \/ RetryPasses \/ Established
            \/ NotEstablished \/ SendHandshake \/ AttemptFailed
    BY <2>6
    DEF AutoPasses, RetryFires, RetryPasses, Established, NotEstablished,
        SendHandshake, AttemptFailed, Attempt, CanConnect, ConnectAsync
  <2>7. CASE DetectLoss \/ TickFindsWorld \/ TickPasses \/ LoadedOnce
            \/ LoadedReady \/ LoadedResumes \/ LoadedConnects
    BY <2>7
    DEF DetectLoss, TickFindsWorld, TickPasses, LoadedOnce, LoadedReady,
        LoadedResumes, LoadedConnects, SetOffline, CanConnect,
        ConnectAsync
  <2>8. CASE CreateOffline \/ CreateReturns \/ CommandSync \/ LoadSave
            \/ Disconnect \/ DisconnectEnds \/ StartConnect
    BY <2>8
    DEF CreateOffline, CreateReturns, CommandSync, LoadSave, Disconnect,
        DisconnectEnds, StartConnect, HandlerDone, Closed, SetOffline,
        Attempt, CanConnect, ConnectAsync
  <2>9. CASE NetConnect \/ NetDisconnect \/ Ack \/ Reject \/ AckCombat
            \/ AckPhase \/ AckReadsLoaded
    BY <2>9
    DEF NetConnect, NetDisconnect, Ack, Reject, AckCombat, AckPhase,
        AckReadsLoaded
  <2>10. CASE AckResumes \/ WorldUp \/ Stall
    BY <2>10
    DEF AckResumes, WorldUp, Stall, HandlerDone
  <2>11. CASE UNCHANGED vars
    BY <2>11
  <2>. QED
    BY <2>1, <2>2, <2>3, <2>4, <2>5, <2>6, <2>7, <2>8, <2>9, <2>10, <2>11
    DEF Next, Frame, Handler, User
<1>. QED
  BY <1>1, <1>2, PTL DEF Spec

\* The overlay's flags stay Boolean.
LEMMA OverlayCorrect == Spec => []OverlayOK
<1>1. Init => OverlayOK
  BY DEF Init, OverlayOK, Overlay
<1>2. OverlayOK /\ [Next]_vars => OverlayOK'
  <2>. SUFFICES ASSUME OverlayOK, [Next]_vars
                PROVE  OverlayOK'
    OBVIOUS
  <2>. USE DEF OverlayOK, Overlay, vars, coreVars, clientVars, ovVars, hookVars, gameVars
  <2>1. CASE AutoFires
    BY <2>1 DEF AutoFires, AutoWaits, Attempt, CanConnect, ConnectAsync
  <2>2. CASE RetryFires
    BY <2>2 DEF RetryFires, Attempt, CanConnect, ConnectAsync
  <2>3. CASE StartConnect
    BY <2>3 DEF StartConnect, Attempt, CanConnect, ConnectAsync
  <2>4. CASE Established
    BY <2>4 DEF Established
  <2>5. CASE AttemptFailed
    BY <2>5 DEF AttemptFailed
  <2>6. CASE DetectLoss
    BY <2>6 DEF DetectLoss, SetOffline
  <2>7. CASE Disconnect
    BY <2>7 DEF Disconnect, Closed, SetOffline
  <2>8. CASE DisconnectEnds
    BY <2>8 DEF DisconnectEnds, Closed, SetOffline, HandlerDone
  <2>9. CASE MenuConnect
    BY <2>9 DEF MenuConnect, Click, HandlerDone
  <2>10. CASE CommandConnect
    BY <2>10 DEF CommandConnect, Click, HandlerDone
  <2>11. CASE QueueAutoConnect
    BY <2>11 DEF QueueAutoConnect, Click, HandlerDone
  <2>12. CASE Present \/ GapResets \/ GapPassthrough \/ GapLoading
            \/ PollFound \/ PollNothing \/ AutoPasses
    BY <2>12
    DEF Present, GapResets, GapPassthrough, GapLoading, PollFound,
        PollNothing, AutoPasses, LoadingGap
  <2>13. CASE RetryPasses \/ NotEstablished \/ SendHandshake
            \/ TickFindsWorld \/ TickPasses \/ LoadedOnce \/ LoadedReady
    BY <2>13
    DEF RetryPasses, NotEstablished, SendHandshake, TickFindsWorld,
        TickPasses, LoadedOnce, LoadedReady
  <2>14. CASE LoadedResumes \/ LoadedConnects \/ CreateOffline
            \/ CreateReturns \/ CommandDisconnect \/ CommandSync
            \/ LoadSave
    BY <2>14
    DEF LoadedResumes, LoadedConnects, CreateOffline, CreateReturns,
        CommandDisconnect, CommandSync, LoadSave, CanConnect, ConnectAsync,
        Click, HandlerDone
  <2>15. CASE NetConnect \/ NetDisconnect \/ Ack \/ Reject \/ AckCombat
            \/ AckPhase \/ AckReadsLoaded
    BY <2>15
    DEF NetConnect, NetDisconnect, Ack, Reject, AckCombat, AckPhase,
        AckReadsLoaded
  <2>16. CASE AckResumes \/ WorldUp \/ Stall
    BY <2>16
    DEF AckResumes, WorldUp, Stall, HandlerDone
  <2>17. CASE UNCHANGED vars
    BY <2>17
  <2>. QED
    BY <2>1, <2>2, <2>3, <2>4, <2>5, <2>6, <2>7, <2>8, <2>9, <2>10, <2>11, <2>12, <2>13, <2>14, <2>15, <2>16, <2>17
    DEF Next, Frame, Handler, User
<1>. QED
  BY <1>1, <1>2, PTL DEF Spec

\* All state keeps its type; in particular the attempt counter of
\* Overlay::Update never exceeds m_maxConnectAttempts.
THEOREM SessionTypeCorrect == Spec => []SessionTypeOK
<1>1. Init => AttemptsInv
  BY SessionAssumption DEF Init, AttemptsInv
<1>2. OverlayOK /\ AttemptsInv /\ [Next]_vars => AttemptsInv'
  <2>. SUFFICES ASSUME OverlayOK, AttemptsInv, [Next]_vars
                PROVE  AttemptsInv'
    OBVIOUS
  <2>. USE SessionAssumption DEF AttemptsInv, OverlayOK, Overlay, vars, coreVars, clientVars, ovVars, hookVars, gameVars
  <2>1. CASE RetryFires
    <3>1. ~ov'.retry
      BY <2>1 DEF RetryFires, Attempt
    <3>2. attempts' \in 0 .. MaxAttempts
      BY <2>1 DEF RetryFires
    <3>. QED
      BY <3>1, <3>2
  <2>2. CASE AutoFires
    BY <2>2 DEF AutoFires, AutoWaits, Attempt, CanConnect, ConnectAsync
  <2>3. CASE StartConnect
    BY <2>3 DEF StartConnect, Attempt, CanConnect, ConnectAsync
  <2>4. CASE AttemptFailed
    BY <2>4 DEF AttemptFailed
  <2>5. CASE Established
    BY <2>5 DEF Established
  <2>6. CASE DetectLoss
    BY <2>6 DEF DetectLoss, SetOffline
  <2>7. CASE Disconnect
    BY <2>7 DEF Disconnect, Closed, SetOffline
  <2>8. CASE DisconnectEnds
    BY <2>8 DEF DisconnectEnds, Closed, SetOffline, HandlerDone
  <2>9. CASE MenuConnect
    BY <2>9 DEF MenuConnect, Click, HandlerDone
  <2>10. CASE CommandConnect
    BY <2>10 DEF CommandConnect, Click, HandlerDone
  <2>11. CASE QueueAutoConnect
    BY <2>11 DEF QueueAutoConnect, Click, HandlerDone
  <2>12. CASE LoadedConnects
    BY <2>12 DEF LoadedConnects, CanConnect, ConnectAsync
  <2>13. CASE SendHandshake
    BY <2>13 DEF SendHandshake
  <2>14. CASE Present \/ GapResets \/ GapPassthrough \/ GapLoading
            \/ PollFound \/ PollNothing \/ AutoPasses
    BY <2>14
    DEF Present, GapResets, GapPassthrough, GapLoading, PollFound,
        PollNothing, AutoPasses, LoadingGap
  <2>15. CASE RetryPasses \/ NotEstablished \/ TickFindsWorld \/ TickPasses
            \/ LoadedOnce \/ LoadedReady \/ LoadedResumes
    BY <2>15
    DEF RetryPasses, NotEstablished, TickFindsWorld, TickPasses,
        LoadedOnce, LoadedReady, LoadedResumes
  <2>16. CASE CreateOffline \/ CreateReturns \/ CommandDisconnect
            \/ CommandSync \/ LoadSave \/ NetConnect \/ NetDisconnect
    BY <2>16
    DEF CreateOffline, CreateReturns, CommandDisconnect, CommandSync,
        LoadSave, NetConnect, NetDisconnect, Click, HandlerDone
  <2>17. CASE Ack \/ Reject \/ AckCombat \/ AckPhase \/ AckReadsLoaded
            \/ AckResumes \/ WorldUp
    BY <2>17
    DEF Ack, Reject, AckCombat, AckPhase, AckReadsLoaded, AckResumes,
        WorldUp
  <2>18. CASE Stall
    BY <2>18
    DEF Stall, HandlerDone
  <2>19. CASE UNCHANGED vars
    BY <2>19
  <2>. QED
    BY <2>1, <2>2, <2>3, <2>4, <2>5, <2>6, <2>7, <2>8, <2>9, <2>10, <2>11, <2>12, <2>13, <2>14, <2>15, <2>16, <2>17, <2>18, <2>19
    DEF Next, Frame, Handler, User
<1>3. AttemptsInv /\ OverlayOK /\ ClicksOK /\ FlagsOK /\ PlacesOK => SessionTypeOK
  BY DEF AttemptsInv, OverlayOK, ClicksOK, SessionTypeOK
<1>. QED
  BY <1>1, <1>2, <1>3, FlagsCorrect, PlacesCorrect, ClicksCorrect,
     OverlayCorrect, PTL DEF Spec

\* Overlay::Update greets a link once, however attempts, retries, queued
\* auto-connects and commands follow each other.
THEOREM GreetedOnce == Spec => []OneHandshake
<1>1. Init => HandshakeInv
  BY DEF Init, HandshakeInv
<1>2. SessionTypeOK /\ HandshakeInv /\ [Next]_vars => HandshakeInv'
  <2>. SUFFICES ASSUME SessionTypeOK, HandshakeInv, [Next]_vars
                PROVE  HandshakeInv'
    OBVIOUS
  <2>. USE DEF SessionTypeOK, FlagsOK, PlacesOK, HandshakeInv, Overlay, vars, coreVars, clientVars, ovVars, hookVars, gameVars
  <2>1. CASE AutoFires
    BY <2>1 DEF AutoFires, AutoWaits, Attempt, CanConnect, ConnectAsync
  <2>2. CASE RetryFires
    BY <2>2 DEF RetryFires, Attempt, CanConnect, ConnectAsync
  <2>3. CASE StartConnect
    BY <2>3 DEF StartConnect, Attempt, CanConnect, ConnectAsync
  <2>4. CASE LoadedConnects
    BY <2>4 DEF LoadedConnects, CanConnect, ConnectAsync
  <2>5. CASE Established
    BY <2>5 DEF Established
  <2>6. CASE SendHandshake
    BY <2>6 DEF SendHandshake
  <2>7. CASE AttemptFailed
    BY <2>7 DEF AttemptFailed
  <2>8. CASE DetectLoss
    BY <2>8 DEF DetectLoss, SetOffline
  <2>9. CASE Disconnect
    BY <2>9 DEF Disconnect, Closed, SetOffline
  <2>10. CASE DisconnectEnds
    BY <2>10 DEF DisconnectEnds, Closed, SetOffline, HandlerDone
  <2>11. CASE Ack
    BY <2>11 DEF Ack
  <2>12. CASE Reject
    BY <2>12 DEF Reject
  <2>13. CASE NetDisconnect
    BY <2>13 DEF NetDisconnect
  <2>14. CASE MenuConnect
    BY <2>14 DEF MenuConnect, Click, HandlerDone
  <2>15. CASE CommandConnect
    BY <2>15 DEF CommandConnect, Click, HandlerDone
  <2>16. CASE QueueAutoConnect
    BY <2>16 DEF QueueAutoConnect, Click, HandlerDone
  <2>17. CASE Present \/ GapResets \/ GapPassthrough \/ GapLoading
            \/ PollFound \/ PollNothing \/ AutoPasses
    BY <2>17
    DEF Present, GapResets, GapPassthrough, GapLoading, PollFound,
        PollNothing, AutoPasses, LoadingGap
  <2>18. CASE RetryPasses \/ NotEstablished \/ TickFindsWorld \/ TickPasses
            \/ LoadedOnce \/ LoadedReady \/ LoadedResumes
    BY <2>18
    DEF RetryPasses, NotEstablished, TickFindsWorld, TickPasses,
        LoadedOnce, LoadedReady, LoadedResumes
  <2>19. CASE CreateOffline \/ CreateReturns \/ CommandDisconnect
            \/ CommandSync \/ LoadSave \/ NetConnect \/ AckCombat
    BY <2>19
    DEF CreateOffline, CreateReturns, CommandDisconnect, CommandSync,
        LoadSave, NetConnect, AckCombat, Click, HandlerDone
  <2>20. CASE AckPhase \/ AckReadsLoaded \/ AckResumes \/ WorldUp \/ Stall
    BY <2>20
    DEF AckPhase, AckReadsLoaded, AckResumes, WorldUp, Stall, HandlerDone
  <2>21. CASE UNCHANGED vars
    BY <2>21
  <2>. QED
    BY <2>1, <2>2, <2>3, <2>4, <2>5, <2>6, <2>7, <2>8, <2>9, <2>10, <2>11, <2>12, <2>13, <2>14, <2>15, <2>16, <2>17, <2>18, <2>19, <2>20, <2>21
    DEF Next, Frame, Handler, User
<1>3. HandshakeInv => OneHandshake
  BY DEF HandshakeInv, OneHandshake
<1>. QED
  BY <1>1, <1>2, <1>3, SessionTypeCorrect, PTL DEF Spec

\* SetConnected(true) on the network thread and OnGameLoaded on the game thread
\* never both miss the other: a connected client in a loaded world has its combat
\* hooks, in every interleaving, handlers of any length included.
THEOREM CombatEnabled == Spec => []CombatWhenPlaying
<1>1. Init => CombatInv
  BY DEF Init, CombatInv
<1>2. SessionTypeOK /\ CombatInv /\ [Next]_vars => CombatInv'
  <2>. SUFFICES ASSUME SessionTypeOK, CombatInv, [Next]_vars
                PROVE  CombatInv'
    OBVIOUS
  <2>. USE DEF SessionTypeOK, FlagsOK, CombatInv, vars, coreVars, clientVars, ovVars, hookVars, gameVars
  <2>1. CASE GapResets
    BY <2>1 DEF GapResets
  <2>2. CASE LoadedOnce
    BY <2>2 DEF LoadedOnce
  <2>3. CASE LoadedReady
    BY <2>3 DEF LoadedReady
  <2>4. CASE LoadedResumes
    BY <2>4 DEF LoadedResumes
  <2>5. CASE DetectLoss
    BY <2>5 DEF DetectLoss, SetOffline
  <2>6. CASE Disconnect
    BY <2>6 DEF Disconnect, Closed, SetOffline
  <2>7. CASE DisconnectEnds
    <3>1. CASE Closed
      BY <3>1 DEF Closed, SetOffline
    <3>2. CASE wire = "closed" /\ pc' = "fault" /\ UNCHANGED <<coreVars, hookVars>>
      BY <2>7, <3>2 DEF DisconnectEnds
    <3>. QED
      BY <2>7, <3>1, <3>2 DEF DisconnectEnds
  <2>8. CASE Ack
    BY <2>8 DEF Ack
  <2>9. CASE AckCombat
    BY <2>9 DEF AckCombat
  <2>10. CASE AutoFires
    BY <2>10 DEF AutoFires, AutoWaits, Attempt, CanConnect, ConnectAsync
  <2>11. CASE RetryFires
    BY <2>11 DEF RetryFires, Attempt, CanConnect, ConnectAsync
  <2>12. CASE StartConnect
    BY <2>12 DEF StartConnect, Attempt, CanConnect, ConnectAsync
  <2>13. CASE Present \/ GapPassthrough \/ GapLoading \/ PollFound
            \/ PollNothing \/ AutoPasses \/ RetryPasses
    BY <2>13
    DEF Present, GapPassthrough, GapLoading, PollFound, PollNothing,
        AutoPasses, RetryPasses, LoadingGap
  <2>14. CASE Established \/ NotEstablished \/ SendHandshake
            \/ AttemptFailed \/ TickFindsWorld \/ TickPasses
            \/ LoadedConnects
    BY <2>14
    DEF Established, NotEstablished, SendHandshake, AttemptFailed,
        TickFindsWorld, TickPasses, LoadedConnects, CanConnect,
        ConnectAsync
  <2>15. CASE CreateOffline \/ CreateReturns \/ MenuConnect
            \/ CommandConnect \/ CommandDisconnect \/ CommandSync
            \/ QueueAutoConnect
    BY <2>15
    DEF CreateOffline, CreateReturns, MenuConnect, CommandConnect,
        CommandDisconnect, CommandSync, QueueAutoConnect, Click,
        HandlerDone
  <2>16. CASE LoadSave \/ NetConnect \/ NetDisconnect \/ Reject \/ AckPhase
            \/ AckReadsLoaded \/ AckResumes
    BY <2>16
    DEF LoadSave, NetConnect, NetDisconnect, Reject, AckPhase,
        AckReadsLoaded, AckResumes, HandlerDone
  <2>17. CASE WorldUp \/ Stall
    BY <2>17
    DEF WorldUp, Stall, HandlerDone
  <2>18. CASE UNCHANGED vars
    BY <2>18
  <2>. QED
    BY <2>1, <2>2, <2>3, <2>4, <2>5, <2>6, <2>7, <2>8, <2>9, <2>10, <2>11, <2>12, <2>13, <2>14, <2>15, <2>16, <2>17, <2>18
    DEF Next, Frame, Handler, User
<1>3. CombatInv => CombatWhenPlaying
  BY DEF CombatInv, CombatWhenPlaying, Quiet
<1>. QED
  BY <1>1, <1>2, <1>3, SessionTypeCorrect, PTL DEF Spec

\* When handlers are short against stalls and commands, a handler only runs in
\* a live session.
LEMMA HandlersLive ==
    ASSUME ~HandlersOverlap
    PROVE  Spec => []SilentInv
<1>1. Init => SilentInv
  BY DEF Init, SilentInv
<1>2. FlagsOK /\ SilentInv /\ [Next]_vars => SilentInv'
  <2>. SUFFICES ASSUME FlagsOK, SilentInv, [Next]_vars
                PROVE  SilentInv'
    OBVIOUS
  <2>. USE DEF FlagsOK, SilentInv, vars, coreVars, clientVars, ovVars, hookVars, gameVars
  <2>1. CASE LoadedResumes
    BY <2>1 DEF LoadedResumes
  <2>2. CASE LoadedConnects
    BY <2>2 DEF LoadedConnects, CanConnect, ConnectAsync
  <2>3. CASE DetectLoss
    BY <2>3 DEF DetectLoss, SetOffline
  <2>4. CASE Disconnect
    BY <2>4 DEF Disconnect, Closed, SetOffline
  <2>5. CASE DisconnectEnds
    BY <2>5 DEF DisconnectEnds, Closed, SetOffline, HandlerDone
  <2>6. CASE NetConnect
    BY <2>6 DEF NetConnect
  <2>7. CASE NetDisconnect
    BY <2>7 DEF NetDisconnect
  <2>8. CASE Ack
    BY <2>8 DEF Ack
  <2>9. CASE AckCombat
    BY <2>9 DEF AckCombat
  <2>10. CASE AutoFires
    BY <2>10 DEF AutoFires, AutoWaits, Attempt, CanConnect, ConnectAsync
  <2>11. CASE RetryFires
    BY <2>11 DEF RetryFires, Attempt, CanConnect, ConnectAsync
  <2>12. CASE StartConnect
    BY <2>12 DEF StartConnect, Attempt, CanConnect, ConnectAsync
  <2>13. CASE Present \/ GapResets \/ GapPassthrough \/ GapLoading
            \/ PollFound \/ PollNothing \/ AutoPasses
    BY <2>13
    DEF Present, GapResets, GapPassthrough, GapLoading, PollFound,
        PollNothing, AutoPasses, LoadingGap
  <2>14. CASE RetryPasses \/ Established \/ NotEstablished \/ SendHandshake
            \/ AttemptFailed \/ TickFindsWorld \/ TickPasses
    BY <2>14
    DEF RetryPasses, Established, NotEstablished, SendHandshake,
        AttemptFailed, TickFindsWorld, TickPasses
  <2>15. CASE LoadedOnce \/ LoadedReady \/ CreateOffline \/ CreateReturns
            \/ MenuConnect \/ CommandConnect \/ CommandDisconnect
    BY <2>15
    DEF LoadedOnce, LoadedReady, CreateOffline, CreateReturns, MenuConnect,
        CommandConnect, CommandDisconnect, Click, HandlerDone
  <2>16. CASE CommandSync \/ QueueAutoConnect \/ LoadSave \/ Reject
            \/ AckPhase \/ AckReadsLoaded \/ AckResumes
    BY <2>16
    DEF CommandSync, QueueAutoConnect, LoadSave, Reject, AckPhase,
        AckReadsLoaded, AckResumes, HandlerDone, Click
  <2>17. CASE WorldUp \/ Stall
    BY <2>17
    DEF WorldUp, Stall, HandlerDone
  <2>18. CASE UNCHANGED vars
    BY <2>18
  <2>. QED
    BY <2>1, <2>2, <2>3, <2>4, <2>5, <2>6, <2>7, <2>8, <2>9, <2>10, <2>11, <2>12, <2>13, <2>14, <2>15, <2>16, <2>17, <2>18
    DEF Next, Frame, Handler, User
<1>. QED
  BY <1>1, <1>2, FlagsCorrect, PTL DEF Spec

\* Then every way of losing a session leaves the combat hooks off.
THEOREM OfflineIsSilent ==
    ASSUME ~HandlersOverlap
    PROVE  Spec => []SilentWhenOffline
<1>1. SilentInv => SilentWhenOffline
  BY DEF SilentInv, SilentWhenOffline
<1>. QED
  BY <1>1, HandlersLive, PTL

\* Under the same assumption no handshake, resume or sync command takes the
\* creation hook out of passthrough while a save is being loaded.
THEOREM LoadsAreLight ==
    ASSUME ~HandlersOverlap
    PROVE  Spec => []LoadingIsLight
<1>1. Init => LightInv
  BY DEF Init, LightInv
<1>2. PlacesOK /\ SilentInv /\ LightInv /\ [Next]_vars => LightInv'
  <2>. SUFFICES ASSUME PlacesOK, SilentInv, LightInv, [Next]_vars
                PROVE  LightInv'
    OBVIOUS
  <2>. USE DEF PlacesOK, SilentInv, LightInv, vars, coreVars, clientVars, ovVars, hookVars, gameVars
  <2>1. CASE Present
    BY <2>1 DEF Present, LoadingGap
  <2>2. CASE LoadSave
    BY <2>2 DEF LoadSave, HandlerDone
  <2>3. CASE Stall
    BY <2>3 DEF Stall, HandlerDone
  <2>4. CASE GapResets
    BY <2>4 DEF GapResets
  <2>5. CASE GapPassthrough
    BY <2>5 DEF GapPassthrough
  <2>6. CASE GapLoading
    BY <2>6 DEF GapLoading
  <2>7. CASE PollFound
    BY <2>7 DEF PollFound
  <2>8. CASE LoadedOnce
    BY <2>8 DEF LoadedOnce
  <2>9. CASE LoadedReady
    BY <2>9 DEF LoadedReady
  <2>10. CASE LoadedResumes
    BY <2>10 DEF LoadedResumes
  <2>11. CASE LoadedConnects
    BY <2>11 DEF LoadedConnects, CanConnect, ConnectAsync
  <2>12. CASE CommandSync
    BY <2>12 DEF CommandSync, HandlerDone
  <2>13. CASE DetectLoss
    BY <2>13 DEF DetectLoss, SetOffline
  <2>14. CASE Disconnect
    <3>1. CASE ~cConnected /\ Closed
      <4>. net = "idle" /\ net' = "idle" /\ gap' = gap /\ pc' = ret
        BY <2>14, <3>1 DEF Disconnect, Closed
      <4>. passthrough' = TRUE /\ gameLoaded' = gameLoaded
           /\ phase' = IF gameLoaded THEN "GameReady" ELSE phase
        BY <3>1 DEF Closed, SetOffline
      <4>. QED
        BY <2>14 DEF Disconnect
    <3>2. CASE cConnected /\ pc' = "close" /\ UNCHANGED <<coreVars, hookVars>>
      BY <2>14, <3>2 DEF Disconnect
    <3>. QED
      BY <2>14, <3>1, <3>2 DEF Disconnect
  <2>15. CASE DisconnectEnds
    <3>1. net = "idle" /\ net' = "idle" /\ gap' = gap
      BY <2>15 DEF DisconnectEnds, HandlerDone
    <3>2. CASE Closed
      <4>. pc' = ret /\ passthrough' = TRUE /\ gameLoaded' = gameLoaded
           /\ phase' = IF gameLoaded THEN "GameReady" ELSE phase
        BY <3>2 DEF Closed, SetOffline
      <4>. QED
        BY <2>15, <3>1 DEF DisconnectEnds
    <3>3. CASE pc' = "fault" /\ UNCHANGED <<coreVars, hookVars>>
      BY <2>15, <3>1, <3>3 DEF DisconnectEnds
    <3>. QED
      BY <2>15, <3>2, <3>3 DEF DisconnectEnds
  <2>16. CASE Ack
    BY <2>16 DEF Ack
  <2>17. CASE AckPhase
    BY <2>17 DEF AckPhase
  <2>18. CASE AckReadsLoaded
    BY <2>18 DEF AckReadsLoaded
  <2>19. CASE AckResumes
    BY <2>19 DEF AckResumes
  <2>20. CASE Reject
    BY <2>20 DEF Reject
  <2>21. CASE AutoFires
    BY <2>21 DEF AutoFires, AutoWaits, Attempt, CanConnect, ConnectAsync
  <2>22. CASE RetryFires
    BY <2>22 DEF RetryFires, Attempt, CanConnect, ConnectAsync
  <2>23. CASE StartConnect
    BY <2>23 DEF StartConnect, Attempt, CanConnect, ConnectAsync
  <2>24. CASE PollNothing \/ AutoPasses \/ RetryPasses \/ Established
            \/ NotEstablished \/ SendHandshake \/ AttemptFailed
    BY <2>24
    DEF PollNothing, AutoPasses, RetryPasses, Established, NotEstablished,
        SendHandshake, AttemptFailed
  <2>25. CASE TickFindsWorld \/ TickPasses \/ CreateOffline \/ CreateReturns
            \/ MenuConnect \/ CommandConnect \/ CommandDisconnect
    BY <2>25
    DEF TickFindsWorld, TickPasses, CreateOffline, CreateReturns,
        MenuConnect, CommandConnect, CommandDisconnect, Click, HandlerDone
  <2>26. CASE QueueAutoConnect \/ NetConnect \/ NetDisconnect \/ AckCombat
            \/ WorldUp
    BY <2>26
    DEF QueueAutoConnect, NetConnect, NetDisconnect, AckCombat, WorldUp,
        Click, HandlerDone
  <2>27. CASE UNCHANGED vars
    BY <2>27
  <2>. QED
    BY <2>1, <2>2, <2>3, <2>4, <2>5, <2>6, <2>7, <2>8, <2>9, <2>10, <2>11, <2>12, <2>13, <2>14, <2>15, <2>16, <2>17, <2>18, <2>19, <2>20, <2>21, <2>22, <2>23, <2>24, <2>25, <2>26, <2>27
    DEF Next, Frame, Handler, User
<1>3. LightInv => LoadingIsLight
  BY DEF LightInv, LoadingIsLight, Quiet
<1>. QED
  BY <1>1, <1>2, <1>3, HandlersLive, PlacesCorrect, PTL DEF Spec

\* Together: without overlapping handlers the hooks follow the session.
THEOREM HooksFollow ==
    ASSUME ~HandlersOverlap
    PROVE  Spec => []HooksFollowSession
<1>1. CombatWhenPlaying /\ SilentWhenOffline /\ LoadingIsLight => HooksFollowSession
  BY DEF HooksFollowSession
<1>. QED
  BY <1>1, CombatEnabled, OfflineIsSilent, LoadsAreLight, PTL

-----------------------------------------------------------------------------
(* The creation of characters: types and the vote.                         *)

Pointers == Factions \cup {NoFac, Stale}

Candidates == [fac : Factions \cup {Stale}, score : Nat, named : BOOLEAN]

HookTypes ==
    /\ passes \in BOOLEAN /\ capsDone \in BOOLEAN /\ captured \in BOOLEAN /\ late \in BOOLEAN
    /\ smFactory \in BOOLEAN /\ gameReady \in BOOLEAN /\ online \in BOOLEAN /\ acking \in BOOLEAN
    /\ squadDone \in BOOLEAN /\ resetDue \in BOOLEAN
    /\ early \in Pointers /\ fallback \in Pointers /\ local \in Pointers
    /\ creates \in 0 .. CreateBound
    /\ retries \in 0 .. ScanRetries - 1
    /\ stage \in {"menu", "loading", "ready"}
    /\ call \in {"none", "loaded", "voting", "burst", "full"}

\* A vote that goes on has room in its window.
VoteTypes ==
    /\ scan = [cands |-> scan.cands, count |-> scan.count, done |-> scan.done]
    /\ scan.cands \in Seq(Candidates) /\ Len(scan.cands) <= MaxCand
    /\ scan.count \in 0 .. ScanWindow /\ scan.done \in BOOLEAN
    /\ ~scan.done => scan.count < ScanWindow

LEMMA FactionsApart ==
    /\ NoFac \notin Factions /\ Stale \notin Factions /\ NoFac # Stale
    /\ NoFac \in Pointers /\ Factions \subseteq Pointers
BY CreationAssumption DEF Factions, Pointers

LEMMA BoundsAreNumbers ==
    /\ ScanWindow \in Nat /\ ScanWindow > 0 /\ MaxCand \in Nat /\ MaxCand > 0
    /\ ScanRetries \in Nat /\ ScanRetries > 0
    /\ NameBonus \in Nat /\ SafetyLimit \in Nat /\ CreateBound \in Nat
<1>1. \A n \in Nat \ {0} : n \in Nat /\ n > 0
  OBVIOUS
<1>2. ScanWindow \in Nat \ {0} /\ MaxCand \in Nat \ {0} /\ ScanRetries \in Nat \ {0}
  BY CreationAssumption
<1>3. NameBonus \in Nat /\ SafetyLimit \in Nat /\ CreateBound \in Nat
  BY CreationAssumption
<1> QED
  BY <1>1, <1>2, <1>3

\* A vote is a candidate more, as long as there is room, or a higher score.
LEMMA RecordedVotes ==
    ASSUME NEW cands \in Seq(Candidates), Len(cands) <= MaxCand, NEW f \in Factions \cup {Stale},
           NEW named \in BOOLEAN
    PROVE  /\ RecordFactionVote(cands, f, named) \in Seq(Candidates)
           /\ Len(RecordFactionVote(cands, f, named)) <= MaxCand
<1> DEFINE points == 1 + (IF named THEN NameBonus ELSE 0)
           at == {i \in DOMAIN cands : cands[i].fac = f}
           up(i) == [cands[i] EXCEPT !.score = @ + points, !.named = @ \/ named]
<1>1. points \in Nat /\ MaxCand \in Nat /\ Len(cands) \in Nat
  BY BoundsAreNumbers
<1> HIDE DEF points
<1>2. CASE at # {}
  <2>1. RecordFactionVote(cands, f, named) = [i \in DOMAIN cands |-> IF i \in at THEN up(i) ELSE cands[i]]
    BY <1>2 DEF RecordFactionVote, points
  <2>2. ASSUME NEW i \in DOMAIN cands PROVE up(i) \in Candidates /\ cands[i] \in Candidates
    <3>1. cands[i] \in Candidates
      OBVIOUS
    <3>2. (cands[i].named \/ named) \in BOOLEAN
      OBVIOUS
    <3>3. cands[i].score + points \in Nat
      BY <1>1, <3>1 DEF Candidates
    <3> QED
      BY <3>1, <3>2, <3>3 DEF Candidates
  <2> HIDE DEF up, at
  <2>3. DOMAIN cands = 1 .. Len(cands)
    OBVIOUS
  <2> QED
    BY <1>1, <2>1, <2>2, <2>3
<1>3. CASE at = {} /\ Len(cands) < MaxCand
  <2>1. RecordFactionVote(cands, f, named) = Append(cands, [fac |-> f, score |-> points, named |-> named])
    BY <1>3 DEF RecordFactionVote, points
  <2>2. [fac |-> f, score |-> points, named |-> named] \in Candidates
    BY <1>1 DEF Candidates
  <2> QED
    BY <1>1, <1>3, <2>1, <2>2
<1>4. CASE at = {} /\ ~(Len(cands) < MaxCand)
  BY <1>4 DEF RecordFactionVote
<1> QED
  BY <1>2, <1>3, <1>4

LEMMA VotesAreCandidates ==
    ASSUME NEW cands \in Seq(Candidates), Len(cands) <= MaxCand, NEW f \in Factions \cup {NoFac},
           NEW named \in BOOLEAN
    PROVE  Votes(cands, f, named) \in Seq(Candidates) /\ Len(Votes(cands, f, named)) <= MaxCand
<1>1. CASE f = NoFac
  BY <1>1 DEF Votes
<1>2. CASE f # NoFac
  <2> DEFINE once  == IF Flagged(f) THEN RecordFactionVote(cands, f, FALSE) ELSE cands
             twice == IF Flagged(f) THEN RecordFactionVote(once, f, FALSE) ELSE once
  <2>1. Votes(cands, f, named) = RecordFactionVote(twice, f, named)
    BY <1>2 DEF Votes
  <2>2. f \in Factions \cup {Stale} /\ FALSE \in BOOLEAN
    BY <1>2
  <2>3. once \in Seq(Candidates) /\ Len(once) <= MaxCand
    BY <2>2, RecordedVotes
  <2> HIDE DEF once
  <2>4. twice \in Seq(Candidates) /\ Len(twice) <= MaxCand
    BY <2>2, <2>3, RecordedVotes
  <2> HIDE DEF twice
  <2> QED
    BY <2>1, <2>2, <2>4, RecordedVotes
<1> QED
  BY <1>1, <1>2

\* Every set of numbers that is not empty has a least one: among the intervals
\* up to its members, which are finite, one contains no other.
LEMMA LeastNumber ==
    ASSUME NEW T, T \subseteq Nat, T # {}
    PROVE  \E x \in T : \A y \in T : x <= y
<1> DEFINE F == {0 .. n : n \in T}
           R == StrictSubsetOrdering(Nat)
<1>1. F # {} /\ F \subseteq FiniteSubsetsOf(Nat)
  <2>1. F # {}
    OBVIOUS
  <2>2. ASSUME NEW n \in T PROVE (0 .. n) \in FiniteSubsetsOf(Nat)
    <3>1. n \in Int /\ 0 \in Int /\ 0 .. n \subseteq Nat
      OBVIOUS
    <3>2. IsFiniteSet(0 .. n)
      BY <3>1, FS_Interval
    <3> QED BY <3>1, <3>2 DEF FiniteSubsetsOf
  <2> QED BY <2>1, <2>2
<1>2. IsWellFoundedOn(R, FiniteSubsetsOf(Nat))
  BY FS_StrictSubsetOrderingWellFounded
<1> HIDE DEF F, R
<1>3. PICK X \in F : \A Y \in F : ~(<<Y, X>> \in R)
  BY <1>1, <1>2, WFMin
<1>4. PICK x \in T : X = 0 .. x
  BY DEF F
<1>5. ASSUME NEW y \in T, y < x PROVE FALSE
  <2>1. (0 .. y) \in F
    BY DEF F
  <2>2. 0 .. y \subseteq 0 .. x /\ 0 .. y # 0 .. x /\ 0 .. x \subseteq Nat
    <3>1. x \in 0 .. x /\ x \notin 0 .. y
      BY <1>5
    <3> QED BY <1>5, <3>1
  <2>3. <<0 .. y, X>> \in R
    BY <1>4, <2>2 DEF R, StrictSubsetOrdering
  <2> QED BY <1>3, <2>1, <2>3
<1> QED
  BY <1>5

\* Who is elected was a candidate.
LEMMA ElectedIsPointer ==
    ASSUME NEW cands \in Seq(Candidates), early \in Pointers, NEW s, s.cands = cands
    PROVE  Elected(s) \in Pointers
<1> DEFINE best == {i \in DOMAIN cands : \A j \in DOMAIN cands : cands[j].score <= cands[i].score}
           first == CHOOSE i \in best : \A j \in best : i <= j
<1>1. CASE best = {}
  <2>1. ElectBestFaction(cands) = NoFac
    BY <1>1 DEF ElectBestFaction
  <2> QED
    BY <2>1, FactionsApart DEF Elected
<1>2. CASE best # {}
  <2>1. best \subseteq Nat
    OBVIOUS
  <2>2. \E i \in best : \A j \in best : i <= j
    BY <1>2, <2>1, LeastNumber
  <2>3. first \in best
    BY <2>2
  <2>4. ElectBestFaction(cands) = cands[first].fac
    BY <1>2 DEF ElectBestFaction
  <2> HIDE DEF first
  <2>5. cands[first] \in Candidates
    BY <2>3
  <2>6. cands[first].fac \in Pointers
    BY <2>5 DEF Candidates, Pointers
  <2> QED
    BY <2>4, <2>6 DEF Elected
<1> QED
  BY <1>1, <1>2

-----------------------------------------------------------------------------
(* Which mode the hook is in.                                              *)

\* No call starts on a load's passthrough, and a vote past its limit is a vote that
\* has handed the hook back; a resume during the call takes away its captures.
ModeInv ==
    /\ call = "full" => online
    /\ call \in {"voting", "loaded"} => stage = "ready"
    /\ stage = "loading" => passes
    /\ late => capsDone
    /\ call = "voting" => ~late
    /\ call = "voting" /\ online /\ ~acking => ~captured
    /\ online /\ ~acking /\ stage = "ready" /\ call # "loaded" => ~passes

HookInv == HookTypes /\ VoteTypes /\ ModeInv

LEMMA HookVoting ==
    ASSUME HookInv, NEW ch \in Chars, NEW f \in Factions \cup {NoFac}, NEW made \in BOOLEAN,
           VotingEnds(ch, f, made)
    PROVE  HookInv'
<1> DEFINE counts == made /\ ~scan.done
           cs == Votes(scan.cands, f, ch \in Namesakes)
           s == IF counts THEN [scan EXCEPT !.count = @ + 1, !.cands = Votes(@, f, ch \in Namesakes)]
                          ELSE scan
           closes == ~s.done /\ ((counts /\ WindowOver(s)) \/ SafetyTimeout)
           over == s.done \/ closes
<1>1. /\ call = "voting" /\ call' = "none"
      /\ fallback' \in {fallback, f}
      /\ scan' = IF over THEN VoteOver ELSE s
      /\ early' = IF closes THEN Elected(s) ELSE early
      /\ capsDone' = (capsDone \/ BackToPassthrough(over))
      /\ passes' = (passes \/ BackToPassthrough(over))
      /\ late' = (late \/ (captured /\ creates > SafetyLimit))
      /\ UNCHANGED <<captured, local, creates, smFactory, stage, gameReady, online, acking, scanner>>
  BY DEF VotingEnds
<1>2. /\ scan = [cands |-> scan.cands, count |-> scan.count, done |-> scan.done]
      /\ scan.cands \in Seq(Candidates) /\ Len(scan.cands) <= MaxCand
      /\ scan.count \in 0 .. ScanWindow /\ scan.done \in BOOLEAN
      /\ ~scan.done => scan.count < ScanWindow
  BY DEF HookInv, VoteTypes
<1>3. cs \in Seq(Candidates) /\ Len(cs) <= MaxCand
  <2>1. (ch \in Namesakes) \in BOOLEAN
    OBVIOUS
  <2> QED
    BY <1>2, <2>1, VotesAreCandidates
<1>4. /\ counts => s = [cands |-> cs, count |-> scan.count + 1, done |-> scan.done]
      /\ ~counts => s = scan
  BY <1>2
<1> HIDE DEF cs
<1>5. /\ s = [cands |-> s.cands, count |-> s.count, done |-> s.done]
      /\ s.cands \in Seq(Candidates) /\ Len(s.cands) <= MaxCand /\ s.done = scan.done
      /\ s.count \in 0 .. ScanWindow
  <2>1. CASE counts
    <3>1. scan.count + 1 \in 0 .. ScanWindow
      BY <1>2, <2>1, BoundsAreNumbers
    <3>2. s = [cands |-> cs, count |-> scan.count + 1, done |-> scan.done]
      BY <1>4, <2>1
    <3> HIDE DEF s
    <3> QED
      BY <1>3, <3>1, <3>2
  <2>2. CASE ~counts
    BY <1>2, <1>4, <2>2
  <2> QED
    BY <2>1, <2>2
<1>6. ~over => s.count < ScanWindow
  <2> SUFFICES ASSUME ~over PROVE s.count < ScanWindow
    OBVIOUS
  <2>1. CASE counts
    <3>1. ~(s.count >= ScanWindow)
      BY <2>1 DEF WindowOver
    <3> QED
      BY <1>5, <3>1, BoundsAreNumbers
  <2>2. CASE ~counts
    BY <1>2, <1>4, <1>5, <2>2
  <2> QED
    BY <2>1, <2>2
<1>7. captured /\ creates > SafetyLimit => over
  BY DEF SafetyTimeout
<1>8. over \in BOOLEAN /\ closes \in BOOLEAN
  BY <1>5, <1>2 DEF SafetyTimeout, WindowOver
<1> HIDE DEF s, closes, over, counts
<1>9. VoteTypes'
  <2>1. CASE over
    <3>1. scan' = [cands |-> << >>, count |-> 0, done |-> TRUE]
      BY <1>1, <2>1 DEF VoteOver, NoScan
    <3> QED
      BY <3>1, BoundsAreNumbers DEF VoteTypes
  <2>2. CASE ~over
    BY <1>1, <1>2, <1>5, <1>6, <2>2 DEF VoteTypes
  <2> QED
    BY <2>1, <2>2
<1>10. early' \in Pointers /\ fallback' \in Pointers
  <2>1. early \in Pointers /\ fallback \in Pointers
    BY DEF HookInv, HookTypes
  <2>2. Elected(s) \in Pointers
    BY <1>5, <2>1, ElectedIsPointer
  <2> QED
    BY <1>1, <2>1, <2>2, FactionsApart
<1>11. BackToPassthrough(over) = (captured /\ over)
  BY DEF BackToPassthrough
<1>12. HookTypes'
  BY <1>1, <1>8, <1>10, <1>11 DEF HookInv, HookTypes, scanner
<1>13. ModeInv'
  BY <1>1, <1>7, <1>11 DEF HookInv, HookTypes, ModeInv
<1> QED
  BY <1>9, <1>12, <1>13 DEF HookInv

-----------------------------------------------------------------------------
(* Whom the server is told of.                                             *)

ObjectTypes ==
    /\ fac \in [DOMAIN fac -> Factions] /\ DOMAIN fac \subseteq Chars
    /\ role \in [DOMAIN role -> {"own", "former", "remote"}] /\ DOMAIN role \subseteq DOMAIN fac
    /\ told \in [Chars -> {0, 1}]

\* Whoever was announced is an own entity, and of the faction the client trusts: the
\* controller's or, as long as that has none, the early one, which is then the
\* faction of every own entity.
ToldInv ==
    /\ \A ch \in Chars : told[ch] # 0 => ch \in DOMAIN role /\ role[ch] = "own"
    /\ \A ch, d \in Chars : told[ch] # 0 /\ told[d] # 0 => fac[ch] = fac[d]
    /\ online => \A ch \in Chars : told[ch] # 0 =>
          \/ local # NoFac /\ fac[ch] = local
          \/ local = NoFac /\ early # NoFac /\ fac[ch] = early /\ \A d \in OwnChars : fac[d] = early
    /\ stage # "ready" \/ call = "loaded" \/ (online /\ call = "voting") => \A ch \in Chars : told[ch] = 0

CreationInv == HookInv /\ ObjectTypes /\ ToldInv

\* A function with one more argument.
LEMMA PutFacts ==
    ASSUME NEW f, NEW ch, NEW v
    PROVE  /\ DOMAIN Put(f, ch, v) = DOMAIN f \cup {ch}
           /\ Put(f, ch, v)[ch] = v /\ \A u \in DOMAIN f : u # ch => Put(f, ch, v)[u] = f[u]
           /\ Put(f, ch, v) = [u \in DOMAIN f \cup {ch} |-> Put(f, ch, v)[u]]
BY DEF Put

\* A character that comes into being keeps what is known of the others.
LEMMA BornFacts ==
    ASSUME CreationInv, NEW ch \in Chars \ Exists, NEW f \in Factions, Born(ch, f)
    PROVE  /\ fac' \in [DOMAIN fac' -> Factions] /\ DOMAIN fac' = DOMAIN fac \cup {ch}
           /\ DOMAIN fac' \subseteq Chars /\ fac'[ch] = f
           /\ \A d \in DOMAIN fac : fac'[d] = fac[d]
           /\ ch \notin DOMAIN role /\ told[ch] = 0
<1>1. fac' = Put(fac, ch, f) /\ fac \in [DOMAIN fac -> Factions] /\ DOMAIN fac \subseteq Chars
  BY DEF Born, CreationInv, ObjectTypes
<1>2. /\ DOMAIN fac' = DOMAIN fac \cup {ch} /\ fac'[ch] = f /\ \A d \in DOMAIN fac : fac'[d] = fac[d]
      /\ fac' = [u \in DOMAIN fac \cup {ch} |-> fac'[u]]
  <2>1. ch \notin DOMAIN fac
    BY DEF Exists
  <2> QED
    BY <1>1, <2>1 DEF Put
<1>3. fac' \in [DOMAIN fac' -> Factions]
  BY <1>1, <1>2
<1>4. ch \notin DOMAIN role /\ told[ch] = 0
  BY DEF CreationInv, ObjectTypes, ToldInv, Exists
<1> QED
  BY <1>1, <1>2, <1>3, <1>4

\* What a step must keep of ToldInv when no character is announced or relabelled.
LEMMA ToldKept ==
    ASSUME CreationInv, UNCHANGED <<told, OwnChars>>,
           \A d \in DOMAIN fac : fac'[d] = fac[d],
           \/ ~online'
           \/ UNCHANGED <<local, early>> /\ online
           \/ \A ch \in Chars : told[ch] = 0,
           stage' # "ready" \/ call' = "loaded" \/ (online' /\ call' = "voting")
               => stage # "ready" \/ call = "loaded" \/ (online /\ call = "voting")
    PROVE  ToldInv'
<1>1. /\ told \in [Chars -> {0, 1}] /\ DOMAIN role \subseteq DOMAIN fac
      /\ \A ch \in Chars : told[ch] # 0 => ch \in DOMAIN role /\ role[ch] = "own"
      /\ \A ch, d \in Chars : told[ch] # 0 /\ told[d] # 0 => fac[ch] = fac[d]
  BY DEF CreationInv, ObjectTypes, ToldInv
<1>2. \A ch \in Chars : told'[ch] # 0 => ch \in DOMAIN role' /\ role'[ch] = "own"
  BY <1>1 DEF OwnChars
<1>3. \A ch, d \in Chars : told'[ch] # 0 /\ told'[d] # 0 => fac'[ch] = fac'[d]
  BY <1>1
<1>4. OwnChars' = OwnChars
  OBVIOUS
<1>5. \A ch \in OwnChars : fac'[ch] = fac[ch]
  BY <1>1 DEF OwnChars
<1>6. ASSUME online', NEW ch \in Chars, told'[ch] # 0
      PROVE  \/ local' # NoFac /\ fac'[ch] = local'
             \/ local' = NoFac /\ early' # NoFac /\ fac'[ch] = early' /\ \A d \in OwnChars' : fac'[d] = early'
  <2>1. UNCHANGED <<local, early>> /\ online /\ told[ch] # 0
    BY <1>6
  <2>2. fac'[ch] = fac[ch]
    BY <1>1, <2>1
  <2>3. \/ local # NoFac /\ fac[ch] = local
        \/ local = NoFac /\ early # NoFac /\ fac[ch] = early /\ \A d \in OwnChars : fac[d] = early
    BY <2>1 DEF CreationInv, ToldInv
  <2> QED
    BY <1>4, <1>5, <2>1, <2>2, <2>3
<1>7. stage' # "ready" \/ call' = "loaded" \/ (online' /\ call' = "voting") => \A ch \in Chars : told'[ch] = 0
  BY DEF CreationInv, ToldInv
<1> QED
  BY <1>2, <1>3, <1>6, <1>7 DEF ToldInv

\* The factory's answer to a vote or in a burst.
LEMMA CreationVoting ==
    ASSUME CreationInv, NEW ch \in Chars, NEW f \in Factions \cup {NoFac}, NEW made \in BOOLEAN,
           made => ch \notin Exists /\ f \in Factions, VotingEnds(ch, f, made)
    PROVE  CreationInv'
<1>1. HookInv'
  BY HookVoting DEF CreationInv
<1>2. /\ call = "voting" /\ call' = "none" /\ UNCHANGED <<local, stage, gameReady, online, role, told>>
      /\ (Born(ch, f) /\ made) \/ UNCHANGED fac
  BY DEF VotingEnds, NoneBorn
<1>3. /\ fac' \in [DOMAIN fac' -> Factions] /\ DOMAIN fac' \subseteq Chars
      /\ \A d \in DOMAIN fac : fac'[d] = fac[d] /\ d \in DOMAIN fac'
  BY <1>2, BornFacts DEF CreationInv, ObjectTypes
<1>4. ObjectTypes'
  BY <1>2, <1>3 DEF CreationInv, ObjectTypes
<1>5. online => \A c \in Chars : told[c] = 0
  BY <1>2 DEF CreationInv, ToldInv
<1>8. OwnChars' = OwnChars
  BY <1>2 DEF OwnChars
<1>6. \/ ~online'
      \/ UNCHANGED <<local, early>> /\ online
      \/ \A c \in Chars : told[c] = 0
  BY <1>2, <1>5
<1>7. ToldInv'
  BY <1>2, <1>3, <1>6, <1>8, ToldKept
<1> QED
  BY <1>1, <1>4, <1>7 DEF CreationInv

LEMMA CreationBurst ==
    ASSUME CreationInv, NEW ch \in Chars, NEW f \in Factions \cup {NoFac}, NEW made \in BOOLEAN,
           made => ch \notin Exists /\ f \in Factions, BurstEnds(ch, f, made)
    PROVE  CreationInv'
<1>1. /\ call = "burst" /\ call' = "none" /\ fallback' \in {fallback, f}
      /\ UNCHANGED <<hookState, early, local, creates, smFactory, stage, gameReady, online, acking, role, told, scanner>>
      /\ (Born(ch, f) /\ made) \/ UNCHANGED fac
  BY DEF BurstEnds, NoneBorn
<1>2. HookInv'
  <2>1. fallback' \in Pointers
    BY <1>1, FactionsApart DEF CreationInv, HookInv, HookTypes
  <2> QED
    BY <1>1, <2>1 DEF hookState, scanner, CreationInv, HookInv, HookTypes, VoteTypes, ModeInv
<1>3. /\ fac' \in [DOMAIN fac' -> Factions] /\ DOMAIN fac' \subseteq Chars
      /\ \A d \in DOMAIN fac : fac'[d] = fac[d] /\ d \in DOMAIN fac'
  BY <1>1, BornFacts DEF CreationInv, ObjectTypes
<1>4. ObjectTypes'
  BY <1>1, <1>3 DEF CreationInv, ObjectTypes
<1>6. OwnChars' = OwnChars
  BY <1>1 DEF OwnChars
<1>5. ToldInv'
  BY <1>1, <1>3, <1>6, ToldKept
<1> QED
  BY <1>2, <1>4, <1>5 DEF CreationInv

\* A call of the factory begins.
LEMMA CreationBegins ==
    ASSUME CreationInv, NEW burst \in BOOLEAN, CreateBegins(burst)
    PROVE  CreationInv'
<1> DEFINE mode == HookMode(burst)
<1>1. /\ stage # "menu" /\ call = "none" /\ creates < CreateBound /\ creates' = creates + 1
      /\ captured' = (captured \/ mode \in {"passthrough", "voting", "full"})
      /\ smFactory' = (smFactory \/ mode = "voting" \/ (mode = "passthrough" /\ ~captured))
      /\ (call' = mode /\ mode \notin {"passthrough", "nothing"}) \/ UNCHANGED call
      /\ UNCHANGED <<passes, capsDone, scan, late, pointers, stage, gameReady, online, acking, role, told, scanner>>
  BY DEF CreateBegins, PlainCreate
<1>2. /\ UNCHANGED fac \/ \E ch \in Chars \ Exists, f \in Factions : Born(ch, f)
  BY DEF CreateBegins, PlainCreate, NoneBorn
<1>3. /\ mode \in {"passthrough", "nothing", "voting", "burst", "full"}
      /\ mode = "voting" => ~passes /\ ~online /\ ~capsDone
      /\ mode \in {"burst", "full"} => online
  BY DEF HookMode
<1> HIDE DEF mode
<1>4. HookTypes'
  <2>1. creates' \in 0 .. CreateBound
    BY <1>1, BoundsAreNumbers DEF CreationInv, HookInv, HookTypes
  <2>2. captured' \in BOOLEAN /\ smFactory' \in BOOLEAN
    BY <1>1
  <2>3. call' \in {"none", "loaded", "voting", "burst", "full"}
    BY <1>1, <1>3
  <2> QED
    BY <1>1, <2>1, <2>2, <2>3 DEF pointers, scanner, CreationInv, HookInv, HookTypes
<1>5. ModeInv'
  <2>1. CASE UNCHANGED call
    BY <1>1, <2>1 DEF CreationInv, HookInv, ModeInv
  <2>2. CASE call' = mode /\ mode \notin {"passthrough", "nothing"}
    <3>1. mode \in {"voting", "burst", "full"}
      BY <1>3, <2>2
    <3>2. mode = "voting" => stage = "ready" /\ ~late
      BY <1>1, <1>3 DEF CreationInv, HookInv, HookTypes, ModeInv
    <3> QED
      BY <1>1, <1>3, <2>2, <3>1, <3>2 DEF CreationInv, HookInv, ModeInv
  <2> QED
    BY <1>1, <2>1, <2>2
<1>6. HookInv'
  BY <1>1, <1>4, <1>5 DEF CreationInv, HookInv, VoteTypes
<1>7. /\ fac' \in [DOMAIN fac' -> Factions] /\ DOMAIN fac' \subseteq Chars
      /\ \A d \in DOMAIN fac : fac'[d] = fac[d] /\ d \in DOMAIN fac'
  BY <1>2, BornFacts DEF CreationInv, ObjectTypes
<1>8. ObjectTypes'
  BY <1>1, <1>7 DEF CreationInv, ObjectTypes
<1>9. OwnChars' = OwnChars
  BY <1>1 DEF OwnChars
<1>10. ToldInv'
  <2>1. ~(online' /\ call' = "voting")
    BY <1>1, <1>3
  <2>2. call' # "loaded"
    BY <1>1, <1>3
  <2>3. ~online' \/ (UNCHANGED <<local, early>> /\ online)
    BY <1>1 DEF pointers, CreationInv, HookInv, HookTypes
  <2>4. stage' # "ready" \/ call' = "loaded" \/ (online' /\ call' = "voting")
               => stage # "ready" \/ call = "loaded" \/ (online /\ call = "voting")
    BY <1>1, <2>1, <2>2
  <2> QED
    BY <1>1, <1>7, <1>9, <2>3, <2>4, ToldKept
<1> QED
  BY <1>6, <1>8, <1>10 DEF CreationInv

\* A body for a remote player is nobody's own character.
LEMMA CreationDirect ==
    ASSUME CreationInv, NEW ch \in Chars, NEW f \in Factions, DirectCreate(ch, f)
    PROVE  CreationInv'
<1>1. /\ ch \in Chars \ Exists /\ Born(ch, f) /\ role' = Put(role, ch, "remote")
      /\ online
      /\ UNCHANGED <<hookState, pointers, creates, smFactory, stage, gameReady, online, acking, call, told, scanner>>
  BY DEF DirectCreate
<1>2. HookInv'
  BY <1>1 DEF hookState, pointers, scanner, CreationInv, HookInv, HookTypes, VoteTypes, ModeInv
<1>3. /\ fac' \in [DOMAIN fac' -> Factions] /\ DOMAIN fac' = DOMAIN fac \cup {ch}
      /\ DOMAIN fac' \subseteq Chars /\ \A d \in DOMAIN fac : fac'[d] = fac[d]
      /\ ch \notin DOMAIN role
  BY <1>1, BornFacts
<1>4. /\ DOMAIN role' = DOMAIN role \cup {ch} /\ role'[ch] = "remote"
      /\ \A d \in DOMAIN role : role'[d] = role[d]
      /\ role' = [d \in DOMAIN role' |-> role'[d]]
  BY <1>1, <1>3 DEF Put
<1>5. ObjectTypes'
  <2>1. role' \in [DOMAIN role' -> {"own", "former", "remote"}]
    BY <1>4 DEF CreationInv, ObjectTypes
  <2> QED
    BY <1>1, <1>3, <1>4, <2>1 DEF CreationInv, ObjectTypes
<1>6. OwnChars' = OwnChars
  BY <1>3, <1>4 DEF OwnChars
<1>7. ToldInv'
  BY <1>1, <1>3, <1>6, ToldKept DEF pointers
<1> QED
  BY <1>2, <1>5, <1>7 DEF CreationInv

\* A connection, a connection's end, and a departure of another player.
LEMMA CreationLink ==
    ASSUME CreationInv,
           \/ \E sameId \in BOOLEAN : HandshakeAck(sameId)
           \/ SetDisconnected
           \/ RemoteLeaves
    PROVE  CreationInv'
<1>1. ASSUME NEW sameId \in BOOLEAN, HandshakeAck(sameId) PROVE CreationInv'
  <2>1. /\ online' = TRUE /\ acking' = TRUE /\ gameReady' = FALSE /\ told' = [ch \in Chars |-> 0]
        /\ role' = [ch \in DOMAIN role |-> IF role[ch] = "own" /\ ~sameId THEN "former" ELSE role[ch]]
        /\ UNCHANGED <<hookState, pointers, creates, smFactory, stage, call, fac, scanner>>
    BY <1>1 DEF HandshakeAck
  <2>2. HookInv'
    <3>1. HookTypes'
      BY <2>1 DEF hookState, pointers, scanner, CreationInv, HookInv, HookTypes
    <3>2. VoteTypes' /\ ModeInv'
      BY <2>1 DEF hookState, CreationInv, HookInv, VoteTypes, ModeInv
    <3> QED
      BY <3>1, <3>2 DEF HookInv
  <2>3. ObjectTypes'
    BY <2>1 DEF CreationInv, ObjectTypes
  <2>4. ToldInv'
    BY <2>1 DEF ToldInv
  <2> QED
    BY <2>2, <2>3, <2>4 DEF CreationInv
<1>2. CASE SetDisconnected
  <2>1. /\ call = "none" /\ online' = FALSE /\ passes' = TRUE /\ local' = NoFac
        /\ gameReady' = (gameReady \/ stage = "ready")
        /\ squadDone' = FALSE /\ resetDue' = TRUE
        /\ role' = [ch \in {d \in DOMAIN role : role[d] # "remote"} |-> role[ch]]
        /\ UNCHANGED <<capsDone, captured, scan, late, early, fallback, creates, smFactory, stage,
                       acking, call, fac, told, retries>>
    BY <1>2 DEF SetDisconnected
  <2>2. HookInv'
    BY <2>1, FactionsApart DEF CreationInv, HookInv, HookTypes, VoteTypes, ModeInv
  <2>3. ObjectTypes'
    BY <2>1 DEF CreationInv, ObjectTypes
  <2>4. OwnChars' = OwnChars
    BY <2>1 DEF OwnChars
  <2>5. ToldInv'
    BY <2>1, <2>4, ToldKept
  <2> QED
    BY <2>2, <2>3, <2>5 DEF CreationInv
<1>3. CASE RemoteLeaves
  <2>1. PICK ch \in DOMAIN role : role[ch] = "remote" /\ role' = [d \in DOMAIN role \ {ch} |-> role[d]]
    BY <1>3 DEF RemoteLeaves
  <2>2. /\ online
        /\ UNCHANGED <<hookState, pointers, creates, smFactory, stage, gameReady, online, acking, call, fac, told, scanner>>
    BY <1>3 DEF RemoteLeaves
  <2>3. HookInv'
    BY <2>2 DEF hookState, pointers, scanner, CreationInv, HookInv, HookTypes, VoteTypes, ModeInv
  <2>4. ObjectTypes'
    BY <2>1, <2>2 DEF CreationInv, ObjectTypes
  <2>5. OwnChars' = OwnChars
    BY <2>1 DEF OwnChars
  <2>6. ToldInv'
    BY <2>2, <2>5, ToldKept DEF pointers
  <2> QED
    BY <2>3, <2>4, <2>6 DEF CreationInv
<1> QED
  BY <1>1, <1>2, <1>3

\* The handshake handler ends: the faction it learns from an own entity is the one
\* whoever was announced already has.
LEMMA CreationAcked ==
    ASSUME CreationInv, AckEnds
    PROVE  CreationInv'
<1>1. PICK l \in Initialised :
        \/ stage = "ready" /\ ResumeForNetwork(l)
        \/ stage # "ready" /\ local' = l /\ UNCHANGED <<hookState, early, fallback>>
  BY DEF AckEnds
<1>2. acking' = FALSE /\ UNCHANGED <<creates, smFactory, stage, gameReady, online, call, objects, scanner>>
  BY DEF AckEnds
<1>3. l \in Pointers
  <2>1. \A ch \in OwnChars : fac[ch] \in Factions
    BY DEF CreationInv, ObjectTypes, OwnChars
  <2>2. local \in Pointers
    BY DEF CreationInv, HookInv, HookTypes
  <2>3. l = local \/ \E ch \in OwnChars : l = fac[ch]
    BY DEF Initialised
  <2> QED
    BY <2>1, <2>2, <2>3, FactionsApart
<1>4. HookInv'
  <2>1. CASE stage = "ready" /\ ResumeForNetwork(l)
    <3>1. /\ capsDone' = FALSE /\ captured' = FALSE /\ passes' = FALSE /\ scan' = NoScan /\ late' = FALSE
          /\ local' \in {early, l} /\ early' = NoFac /\ UNCHANGED fallback
      BY <2>1 DEF ResumeForNetwork, FullHook, CapturesReset
    <3>2. HookTypes'
      BY <1>2, <1>3, <3>1, FactionsApart DEF scanner, CreationInv, HookInv, HookTypes
    <3>3. VoteTypes'
      BY <3>1, BoundsAreNumbers DEF VoteTypes, NoScan
    <3>4. ModeInv'
      BY <1>2, <2>1, <3>1 DEF CreationInv, HookInv, ModeInv
    <3> QED
      BY <3>2, <3>3, <3>4 DEF HookInv
  <2>2. CASE stage # "ready" /\ local' = l /\ UNCHANGED <<hookState, early, fallback>>
    <3>1. UNCHANGED <<passes, capsDone, captured, scan, late, early, fallback>> /\ local' \in Pointers
      BY <1>3, <2>2 DEF hookState
    <3>2. HookTypes'
      <4>1. early' \in Pointers /\ fallback' \in Pointers /\ local' \in Pointers
        BY <3>1 DEF CreationInv, HookInv, HookTypes
      <4>2. /\ passes' \in BOOLEAN /\ capsDone' \in BOOLEAN /\ captured' \in BOOLEAN /\ late' \in BOOLEAN
            /\ acking' \in BOOLEAN
        BY <1>2, <3>1 DEF CreationInv, HookInv, HookTypes
      <4>3. UNCHANGED <<creates, smFactory, stage, gameReady, online, call, squadDone, retries, resetDue>>
        BY <1>2 DEF scanner
      <4> QED
        BY <4>1, <4>2, <4>3 DEF CreationInv, HookInv, HookTypes
    <3>3. VoteTypes'
      BY <3>1 DEF CreationInv, HookInv, VoteTypes
    <3>4. ModeInv'
      BY <1>2, <2>2, <3>1 DEF CreationInv, HookInv, ModeInv
    <3> QED
      BY <3>2, <3>3, <3>4 DEF HookInv
  <2> QED
    BY <1>1, <2>1, <2>2
<1>5. ObjectTypes'
  BY <1>2 DEF objects, CreationInv, ObjectTypes
<1>6. ASSUME online, NEW ch \in Chars, told[ch] # 0
      PROVE  local' # NoFac /\ fac[ch] = local'
  <2>1. ch \in OwnChars /\ fac[ch] \in Factions /\ stage = "ready"
    BY <1>6 DEF CreationInv, ObjectTypes, ToldInv, OwnChars
  <2>2. l # NoFac /\ fac[ch] = l
    <3>1. CASE local # NoFac
      BY <1>6, <3>1 DEF CreationInv, ToldInv, Initialised
    <3>2. CASE local = NoFac
      <4>1. early # NoFac /\ fac[ch] = early /\ \A d \in OwnChars : fac[d] = early
        BY <1>6, <3>2 DEF CreationInv, ToldInv
      <4>2. \E d \in OwnChars : l = fac[d]
        BY <2>1, <3>2, <4>1 DEF Initialised
      <4> QED
        BY <4>1, <4>2
    <3> QED
      BY <3>1, <3>2
  <2> QED
    BY <1>1, <2>1, <2>2 DEF ResumeForNetwork
<1>7. ToldInv'
  BY <1>2, <1>6 DEF objects, CreationInv, ToldInv
<1> QED
  BY <1>4, <1>5, <1>7 DEF CreationInv

\* A load begins, ends, and has its consequences: meanwhile nobody is announced.
LEMMA CreationLoads ==
    ASSUME CreationInv,
           \/ LoadBegins \/ LoadEnds
           \/ \E seen \in SUBSET Exists, won \in Factions \cup {NoFac} : LoadEnded(seen, won)
    PROVE  CreationInv'
<1>1. CASE LoadBegins
  <2> DEFINE aged == [i \in DOMAIN scan.cands |-> [scan.cands[i] EXCEPT !.fac = Aged(@)]]
  <2>1. /\ call = "none" /\ stage' = "loading" /\ passes' = TRUE /\ squadDone' = FALSE /\ gameReady' = FALSE
        /\ fac' = << >> /\ role' = << >> /\ told' = [ch \in Chars |-> 0]
        /\ early' = Aged(early) /\ fallback' = Aged(fallback) /\ local' = NoFac
        /\ UNCHANGED <<capsDone, captured, late, creates, smFactory, online, acking, call, retries, resetDue>>
    BY <1>1 DEF LoadBegins
  <2>9. scan' = [scan EXCEPT !.cands = aged]
    BY <1>1 DEF LoadBegins
  <2>2. \A f \in Pointers : Aged(f) \in Pointers
    BY DEF Aged, Pointers
  <2>3. aged \in Seq(Candidates) /\ Len(aged) = Len(scan.cands)
    <3>1. scan.cands \in Seq(Candidates)
      BY DEF CreationInv, HookInv, VoteTypes
    <3>2. ASSUME NEW i \in DOMAIN scan.cands PROVE aged[i] \in Candidates
      <4>1. scan.cands[i] \in Candidates
        BY <3>1
      <4>2. Aged(scan.cands[i].fac) \in Factions \cup {Stale}
        BY <4>1 DEF Aged, Candidates
      <4> QED
        BY <4>1, <4>2 DEF Candidates
    <3>3. DOMAIN aged = 1 .. Len(scan.cands) /\ Len(scan.cands) \in Nat
      BY <3>1
    <3> HIDE DEF aged
    <3>4. aged = [i \in 1 .. Len(scan.cands) |-> aged[i]]
      BY <3>3 DEF aged
    <3>5. \A i \in 1 .. Len(scan.cands) : aged[i] \in Candidates
      BY <3>1, <3>2
    <3> QED
      BY <3>3, <3>4, <3>5
  <2> HIDE DEF aged
  <2>4. VoteTypes'
    <3>1. scan = [cands |-> scan.cands, count |-> scan.count, done |-> scan.done]
      BY DEF CreationInv, HookInv, VoteTypes
    <3>2. scan' = [cands |-> aged, count |-> scan.count, done |-> scan.done]
      BY <2>9, <3>1
    <3> QED
      BY <2>3, <3>2 DEF CreationInv, HookInv, VoteTypes
  <2>5. HookTypes'
    BY <2>1, <2>2, FactionsApart DEF CreationInv, HookInv, HookTypes
  <2>6. ModeInv'
    BY <2>1 DEF CreationInv, HookInv, ModeInv
  <2>7. ObjectTypes'
    BY <2>1 DEF ObjectTypes
  <2>8. ToldInv'
    BY <2>1 DEF ToldInv
  <2> QED
    BY <2>4, <2>5, <2>6, <2>7, <2>8 DEF CreationInv, HookInv
<1>2. CASE LoadEnds
  <2>1. /\ stage = "loading" /\ call = "none" /\ stage' = "ready" /\ gameReady' = TRUE /\ call' = "loaded"
        /\ UNCHANGED <<hookState, pointers, creates, smFactory, online, acking, objects, scanner>>
    BY <1>2 DEF LoadEnds
  <2>2. HookInv'
    BY <2>1 DEF hookState, pointers, scanner, CreationInv, HookInv, HookTypes, VoteTypes, ModeInv
  <2>3. ObjectTypes'
    BY <2>1 DEF objects, CreationInv, ObjectTypes
  <2>4. ToldInv'
    BY <2>1 DEF objects, pointers, CreationInv, ToldInv, OwnChars
  <2> QED
    BY <2>2, <2>3, <2>4 DEF CreationInv
<1>3. ASSUME NEW seen \in SUBSET Exists, NEW won \in Factions \cup {NoFac}, LoadEnded(seen, won)
      PROVE  CreationInv'
  <2> DEFINE l == IF local # NoFac THEN local ELSE IF early # NoFac THEN early ELSE won
  <2>1. /\ call = "loaded" /\ call' = "none"
        /\ \/ online /\ ResumeForNetwork(l)
           \/ /\ ~online /\ passes' = FALSE /\ local' \in {local, won}
              /\ UNCHANGED <<capsDone, captured, scan, late, early, fallback>>
        /\ UNCHANGED <<creates, smFactory, stage, gameReady, online, acking, objects, scanner>>
    BY <1>3 DEF LoadEnded
  <2>2. l \in Pointers /\ won \in Pointers
    BY FactionsApart DEF CreationInv, HookInv, HookTypes
  <2> HIDE DEF l
  <2>3. \A ch \in Chars : told[ch] = 0
    BY <2>1 DEF CreationInv, ToldInv
  <2>4. HookInv'
    <3>1. CASE online /\ ResumeForNetwork(l)
      <4>1. /\ capsDone' = FALSE /\ captured' = FALSE /\ passes' = FALSE /\ scan' = NoScan /\ late' = FALSE
            /\ local' \in {early, l} /\ early' = NoFac /\ UNCHANGED fallback
        BY <3>1 DEF ResumeForNetwork, FullHook, CapturesReset
      <4>2. HookTypes'
        BY <2>1, <2>2, <4>1, FactionsApart DEF scanner, CreationInv, HookInv, HookTypes
      <4>3. VoteTypes'
        BY <4>1, BoundsAreNumbers DEF VoteTypes, NoScan
      <4>4. ModeInv'
        BY <2>1, <4>1 DEF CreationInv, HookInv, ModeInv
      <4> QED
        BY <4>2, <4>3, <4>4 DEF HookInv
    <3>2. CASE /\ ~online /\ passes' = FALSE /\ local' \in {local, won}
               /\ UNCHANGED <<capsDone, captured, scan, late, early, fallback>>
      <4>1. HookTypes'
        BY <2>1, <2>2, <3>2 DEF scanner, CreationInv, HookInv, HookTypes
      <4>2. ModeInv'
        BY <2>1, <3>2 DEF CreationInv, HookInv, ModeInv
      <4> QED
        BY <3>2, <4>1, <4>2 DEF CreationInv, HookInv, VoteTypes
    <3> QED
      BY <2>1, <3>1, <3>2
  <2>5. ObjectTypes'
    BY <2>1 DEF objects, CreationInv, ObjectTypes
  <2>6. ToldInv'
    BY <2>1, <2>3 DEF objects, ToldInv
  <2> QED
    BY <2>4, <2>5, <2>6 DEF CreationInv
<1> QED
  BY <1>1, <1>2, <1>3

\* Characters cs that are announced, on top of those that have been, when all of them
\* are of the one faction u that the client then trusts.
LEMMA AnnouncedFits ==
    ASSUME CreationInv, NEW cs \in SUBSET Chars, NEW u, Announce(role, cs),
           cs \cap DOMAIN role = {}, cs \subseteq DOMAIN fac',
           fac' \in [DOMAIN fac' -> Factions], DOMAIN fac' \subseteq Chars,
           \A d \in DOMAIN fac : fac'[d] = fac[d] /\ d \in DOMAIN fac',
           \A d \in cs : fac'[d] = u,
           \A d \in Chars : told[d] # 0 => fac[d] = u,
           u # NoFac => \/ local' = u
                        \/ local' = NoFac /\ early' = u /\ OwnChars = {},
           stage' = "ready", call' = "none"
    PROVE  ObjectTypes' /\ ToldInv'
<1>1. /\ told \in [Chars -> {0, 1}] /\ DOMAIN role \subseteq DOMAIN fac
      /\ role \in [DOMAIN role -> {"own", "former", "remote"}]
      /\ \A d \in Chars : told[d] # 0 => d \in DOMAIN role /\ role[d] = "own"
  BY DEF CreationInv, ObjectTypes, ToldInv
<1>2. /\ DOMAIN role' = DOMAIN role \cup cs
      /\ \A d \in DOMAIN role : role'[d] = role[d]
      /\ \A d \in cs : role'[d] = "own"
      /\ role' = [d \in DOMAIN role' |-> role'[d]]
  BY DEF Announce
<1>3. /\ told' = [d \in Chars |-> told'[d]]
      /\ \A d \in Chars : told'[d] = IF d \in cs THEN told[d] + 1 ELSE told[d]
  BY DEF Announce
<1>4. \A d \in cs : told[d] = 0
  BY <1>1
<1>5. ObjectTypes'
  <2>1. role' \in [DOMAIN role' -> {"own", "former", "remote"}]
    BY <1>1, <1>2
  <2>2. told' \in [Chars -> {0, 1}]
    BY <1>1, <1>3, <1>4
  <2>3. DOMAIN role' \subseteq DOMAIN fac'
    BY <1>1, <1>2
  <2> QED
    BY <2>1, <2>2, <2>3 DEF ObjectTypes
<1>6. \A d \in Chars : told'[d] # 0 => d \in DOMAIN role' /\ role'[d] = "own" /\ fac'[d] = u /\ u \in Factions
  BY <1>1, <1>2, <1>3
<1>7. OwnChars' = OwnChars \cup cs
  BY <1>2 DEF OwnChars
<1>8. ASSUME NEW d \in Chars, told'[d] # 0
      PROVE  \/ local' # NoFac /\ fac'[d] = local'
             \/ local' = NoFac /\ early' # NoFac /\ fac'[d] = early' /\ \A o \in OwnChars' : fac'[o] = early'
  <2>1. fac'[d] = u /\ u # NoFac
    BY <1>6, <1>8, FactionsApart
  <2> QED
    BY <1>7, <2>1
<1> QED
  BY <1>5, <1>6, <1>8 DEF ToldInv

\* The factory's answer while connected.
LEMMA CreationFull ==
    ASSUME CreationInv, NEW ch \in Chars, NEW f \in Factions \cup {NoFac},
           NEW made \in BOOLEAN, NEW hijacked \in BOOLEAN, NEW placed \in BOOLEAN,
           made => ch \notin Exists /\ f \in Factions, FullEnds(ch, f, made, hijacked, placed)
    PROVE  CreationInv'
<1>1. /\ call = "full" /\ call' = "none" /\ (hijacked => made /\ stage = "ready")
      /\ (Born(ch, f) /\ made) \/ (UNCHANGED fac /\ ~made)
      /\ smFactory' = (smFactory \/ (made /\ Unhijacked(hijacked)))
      /\ UNCHANGED <<hookState, creates, stage, gameReady, online, acking, scanner>>
  BY DEF FullEnds, NoneBorn
<1>2. online /\ online'
  BY <1>1 DEF CreationInv, HookInv, ModeInv
<1>3. /\ fac' \in [DOMAIN fac' -> Factions] /\ DOMAIN fac' \subseteq Chars
      /\ \A d \in DOMAIN fac : fac'[d] = fac[d] /\ d \in DOMAIN fac'
      /\ made => ch \in DOMAIN fac' /\ fac'[ch] = f /\ ch \notin DOMAIN role
  <2>1. CASE made /\ Born(ch, f)
    <3>1. ch \in Chars \ Exists /\ f \in Factions
      BY <2>1
    <3> QED
      BY <2>1, <3>1, BornFacts
  <2>2. CASE ~made /\ UNCHANGED fac
    BY <2>2 DEF CreationInv, ObjectTypes
  <2> QED
    BY <1>1, <2>1, <2>2
<1>4. ASSUME early' \in Pointers, fallback' \in Pointers, local' \in Pointers
      PROVE  HookInv'
  <2>1. HookTypes'
    <3>1. smFactory' \in BOOLEAN
      BY <1>1
    <3>2. UNCHANGED <<passes, capsDone, captured, late, creates, stage, gameReady, online, acking, squadDone, retries, resetDue>>
      BY <1>1 DEF hookState, scanner
    <3> QED
      BY <1>1, <1>4, <3>1, <3>2 DEF CreationInv, HookInv, HookTypes
  <2>2. VoteTypes'
    BY <1>1 DEF hookState, CreationInv, HookInv, VoteTypes
  <2>3. ModeInv'
    BY <1>1 DEF hookState, CreationInv, HookInv, ModeInv
  <2> QED
    BY <2>1, <2>2, <2>3 DEF HookInv
<1>5. early \in Pointers /\ fallback \in Pointers /\ local \in Pointers /\ f \in Pointers
  BY FactionsApart DEF CreationInv, HookInv, HookTypes
<1>6. CASE made /\ Unhijacked(hijacked) /\ stage = "ready"
  <2>1. PostProcess(role, ch, f, placed)
    BY <1>6 DEF FullEnds, Unhijacked
  <2>2. fallback' \in Pointers /\ early' = early
    BY <1>5, <2>1 DEF PostProcess
  <2>3. CASE placed
    <3> DEFINE u == TrustedFaction
               cs == IF u # NoFac /\ f = u THEN {ch} ELSE {}
    <3>1. LocalLearns(u) /\ Announce(role, cs)
      BY <2>1, <2>3 DEF PostProcess
    <3>2. u \in Pointers /\ u = (IF local # NoFac THEN local ELSE IF early # NoFac THEN early ELSE fallback')
      BY <1>5, <2>2 DEF TrustedFaction
    <3> HIDE DEF u
    <3>3. local' = u
      BY <3>1, <3>2 DEF LocalLearns
    <3>4. cs \in SUBSET Chars /\ cs \cap DOMAIN role = {} /\ cs \subseteq DOMAIN fac' /\ \A d \in cs : fac'[d] = u
      BY <1>3, <1>6
    <3> HIDE DEF cs
    <3>5. \A d \in Chars : told[d] # 0 => fac[d] = u
      BY <1>2, <3>2 DEF CreationInv, ToldInv
    <3>6. ObjectTypes' /\ ToldInv'
      BY <1>1, <1>3, <1>6, <3>1, <3>3, <3>4, <3>5, AnnouncedFits
    <3> QED
      BY <1>4, <1>5, <2>2, <3>2, <3>3, <3>6 DEF CreationInv
  <2>4. CASE ~placed
    <3>1. role' = role /\ UNCHANGED <<local, told>>
      BY <2>1, <2>4 DEF PostProcess
    <3>2. OwnChars' = OwnChars
      BY <3>1 DEF OwnChars
    <3>3. ObjectTypes'
      BY <1>3, <3>1 DEF CreationInv, ObjectTypes
    <3>4. ToldInv'
      BY <1>1, <1>2, <1>3, <2>2, <3>1, <3>2, ToldKept
    <3> QED
      BY <1>4, <1>5, <2>2, <3>1, <3>3, <3>4 DEF CreationInv
  <2> QED
    BY <2>3, <2>4
<1>7. CASE ~(made /\ Unhijacked(hijacked) /\ stage = "ready")
  <2>1. /\ fallback' \in {fallback, f} /\ UNCHANGED <<early, local, told>>
        /\ role' = IF hijacked THEN Put(role, ch, "remote") ELSE role
    BY <1>7 DEF FullEnds
  <2>2. /\ DOMAIN role' = DOMAIN role \cup (IF hijacked THEN {ch} ELSE {})
        /\ hijacked => role'[ch] = "remote"
        /\ \A d \in DOMAIN role : role'[d] = role[d]
        /\ role' = [d \in DOMAIN role' |-> role'[d]]
    <3>1. CASE hijacked
      BY <1>1, <1>3, <2>1, <3>1 DEF Put
    <3>2. CASE ~hijacked
      BY <2>1, <3>2 DEF CreationInv, ObjectTypes
    <3> QED
      BY <3>1, <3>2
  <2>3. OwnChars' = OwnChars
    BY <1>1, <1>3, <2>2 DEF OwnChars
  <2>4. ObjectTypes'
    <3>1. role' \in [DOMAIN role' -> {"own", "former", "remote"}]
      BY <2>2 DEF CreationInv, ObjectTypes
    <3>2. DOMAIN role' \subseteq DOMAIN fac'
      BY <1>1, <1>3, <2>2 DEF CreationInv, ObjectTypes
    <3> QED
      BY <1>3, <2>1, <3>1, <3>2 DEF CreationInv, ObjectTypes
  <2>5. ToldInv'
    BY <1>1, <1>2, <1>3, <2>1, <2>3, ToldKept
  <2> QED
    BY <1>4, <1>5, <2>1, <2>4, <2>5 DEF CreationInv
<1> QED
  BY <1>6, <1>7

\* What a scan announces on top of faction l, when the early faction is e: it looks for
\* a faction only when it has none, and then nobody has been announced.
LEMMA SentExisting ==
    ASSUME CreationInv, NEW e \in Pointers, NEW l \in Pointers, NEW seen \in SUBSET Exists,
           NEW valid \in Judgements, SendExistingEntities(e, l, seen, valid),
           \A d \in Chars : told[d] # 0 => l # NoFac /\ fac[d] = l,
           e = NoFac \/ OwnChars = {},
           UNCHANGED fac, stage' = "ready", call' = "none"
    PROVE  /\ early' \in Pointers /\ fallback' \in Pointers /\ local' \in Pointers
           /\ ObjectTypes' /\ ToldInv'
<1> DEFINE tos == IF l = NoFac /\ seen # {} THEN RevalidatedTo(e, l, seen, valid) ELSE {<<e, fallback, l>>}
           Used(t) == IF t[3] # NoFac THEN t[3] ELSE IF seen # {} THEN t[1] ELSE NoFac
<1>1. PICK t \in tos : /\ early' = t[1] /\ fallback' = t[2] /\ local' = t[3]
                       /\ Announce(role, {ch \in Unknown(seen) : Used(t) # NoFac /\ fac[ch] = Used(t)})
  BY Zenon DEF SendExistingEntities
<1> DEFINE u == Used(t)
           cs == {ch \in Unknown(seen) : u # NoFac /\ fac[ch] = u}
<1>2. NoFac \notin valid
  BY CreationAssumption DEF Judgements
<1>3. fallback \in Pointers
  BY DEF CreationInv, HookInv, HookTypes
<1>4. /\ t[1] \in Pointers /\ t[2] \in Pointers /\ t[3] \in Pointers
      /\ u # NoFac => \/ t[3] = u
                      \/ t[3] = NoFac /\ t[1] = u /\ OwnChars = {}
      /\ \A d \in Chars : told[d] # 0 => fac[d] = u
  <2>1. CASE l = NoFac /\ seen # {}
    <3>1. t \in RevalidatedTo(e, l, seen, valid)
      BY <1>1, <2>1
    <3>2. \/ e \in valid /\ t = <<e, fallback, l>>
          \/ fallback \in valid /\ t = <<fallback, fallback, fallback>>
          \/ t = <<NoFac, NoFac, l>>
          \/ \E f \in Factions : t = <<f, f, f>>
      BY <1>2, <2>1, <3>1 DEF RevalidatedTo
    <3>3. t[1] \in Pointers /\ t[2] \in Pointers /\ t[3] \in Pointers
      BY <1>3, <3>2, FactionsApart
    <3>4. t[3] = NoFac /\ t[1] # NoFac => OwnChars = {}
      BY <1>2, <2>1, <3>2, FactionsApart
    <3>5. \A d \in Chars : told[d] = 0
      BY <2>1
    <3> QED
      BY <2>1, <3>3, <3>4, <3>5
  <2>2. CASE ~(l = NoFac /\ seen # {})
    <3>1. t = <<e, fallback, l>>
      BY <1>1, <2>2
    <3> QED
      BY <1>3, <2>2, <3>1
  <2> QED
    BY <2>1, <2>2
<1> HIDE DEF Used, tos
<1>5. Announce(role, cs)
  BY <1>1
<1> HIDE DEF u
<1>6. /\ cs \in SUBSET Chars /\ cs \cap DOMAIN role = {} /\ cs \subseteq DOMAIN fac'
      /\ \A d \in cs : fac'[d] = u
  BY DEF Unknown, Exists, CreationInv, ObjectTypes
<1> HIDE DEF cs
<1>7. /\ fac' \in [DOMAIN fac' -> Factions] /\ DOMAIN fac' \subseteq Chars
      /\ \A d \in DOMAIN fac : fac'[d] = fac[d] /\ d \in DOMAIN fac'
  BY DEF CreationInv, ObjectTypes
<1>8. ObjectTypes' /\ ToldInv'
  BY <1>1, <1>4, <1>5, <1>6, <1>7, AnnouncedFits
<1> QED
  BY <1>1, <1>4, <1>8

\* An attempt of the scan, and the commands that scan at once.
LEMMA CreationScan ==
    ASSUME CreationInv, NEW seen \in SUBSET Exists, NEW valid \in Judgements, ScanTick(seen, valid)
    PROVE  CreationInv'
<1>1. /\ online /\ stage = "ready" /\ call = "none" /\ ~squadDone
      /\ squadDone' = ((\E ch \in DOMAIN role' : role'[ch] = "own") \/ Attempted >= ScanRetries)
      /\ retries' = (IF squadDone' \/ resetDue THEN 0 ELSE Attempted)
      /\ resetDue' = FALSE
      /\ UNCHANGED <<hookState, creates, smFactory, stage, gameReady, online, acking, call, fac>>
  BY DEF ScanTick, InGame
<1>2. retries' \in 0 .. ScanRetries - 1 /\ squadDone' \in BOOLEAN
  <2>1. retries \in 0 .. ScanRetries - 1
    BY DEF CreationInv, HookInv, HookTypes
  <2>2. squadDone' \in BOOLEAN /\ (~squadDone' => ~(Attempted >= ScanRetries))
    BY <1>1
  <2>3. retries' = 0 \/ (retries' = Attempted /\ ~squadDone')
    BY <1>1
  <2> QED
    BY <2>1, <2>2, <2>3, BoundsAreNumbers DEF Attempted
<1>3. early \in Pointers /\ fallback \in Pointers /\ local \in Pointers
  BY DEF CreationInv, HookInv, HookTypes
<1>4. early' \in Pointers /\ fallback' \in Pointers /\ local' \in Pointers /\ ObjectTypes' /\ ToldInv'
  <2>1. CASE OwnChars = {}
    <3>1. SendExistingEntities(early, local, seen, valid)
      BY <2>1 DEF ScanTick
    <3>2. \A d \in Chars : told[d] = 0
      BY <2>1 DEF CreationInv, ToldInv, OwnChars
    <3> QED
      BY <1>1, <1>3, <2>1, <3>1, <3>2, SentExisting
  <2>2. CASE OwnChars # {}
    <3>1. UNCHANGED <<early, fallback, local, role, told>>
      BY <2>2 DEF ScanTick, pointers
    <3>2. OwnChars' = OwnChars
      BY <3>1 DEF OwnChars
    <3>3. ToldInv'
      BY <1>1, <3>1, <3>2, ToldKept
    <3> QED
      BY <1>1, <1>3, <3>1, <3>3 DEF CreationInv, ObjectTypes
  <2> QED
    BY <2>1, <2>2
<1>5. HookInv'
  <2>1. HookTypes'
    <3>1. UNCHANGED <<passes, capsDone, captured, late, creates, smFactory, stage, gameReady, online, acking, call>>
      BY <1>1 DEF hookState
    <3> QED
      BY <1>1, <1>2, <1>4, <3>1 DEF CreationInv, HookInv, HookTypes
  <2>2. VoteTypes'
    BY <1>1 DEF hookState, CreationInv, HookInv, VoteTypes
  <2>3. ModeInv'
    BY <1>1 DEF hookState, CreationInv, HookInv, ModeInv
  <2> QED
    BY <2>1, <2>2, <2>3 DEF HookInv
<1> QED
  BY <1>4, <1>5 DEF CreationInv

LEMMA CreationSync ==
    ASSUME CreationInv, NEW seen \in SUBSET Exists, NEW valid \in Judgements, Sync(seen, valid)
    PROVE  CreationInv'
<1> DEFINE l == IF local = NoFac THEN early ELSE local
<1>1. /\ online /\ stage = "ready" /\ call = "none" /\ ~acking
      /\ SendExistingEntities(NoFac, l, seen, valid)
      /\ capsDone' = FALSE /\ captured' = FALSE /\ passes' = FALSE /\ scan' = NoScan /\ late' = FALSE
      /\ UNCHANGED <<creates, smFactory, stage, gameReady, online, acking, call, fac, scanner>>
  BY DEF Sync, InGame, FullHook, CapturesReset
<1>2. l \in Pointers /\ NoFac \in Pointers
  BY FactionsApart DEF CreationInv, HookInv, HookTypes
<1>3. \A d \in Chars : told[d] # 0 => l # NoFac /\ fac[d] = l
  BY <1>1 DEF CreationInv, ToldInv
<1> HIDE DEF l
<1>4. early' \in Pointers /\ fallback' \in Pointers /\ local' \in Pointers /\ ObjectTypes' /\ ToldInv'
  BY <1>1, <1>2, <1>3, SentExisting
<1>5. HookInv'
  <2>1. HookTypes'
    BY <1>1, <1>4 DEF scanner, CreationInv, HookInv, HookTypes
  <2>2. VoteTypes'
    BY <1>1, BoundsAreNumbers DEF VoteTypes, NoScan
  <2>3. ModeInv'
    BY <1>1 DEF CreationInv, HookInv, ModeInv
  <2> QED
    BY <2>1, <2>2, <2>3 DEF HookInv
<1> QED
  BY <1>4, <1>5 DEF CreationInv

LEMMA CreationStarts ==
    ASSUME CcInit
    PROVE  CreationInv
<1>1. /\ passes = TRUE /\ capsDone = FALSE /\ captured = FALSE /\ scan = NoScan
      /\ early = NoFac /\ fallback = NoFac /\ local = NoFac
      /\ creates = 0 /\ smFactory = FALSE /\ stage = "menu" /\ gameReady = FALSE
      /\ online = FALSE /\ acking = FALSE /\ call = "none"
      /\ fac = << >> /\ role = << >> /\ told = [ch \in Chars |-> 0]
      /\ squadDone = FALSE /\ retries = 0 /\ resetDue = FALSE /\ late = FALSE
  BY DEF CcInit
<1>2. creates \in 0 .. CreateBound /\ retries \in 0 .. ScanRetries - 1
  BY <1>1, BoundsAreNumbers
<1>3. HookTypes
  BY <1>1, <1>2, FactionsApart DEF HookTypes
<1>4. VoteTypes
  BY <1>1, BoundsAreNumbers DEF VoteTypes, NoScan
<1>5. ModeInv
  BY <1>1 DEF ModeInv
<1>6. ObjectTypes /\ ToldInv
  BY <1>1 DEF ObjectTypes, ToldInv
<1> QED
  BY <1>3, <1>4, <1>5, <1>6 DEF CreationInv, HookInv

LEMMA CreationInvariant == CcSpec => []CreationInv
<1>1. CcInit => CreationInv
  BY CreationStarts
<1>2. CreationInv /\ [CcNext]_ccVars => CreationInv'
  <2> SUFFICES ASSUME CreationInv, [CcNext]_ccVars PROVE CreationInv'
    OBVIOUS
  <2>1. ASSUME CreateEnds PROVE CreationInv'
    <3>1. PICK ch \in Chars \ Exists, f \in Factions, made \in BOOLEAN, hijacked \in BOOLEAN, placed \in BOOLEAN :
             VotingEnds(ch, f, made) \/ BurstEnds(ch, f, made) \/ FullEnds(ch, f, made, hijacked, placed)
      BY <2>1 DEF CreateEnds
    <3> QED
      BY <3>1, CreationVoting, CreationBurst, CreationFull
  <2>2. ASSUME CreateFails PROVE CreationInv'
    <3>1. PICK ch \in Chars : \/ VotingEnds(ch, NoFac, FALSE) \/ BurstEnds(ch, NoFac, FALSE)
                              \/ FullEnds(ch, NoFac, FALSE, FALSE, FALSE)
      BY <2>2 DEF CreateFails
    <3>2. FALSE \in BOOLEAN /\ NoFac \in Factions \cup {NoFac}
      OBVIOUS
    <3>3. CASE VotingEnds(ch, NoFac, FALSE)
      BY <3>2, <3>3, CreationVoting
    <3>4. CASE BurstEnds(ch, NoFac, FALSE)
      BY <3>2, <3>4, CreationBurst
    <3>5. CASE FullEnds(ch, NoFac, FALSE, FALSE, FALSE)
      BY <3>2, <3>5, CreationFull
    <3> QED
      BY <3>1, <3>3, <3>4, <3>5
  <2>3. CASE UNCHANGED ccVars
    <3>1. UNCHANGED <<hookState, pointers, creates, smFactory, stage, gameReady, online, acking, call, objects, scanner>>
      BY <2>3 DEF ccVars
    <3>2. HookInv'
      BY <3>1 DEF hookState, pointers, scanner, CreationInv, HookInv, HookTypes, VoteTypes, ModeInv
    <3>3. ObjectTypes' /\ ToldInv'
      BY <3>1 DEF objects, pointers, CreationInv, ObjectTypes, ToldInv, OwnChars
    <3> QED
      BY <3>2, <3>3 DEF CreationInv
  <2>4. ASSUME NEW burst \in BOOLEAN, CreateBegins(burst) PROVE CreationInv'
    BY <2>4, CreationBegins
  <2>5. ASSUME NEW ch \in Chars, NEW f \in Factions, DirectCreate(ch, f) PROVE CreationInv'
    BY <2>5, CreationDirect
  <2>6. ASSUME \/ \E sameId \in BOOLEAN : HandshakeAck(sameId)
               \/ SetDisconnected \/ RemoteLeaves
        PROVE  CreationInv'
    BY <2>6, CreationLink
  <2>7. ASSUME AckEnds PROVE CreationInv'
    BY <2>7, CreationAcked
  <2>8. ASSUME \/ LoadBegins \/ LoadEnds
               \/ \E seen \in SUBSET Exists, won \in Factions \cup {NoFac} : LoadEnded(seen, won)
        PROVE  CreationInv'
    BY <2>8, CreationLoads
  <2>9. ASSUME NEW seen \in SUBSET Exists, NEW valid \in Judgements, ScanTick(seen, valid) \/ Sync(seen, valid)
        PROVE  CreationInv'
    BY <2>9, CreationScan, CreationSync
  <2> QED
    BY <2>1, <2>2, <2>3, <2>4, <2>5, <2>6, <2>7, <2>8, <2>9 DEF CcNext
<1> QED
  BY <1>1, <1>2, PTL DEF CcSpec

\* CreationSound: what a client tells the server of its own characters is of one
\* faction, of no remote player's body and told once; the vote ends in time, and a
\* connection has the full hook (Hook_CharacterCreate and SendExistingEntitiesToServer).
THEOREM CreationIsSound == CcSpec => []CreationSound
<1>1. CreationInv => CreationSound
  <2> SUFFICES ASSUME CreationInv PROVE CreationSound
    OBVIOUS
  <2>1. CcTypeOK
    <3>1. /\ Len(scan.cands) <= MaxCand /\ scan.count \in 0 .. ScanWindow /\ scan.done \in BOOLEAN
      BY DEF CreationInv, HookInv, VoteTypes
    <3>2. creates \in 0 .. CreateBound /\ retries \in 0 .. ScanRetries
      BY BoundsAreNumbers DEF CreationInv, HookInv, HookTypes
    <3>3. /\ {passes, capsDone, captured, smFactory, gameReady, online, acking, squadDone, resetDue} \subseteq BOOLEAN
          /\ {early, fallback, local} \subseteq Factions \cup {NoFac, Stale}
          /\ stage \in {"menu", "loading", "ready"}
          /\ call \in {"none", "loaded", "voting", "burst", "full"}
      BY DEF CreationInv, HookInv, HookTypes, Pointers
    <3>4. /\ DOMAIN role \subseteq Exists /\ Exists \subseteq Chars
          /\ \A ch \in DOMAIN role : role[ch] \in {"own", "former", "remote"}
      BY DEF CreationInv, ObjectTypes, Exists
    <3> QED
      BY <3>1, <3>2, <3>3, <3>4 DEF CcTypeOK
  <2>2. AnnouncedRight
    <3>1. told \in [Chars -> {0, 1}] /\ DOMAIN role \subseteq Chars
      BY DEF CreationInv, ObjectTypes
    <3> QED
      BY <3>1 DEF CreationInv, ToldInv, AnnouncedRight
  <2>3. HookModeRight
    BY DEF CreationInv, HookInv, ModeInv, HookModeRight
  <2> QED
    BY <2>1, <2>2, <2>3 DEF CreationSound
<1> QED
  BY <1>1, CreationInvariant, PTL
=============================================================================
