SPECIFICATION MCSpec
CONSTANTS
    Parts = {"session", "creation"}
    AutoConnect = TRUE
    MaxAttempts = 3
    ClickBound = 3
    HandlersOverlap = FALSE
    Chars = {c1, c2}
    Namesakes = {c1}
    OwnFac = OwnFac
    NpcFac = NpcFac
    NoFac = NoFac
    Stale = Stale
    ScanWindow = 2
    SafetyLimit = 1
    MaxCand = 2
    NameBonus = 10
    ScanRetries = 2
    Episodes = 3
    CreateBound = 3
CHECK_DEADLOCK FALSE
INVARIANTS SessionTypeOK HooksFollowSession OneHandshake 
PROPERTIES LostNoticed SessionSettles
