SPECIFICATION MCSpec
CONSTANTS
    Parts = {"spawns", "templates", "engines", "pump", "motion", "teleport"}
    p1 = p1
    m1 = m1
    Objects = {m1, n1, n2}
    BadObjects = {}
    NoObject = NoObject
    ServerIds = {1, 2}
    FirstLocal = 4
    LocalBound = 0
    Players = {p1}
    Zones = {z1}
    OwnerOf <- MCOwnerOf
    ModCharOf <- MCModCharOf
    Nearby = {1}
    HasOwn = TRUE
    DirectCap = 1
    HijackCap = 1
    MaxRetries = 2
    MessageBound = 2
    SessionBound = 2
    f1 = f1
    c1 = c1
    c2 = c2
    odd = odd
    main = main
    stray = stray
    Entries <- MCEntries
    Heaps <- MCHeaps
    EntryName <- MCEntryName
    EntryManager <- MCEntryManager
    EntryId <- MCEntryId
    MaxId = 2
    IsCharacter <- MCIsCharacter
    Managers = {main, stray}
    ModSlots = {1, 2}
    SlotName <- MCSlotName
    DisplayName <- MCDisplayName
    Pointers <- MCPointers
    Nothing = Nothing
    Unlike = Unlike
    FewTemplates = 3
    ScanLimit = 2
    CreateLimit = 2
    ConnectLimit = 2
    IdLimit = 3
    Grid <- MCGrid
    Nowhere = Nowhere
    Placed <- MCPlaced
    Mine <- MCMine
    ZoneMax = 500
    Radius = 1
    AfkTimeout = 1
    AfkEvery = 2
    WireLimit = 1
    Remotes = {1, 2}
    MaxAsk = 2
    Patience = 1
    Gap = 1
    DirectTries = 2
    ScanTries = 2
    Farthest = 2
    Threshold = 1
    SpawnBound = 3
    TpWait = 1
    HtBound = 2
SYMMETRY CharacterSymmetry
CHECK_DEADLOCK FALSE
INVARIANT BodiesRight
