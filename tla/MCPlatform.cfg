SPECIFICATION MCSpec
CHECK_DEADLOCK FALSE
CONSTANTS
    Parts = {"registry", "stub", "startup", "globals", "master", "neighbours", "browser", "gate", "host"}
    Objects = {o1, o2, bad}
    BadObjects = {bad}
    NoObject = NoObject
    ServerIds = {1, 5}
    FirstLocal = 4
    LocalBound = 2
    Players = {p1, p2}
    Zones = {z1, z2}
    CallBound = 4
    SessionBound = 4
    Slots = {p, q}
    Player = p
    None = None
    LoadBound = 2
    s1 = s1
    s2 = s2
    GameServers = {s1, s2}
    Keys = {"p", "f"}
    PeerKey <- MCPeerKey
    OuterKey <- MCOuterKey
    NoLink = NoLink
    LinkBound = 5
    Favourites = {"f"}
    Master = "m"
    PeerLimit = 2
    RefreshBound = 2
    Resources = {r1, r2}
    Cooldown = 2
    ZoneSettle = 1
    BurstTimeout = 3
    ForceAfter = 3
    LoadEvents = 3
    HostBound = 3
INVARIANTS PlatformTypeOK RegistrySound StubSafe HooksRight GlobalsRight ListsRight HostSound
PROPERTIES IdentityStable GateHonest PlatformSettles
