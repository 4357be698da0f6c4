SPECIFICATION Spec
CONSTANTS
    p1 = p1
    p2 = p2
    a = a
    b = b
    Peers = {p1, p2}
    Names = {a, b}
    MaxPlayers = 2
    MaxSyncEntities = 2
    Positions = {"ok", "far", "nan"}
    UniqueNames = FALSE
    AllocCanFail = TRUE
    PlayerBound = 2
    EntityBound = 2
SYMMETRY Symmetry
INVARIANT NoDoubleClaim
PROPERTY ReclaimAll
