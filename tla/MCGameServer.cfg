SPECIFICATION Spec
CONSTANTS
    p1 = p1
    p2 = p2
    p3 = p3
    a = a
    b = b
    c = c
    Peers = {p1, p2, p3}
    Names = {a, b, c}
    MaxPlayers = 2
    MaxSyncEntities = 1
    Positions = {"ok"}
    UniqueNames = TRUE
    AllocCanFail = FALSE
    PlayerBound = 3
    EntityBound = 2
SYMMETRY Symmetry
INVARIANTS TypeOK SessionsSound OwnershipSound
PROPERTIES NoTheft ImplementsLedger
