SPECIFICATION CsSpec
CHECK_DEADLOCK FALSE
CONSTANTS
    m1 = m1  m2 = m2  f1 = f1  f2 = f2
    Machines = {m1, m2}
    Fighters = {f1, f2}
    Nobody = Nobody
    OwnerOf <- MCOwnerOf
    RingSize <- MCRingSize
    EventsPerTick = 1
    FightBound = 2
INVARIANTS CsTypeOK NoPhantoms
PROPERTY DeathSettles
