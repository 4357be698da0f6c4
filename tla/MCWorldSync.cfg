SPECIFICATION Spec
CHECK_DEADLOCK FALSE
CONSTANTS
    Parts = {"relay", "join", "motion"}
    ann = ann  bob = bob  cyd = cyd  hat = hat  axe = axe
    Players = {ann, bob, cyd}
    Founders = {ann, bob}
    Things = {hat, axe}
    KeeperOf <- MCKeeperOf
    Topics = {"items", "gear", "relation", "place", "notice"}
    Relations <- MCRelations
    Gear = {0, 1, 2}
    Slot = 13
    Places = {0, 1}
    None = None
    ChangeBound = 3
    Clients = {ann, bob}
    Characters = {1, 2}
    Nil = Nil  Own = Own
    JoinBound = 3
    Bodies = {body}
    ServerOwned = {body}
    Spots = {0, 180, 1800}
    RingSize = 2
    Delays = {1, 2}
    FirstDelay = 1
    ExtrapMax = 2
    VelocityMax = 4
    SnapMin = 90
    SnapMax = 900
    SnapTime = 3
    PendingAge = 1
    MailEnd = 3
    MailBound = 3
    Horizon = 8
    FrameTimes = {1}
INVARIANTS WorldTypeOK CopiesAgree BarrierOpens OneMaster MotionSound
PROPERTY WorldSettles
