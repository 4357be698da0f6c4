SPECIFICATION FairSpec
CONSTANTS
    w1 = w1
    w2 = w2
    Workers = {w1, w2}
    UseSyncOrchestrator = FALSE
    MaxDisconnects = 0
CHECK_DEADLOCK FALSE
PROPERTY FrameWaitReturns
