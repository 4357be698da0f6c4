SPECIFICATION FairSpec
CONSTANTS
    w1 = w1
    w2 = w2
    Workers = {w1, w2}
    UseSyncOrchestrator = TRUE
    MaxDisconnects = 2
CHECK_DEADLOCK FALSE
INVARIANTS PendingExact QuiescentSwap
PROPERTY TasksRun
