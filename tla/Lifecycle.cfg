SPECIFICATION FairSpec
CONSTANTS
    Singles = {s1}
    Batches = {b1, b2, b3}
    Silent = {b1}
    MaxConcurrentBatches = 2
    PoolSize = 2
    MaxMore = 1
INVARIANTS
    TypeOK
    SlotsBalanced
    ClosedBehindLastUser
    CleanExit
PROPERTIES
    ShutdownProceeds
    ShutdownEnds
    SlotsServed
CHECK_DEADLOCK FALSE
