SPECIFICATION FairSpec
CONSTANTS
    t1 = t1  t2 = t2  t3 = t3
    Tasks = {t1, t2, t3}
    Unroutable = {t3}
    MaxRuns = 3
INVARIANTS
    ResultPartitionsBatch
    SuccessWasTaken
    ReturnsAreFailures
    CleanHandOver
PROPERTIES
    KeepsContract
    RunReturns
CHECK_DEADLOCK FALSE
