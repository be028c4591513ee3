SPECIFICATION FairSpec
CONSTANTS
    Workers = {w1, w2}
    Cases = {1, 2, 3, 4, 5, 6, 7, 8, 9}
    Catalogues = {{}, {1, 2, 3, 4, 6, 7, 8, 9}}
    BatchSize = 2
    Changing = {1, 5, 9}
    MaxChanges = 1
INVARIANTS
    TypeOK
    NilMeansComplete
    CauseIsReported
PROPERTIES
    StreamEnds
    StreamProceeds
CHECK_DEADLOCK FALSE
