SPECIFICATION FairSpec
CONSTANTS
    Workers = {w1, w2}
    Channels = {1, 2, 3, 4, 5, 6}
    PoolSize = 2
    None = None
    InitialBackoff = 1
    MaxBackoff = 2
    MaxConns = 3
INVARIANTS
    TypeOK
    PoolNeverShrinks
    NoChannelForgotten
    NothingLeftOpen
    WokenByRefill
PROPERTIES
    BorrowersServed
    KeepsPort
CHECK_DEADLOCK FALSE
