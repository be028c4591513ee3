SPECIFICATION Spec
CONSTANTS
    Workers = {w1}
    Channels = {1, 2, 3}
    PoolSize = 1
    None = None
    InitialBackoff = 1
    MaxBackoff = 2
    MaxConns = 2
PROPERTIES
    NothingPooledWhileDisconnected
CHECK_DEADLOCK FALSE
