SPECIFICATION FairSpec
CONSTANTS
    k1 = k1  k2 = k2
    s1 = s1  c1 = c1
    v1 = v1  v2 = v2
    Keys = {k1, k2}
    Versions = {v1, v2}
    Tokens = {1, 2, 3}
    NoVersion = NoVersion
    NoToken = NoToken
    Singles = {s1}
    Chunks = {c1}
    Relays = {r1}
    Work <- MCWork
    Wants <- MCWantsOther
    Bound = {v1}
    Reports = {"FAILED"}
    MaxAttempts = 2
    BatchLimit = 2
    MaxFaults = 1
INVARIANTS
    RightVersion
PROPERTIES
    KeepsPromise
    EverySettled
    EveryCallAnswered
CHECK_DEADLOCK FALSE
