SPECIFICATION Spec
CONSTANTS
    k1 = k1  k2 = k2
    s1 = s1  c1 = c1
    v1 = v1  v2 = v2
    Keys = {k1, k2}
    Versions = {v1, v2}
    Tokens = {1, 2, 3, 4}
    NoVersion = NoVersion
    NoToken = NoToken
    Singles = {}
    Chunks = {c1}
    Relays = {r1, r2}
    Work <- MCWork
    Wants <- MCWants
    Bound = {v1}
    Reports = {"RUNNING", "SUCCESS"}
    MaxAttempts = 3
    BatchLimit = 2
    MaxFaults = 1
    MaxDelay = 6
SYMMETRY RelaySymmetry
INVARIANTS
    TypeOK
    PublishedWasQueued
    ClaimsAccounted
    LeaseExclusive
    ResultCoversBatch
    BackoffIsCapped
PROPERTIES
    OnlyHolderSettles
CHECK_DEADLOCK FALSE
