SPECIFICATION Spec
CONSTANTS
    k1 = k1  k2 = k2
    s1 = s1  c1 = c1
    v1 = v1  v2 = v2
    Keys = {k1}
    Versions = {v1, v2}
    Tokens = {1, 2}
    NoVersion = NoVersion
    NoToken = NoToken
    Singles = {s1}
    Chunks = {}
    Relays = {r1}
    Work <- MCWork
    Wants <- MCWants
    Bound = {v1}
    Reports = {"RUNNING", "SUCCESS"}
    MaxAttempts = 2
    BatchLimit = 2
    MaxFaults = 1
INVARIANTS
    DispatchFailedMeansUndelivered
CHECK_DEADLOCK FALSE
