SPECIFICATION Spec
CONSTANTS
    t1 = t1  t2 = t2  t3 = t3
    Tasks = {t1, t3}
    Unroutable = {t3}
    MaxRuns = 2
INVARIANTS
    UnroutableIsFailure
CHECK_DEADLOCK FALSE
