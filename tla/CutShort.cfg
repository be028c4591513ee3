SPECIFICATION Spec
CONSTANTS
    Workers = {w1}
    Cases = {1, 2}
    Catalogues = {{1, 2}}
    BatchSize = 1
    Changing = {}
    MaxChanges = 0
INVARIANTS
    CutShortIsAnError
CHECK_DEADLOCK FALSE
