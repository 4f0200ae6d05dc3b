SPECIFICATION Spec
CONSTANTS
    Q = 3
    W = 2
    M = 2
    MaxDeaths = 1
INVARIANTS
    LegsOwn
CHECK_DEADLOCK FALSE
