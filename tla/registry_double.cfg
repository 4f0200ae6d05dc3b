SPECIFICATION Spec
CONSTANTS
    Endpoints = {e1}
    Workers = {w1, w2}
    None = none
    Lanes = {{}}
    MaxAge = 1
    MaxPublish = 1
    MaxCrashes = 0
INVARIANTS
    Exclusive
CHECK_DEADLOCK FALSE
