SPECIFICATION Spec
CONSTANTS
    Threads = {1, 2}
    Builders = {1}
    Stagings = {"none"}
    MaxOpens = 2
    MaxDropped = 0
INVARIANTS
    Absorbed
CHECK_DEADLOCK FALSE
