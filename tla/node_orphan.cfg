SPECIFICATION Spec
CONSTANTS
    MaxBringups = 1
    MaxSignals = 0
    Weathers <- Weather
INVARIANTS
    TreeSignalled
CHECK_DEADLOCK FALSE
