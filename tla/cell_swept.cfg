SPECIFICATION Spec
CONSTANTS
    None = none
    SeedSize = 1
    RMax = 3
    MinNew = 1
    LowStreak = 2
    MaxIds = 3
    MaxGaps = 2
    MaxCrashes = 1
INVARIANTS
    AllServed
CHECK_DEADLOCK FALSE
