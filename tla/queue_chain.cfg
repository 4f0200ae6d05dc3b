SPECIFICATION MCSpec
CONSTANTS
    s1 = s1
    s2 = s2
    w1 = w1
    w2 = w2
    none = none
    Shards <- TwoShards
    Workers <- TwoWorkers
    None = none
    KMax = 2
    MaxAge = 0
    Chained = TRUE
    Stalls = TRUE
    Restarts = FALSE
    MaxCrashes = 1
    MaxSeeds = 2
    SeedSize = 2
    RMax = 3
    MinNew = 1
    LowStreak = 2
    MaxIds = 3
    Corpora <- SomeNatives
    Batch = 1
    Children <- Two
    Threads <- Two
    Builders <- Two
    Stagings <- WholeOrShort
    MaxOpens = 2
    MaxDropped = 1
    MaxGaps = 1
    MaxKills = 2
SYMMETRY Symmetric
INVARIANTS
    NoShardLost
    MergeComplete
    SpineExact
    FreshRead
    NoLeak
    RecordsWhole
PROPERTIES
    PoolSpec
    LoopSpec
CHECK_DEADLOCK FALSE
