SPECIFICATION MCSpec
CONSTANTS
    a1 = a1
    a2 = a2
    a3 = a3
    b1 = b1
    b2 = b2
    none = none
    c1 = c1
    c2 = c2
    absent = absent
    s1 = s1
    w1 = w1
    w2 = w2
    p1 = p1
    p2 = p2
    v1 = v1
    v2 = v2
    Arms <- ThreeArms
    Banks <- TwoBanks
    None = none
    MaxCrashes = 2
    MinSearches = 2
    MaxIters = 5
    MaxSearches = 3
    TokenBudget = 2
    MaxRetries = 1
    Clients <- TwoClients
    S = 1
    Lanes <- SomeLanes
    Want <- WantedLane
    LaneStarts = 2
    Q = 2
    W = 2
    M = 2
    MaxDeaths = 1
    FanInputs <- SomeFans
    FanTopK = 2
    FanWidths <- OneToThree
    RankInputs <- SomeSearches
    RankLegs <- ThreeLegs
    RankWeights <- SomeWeights
    RankOne = 16
    TopicInputs <- SomeTopics
    KT3 = 2
    AnswersCap = 2
    TopDocs = 3
    Resolution = 2
    Headroom = 6
    Passages <- TwoPassages
    Values <- TwoValues
    Topics <- TwoTopics
    Tasks <- TwoTasks
    PoolSize = 2
    SubmitStarts = 2
    SubmitKills = 1
INVARIANTS
    NoDrift
CHECK_DEADLOCK FALSE
