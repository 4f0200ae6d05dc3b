SPECIFICATION MCSpec
CONSTANTS
    e1 = e1
    w1 = w1
    w2 = w2
    none = none
    q1 = q1
    q2 = q2
    q3 = q3
    batch = batch
    Endpoints <- OneEndpoint
    Workers <- TwoWorkers
    None = none
    Lanes <- SomeLanes
    MaxAge = 1
    MaxPublish = 2
    MaxCrashes = 1
    Requests <- Three
    N = 2
    Jobs <- ThreeJobs
    Width <- ThreeWidth
    Batch = batch
    Scenarios <- Benign
    MaxBringups = 2
    MaxSignals = 1
    Weathers <- SomeWeathers
INVARIANTS
    BookedOnce
    OwnAnswers
    TornDown
PROPERTIES
    ScanEnds
    Served
    NodeEnds
    PromiseSpec
CHECK_DEADLOCK FALSE
