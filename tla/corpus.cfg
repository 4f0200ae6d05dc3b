SPECIFICATION MCSpec
CONSTANTS
    fr = fr
    en = en
    dense = dense
    late = late
    b1 = b1
    b2 = b2
    Cells = {fr, en}
    Blocks <- TwoCells
    Legs <- TwoLegs
    Builders = {b1, b2}
    PartBlocks = 2
    Scenarios <- Kept
    Texts <- SomeDocs
    MinTokens = 2
    UnitCap = 4
    MayCross = TRUE
    MaySplit = TRUE
    Faults = {"stray", "mute"}
    MaxDamaged = 1
    Budget = 6
    NearFull = 4
    PackOverlap = 3
    Growths = {0, 2}
    StageTables <- SomeCorpora
    ShardNumbers = {1, 2, 3}
    RowGroups = {2}
    Packings <- ThreePackings
    FusedCells <- FrenchTwice
    FusedRenderings <- BothRenderings
    FusedLegs <- DenseLate
    FusedPart = 1
    MaxParts = 2
    FusedKills = 1
    Trees <- SomeTrees
    TreeRenderings <- TwoMT
    TreePart = 3
    Floor = 4
    Ceiling = 9
    PartsPerCell = 2
    PassagesPerPart = 3
    TopK = 2
INVARIANTS
    MarkedWhole
    IndexExact
    MergeLocal
    EnglishOwn
    CitableWhole
    ShardFree
    ManifestExact
    Verdict
    ReleaseExact
PROPERTIES
    IndexEnds
CHECK_DEADLOCK FALSE
