SPECIFICATION FairSpec
CONSTANTS
    Stages = 2
    Tasks = {1, 2}
    Shards = {1, 2}
    MaxSubmits = 2
    Plans <- SomePlans
INVARIANTS
    Gated
PROPERTIES
    ChainEnds
CHECK_DEADLOCK FALSE
