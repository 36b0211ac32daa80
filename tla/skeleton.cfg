\* Reorgs during a fill, late answers, failed calls and a restart.
SPECIFICATION Spec
CONSTANTS
    Blocks <- MCBlocks
    Genesis = "g"
    Number <- MCNumber
    Path <- MCPath
    NoBlock = NoBlock
    Heads = {"g", "a4", "b2"}
    BackStep = 1
    MergeMinimum = 1
    MaxEvents = 3
    MaxRestarts = 1
INVARIANTS
    TypeOK
    Backed
    FillNotStuck
PROPERTIES
    NothingLost
    Filled
CHECK_DEADLOCK FALSE
