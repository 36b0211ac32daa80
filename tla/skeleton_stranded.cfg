\* A restart during a fill, and the same head announced ever after.
SPECIFICATION Spec
CONSTANTS
    Blocks <- MCBlocks
    Genesis = "g"
    Number <- MCNumber
    Path <- MCPath
    NoBlock = NoBlock
    Heads = {"a4"}
    BackStep = 1
    MergeMinimum = 1
    MaxEvents = 2
    MaxRestarts = 1
PROPERTIES
    FetchesAgain
CHECK_DEADLOCK FALSE
