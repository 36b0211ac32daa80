\* Chain resets that race forkchoiceUpdated.
SPECIFICATION VMSpec
CONSTANTS
    Blocks <- MCBlocks
    Genesis = "g"
    Number <- MCNumber
    Path <- MCPath
    Names = {"vm"}
    NoBlock = NoBlock
    Difficulty <- NoDifficulty
    Empty = {}
    Headers = {}
    ProofOfStake = TRUE
    Listener = FALSE
    ConsensusMayThrow = FALSE
    MaxBlocks = 2
    ResetTargets = {0}
    Faulty = {}
    SkipLower = TRUE
    MaxEvents = 6
INVARIANTS
    VmHeadExecuted
CHECK_DEADLOCK FALSE
