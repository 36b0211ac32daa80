\* A reorg while the first block of a run is executed; no block is faulty.
SPECIFICATION VMSpec
CONSTANTS
    Blocks <- MCBlocks
    Genesis = "g"
    Number <- MCNumber
    Path <- MCPath
    Names = {"vm"}
    NoBlock = NoBlock
    Difficulty <- NoDifficulty
    Empty = {}
    Headers = {}
    ProofOfStake = TRUE
    Listener = FALSE
    ConsensusMayThrow = FALSE
    MaxBlocks = 2
    ResetTargets = {}
    Faulty = {}
    SkipLower = TRUE
    MaxEvents = 4
INVARIANTS
    OnlyFaultyInvalid
CHECK_DEADLOCK FALSE
