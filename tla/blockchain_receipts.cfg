\* What is announced when blocks leave the canonical chain.
SPECIFICATION Spec
CONSTANTS
    Blocks <- MCBlocks
    Genesis = "g"
    Number <- MCNumber
    Path <- MCPath
    Names = {"vm"}
    NoBlock = NoBlock
    Difficulty <- NoDifficulty
    Empty = {}
    Headers = {}
    ProofOfStake = TRUE
    Listener = TRUE
    ConsensusMayThrow = FALSE
    MaxBlocks = 3
    ResetTargets = {0, 1, 2}
PROPERTIES
    DeletedAreAnnounced
