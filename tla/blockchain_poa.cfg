\* Proof of authority: consensus may reject a block after it was stored.
SPECIFICATION Spec
CONSTANTS
    Blocks <- MCBlocks
    Genesis = "g"
    Number <- MCNumber
    Path <- MCPath
    Names = {"vm"}
    NoBlock = NoBlock
    Difficulty <- WorkDifficulty
    Empty = {}
    Headers = {}
    ProofOfStake = FALSE
    Listener = TRUE
    ConsensusMayThrow = TRUE
    MaxBlocks = 1
    ResetTargets = {1}
INVARIANTS
    IndexIsAncestry
PROPERTIES
    HeadMoveRepairsIndex
