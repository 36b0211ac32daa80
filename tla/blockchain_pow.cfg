\* Proof of work, with full blocks and bare headers; no operator resets.
SPECIFICATION Spec
CONSTANTS
    Blocks <- MCBlocks
    Genesis = "g"
    Number <- MCNumber
    Path <- MCPath
    Names = {"vm"}
    NoBlock = NoBlock
    Difficulty <- WorkDifficulty
    Empty = {"b2"}
    Headers = {"a1", "a2", "b2", "b3"}
    ProofOfStake = FALSE
    Listener = TRUE
    ConsensusMayThrow = FALSE
    MaxBlocks = 2
    ResetTargets = {}
INVARIANTS
    CanonicalIndex
    HeadsCanonical
    HeaviestHead
PROPERTIES
    ImplementsCanonicalChain
