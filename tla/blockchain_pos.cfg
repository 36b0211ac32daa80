\* Proof of stake, full blocks only: the configuration of the engine API node.
SPECIFICATION Spec
CONSTANTS
    Blocks <- MCBlocks
    Genesis = "g"
    Number <- MCNumber
    Path <- MCPath
    Names = {"vm"}
    NoBlock = NoBlock
    Difficulty <- NoDifficulty
    Empty = {}
    Headers = {}
    ProofOfStake = TRUE
    Listener = TRUE
    ConsensusMayThrow = FALSE
    MaxBlocks = 3
    ResetTargets = {0, 1, 2}
INVARIANTS
    TypeOK
    CanonicalIndex
    HeadsCanonical
    CrashLosesNothing
    HeadBlockIsHead
PROPERTIES
    ReorgOnlyRewinds
    IteratorInSequence
    ImplementsCanonicalChain
