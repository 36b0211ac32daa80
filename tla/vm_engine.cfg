\* Engine API node: skeleton fill with resets, newPayload, forkchoiceUpdated and stop.
SPECIFICATION HistorySpec
CONSTANTS
    Blocks <- MCBlocks
    Genesis = "g"
    Number <- MCNumber
    Path <- MCPath
    Names = {"vm"}
    NoBlock = NoBlock
    Difficulty <- NoDifficulty
    Empty = {}
    Headers = {}
    ProofOfStake = TRUE
    Listener = FALSE
    ConsensusMayThrow = FALSE
    MaxBlocks = 2
    ResetTargets = {0, 1}
    Faulty = {"a2"}
    SkipLower = TRUE
    MaxEvents = 6
INVARIANTS
    VMTypeOK
    OnlyRaceLosesHead
PROPERTIES
    ClosedIsQuiet
    RunReturns
    StopCloses
CHECK_DEADLOCK FALSE
