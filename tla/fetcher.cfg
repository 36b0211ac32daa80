\* Both synchronisers, with late and short answers, failures and a reorg of the peers.
SPECIFICATION Spec
CONSTANTS
    Blocks <- MCBlocks
    Genesis = "g"
    Number <- MCNumber
    Path <- MCPath
    Heads = {"b3", "b4"}
    Starts <- MCStarts
    Peers = {"p", "q"}
    NoPeer = NoPeer
    MaxPerRequest = 2
    MaxFetcherJobs = 2
    MaxFetcherRequests = 2
    MaxQueue = 1
    HighWater = 1
    SafeReorgDistance = 2
    MaxEvents = 2
INVARIANTS
    TypeOK
    JobsAccounted
    StreamInOrder
    NoneForgotten
PROPERTIES
    CatchesUp
CHECK_DEADLOCK FALSE
