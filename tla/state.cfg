CONSTANTS
    Contract = Contract
    Vacant = Vacant
    Precompile = Precompile
    SlotA = SlotA
    SlotB = SlotB
    Address <- MCAddress
    Account <- MCAccount
    NoAccount = NoAccount
    NotCached = NotCached
    NoEntry = NoEntry
    Slot <- MCSlot
    Value <- MCValue
    NoTrie = NoTrie
    Genesis <- MCGenesis
    Creatable = {Vacant}
    Miner = Vacant
    Withdrawers = {Vacant}
    Ripemd = Precompile
    EIP6780 = TRUE
    MaxDepth = 1
    MaxOps = 4
    MaxTxs = 2
    MaxBlocks = 2
    MaxSteps = 6
SYMMETRY MCSymmetry
SPECIFICATION Spec
INVARIANTS
    TypeOK
    Coherent
    RootIsWorld
    OriginalIsTxStart
    NoEmptyAccounts
CHECK_DEADLOCK FALSE
PROPERTIES
    WorldCheckpoints
    JournalCheckpoints
    TransientCheckpoints
    ImplementsStack
    ComponentSteps
