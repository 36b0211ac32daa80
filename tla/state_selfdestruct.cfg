CONSTANTS
    Contract = Contract
    Vacant = Vacant
    Precompile = Precompile
    SlotA = SlotA
    SlotB = SlotB
    Address <- MCAddress
    Account <- MCAccount
    NoAccount = NoAccount
    NotCached = NotCached
    NoEntry = NoEntry
    Slot <- MCSlot
    Value <- MCValue
    NoTrie = NoTrie
    Genesis <- MCGenesis
    Creatable = {Vacant}
    Miner = Vacant
    Withdrawers = {Vacant}
    Ripemd = Precompile
    EIP6780 = FALSE
    MaxDepth = 1
    MaxOps = 4
    MaxTxs = 2
    MaxBlocks = 1
    MaxSteps = 9
SYMMETRY MCSymmetry
SPECIFICATION Spec
INVARIANTS
    StorageGoneWithAccount
CHECK_DEADLOCK FALSE
