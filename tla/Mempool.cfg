SPECIFICATION Spec
CONSTANTS
    Txids <- TxidsC
    Vin <- VinC
    Vout <- VoutC
    Fee <- FeeC
    Size <- SizeC
    LockTime <- LockTimeC
    RelLock <- RelLockC
    Nonstandard = {"n"}
    Replaceable = {"b"}
    Bodies <- BodiesC
    InitChain <- InitChainC
    Maturity = 2
    KiloByte = 10
    LimitAncestors = 4
    LimitAncestorSize = 5
    LimitDescendants = 3
    LimitDescendantSize = 5
    MaxReplaced = 100
    SizeLimit = 5
    Prioritised = {"a", "b"}
    Deltas = {2}
    MaxExpired = 1
    MaxPrioritised = 1
    MaxHeight = 4
    MaxDisconnects = 2
INVARIANTS
    CheckHolds
    InputsAreAvailable
    PoolFitsNextBlock
    RestartKeepsPool
