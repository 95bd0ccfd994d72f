SPECIFICATION Spec
CONSTANTS
    t1 = t1
    t2 = t2
    full = full
    half = half
    h1 = h1
    h2 = h2
    Pruned = Pruned
    NullHash = NullHash
    Txids <- MCTxids
    Coins <- MCCoins
    Hashes <- MCHashes
PROPERTY ImplementsMap
