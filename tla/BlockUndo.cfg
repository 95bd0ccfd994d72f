SPECIFICATION Spec
CONSTANTS
    Txids <- TxidsC
    Vin <- VinC
    Vout <- VoutC
    Unspendable <- UnspendableC
    Version <- VersionC
    Bodies <- BodiesC
    Maturity = 2
    MaxHeight = 5
    MaxDisconnects = 2
INVARIANTS
    CoinsAreThoseOfTheChain
    TipDisconnectsCleanly
    UnspentIsIncludedMinusSpent
CHECK_DEADLOCK FALSE
