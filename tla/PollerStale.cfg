SPECIFICATION Spec
CONSTANTS
    Tx <- PairTx
    Outpoint <- PairOutpoint
    Coin <- PairCoin
    Ins <- PairIns
    TxOf <- PairTxOf
    Coinbase = {}
    Maturity = 2
    MaxBlocks = 3
    MaxReorgs = 1
    NoTx = NoTx
    MaxCrashes = 1
INVARIANTS
    NotMore
