SPECIFICATION Spec
CONSTANTS
    Tx <- SpendTx
    Outpoint <- SweepOutpoint
    Coin <- SweepCoin
    Ins <- SpendIns
    TxOf <- SweepTxOf
    Coinbase = {}
    Maturity = 2
    MaxBlocks = 3
    MaxReorgs = 1
    NoTx = NoTx
    MaxCrashes = 0
INVARIANTS
    NeverPanics
