SPECIFICATION FairSpec
CONSTANTS
    Tx <- SpendTx
    Outpoint <- SpendOutpoint
    Coin <- SpendCoin
    Ins <- SpendIns
    TxOf <- SpendTxOf
    Coinbase = {}
    Maturity = 2
    MaxBlocks = 3
    MaxReorgs = 1
    NoTx = NoTx
    MaxCrashes = 0
PROPERTIES
    CatchesUp
