SPECIFICATION Spec
CONSTANTS
    Tx <- SpendTx
    Outpoint <- SpendOutpoint
    Coin <- SpendCoin
    Ins <- SpendIns
    TxOf <- SpendTxOf
    Coinbase = {}
    Maturity = 2
    MaxBlocks = 3
    MaxReorgs = 1
    NoTx = NoTx
    MaxCrashes = 1
INVARIANTS
    NotMoreUnlessCrashed
    AllUpdatesUnlessCrashed
    NothingLost
    ConfirmedSomewhere
    NeverPanics
