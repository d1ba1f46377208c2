SPECIFICATION WorldsSpec
CONSTANTS
    Tx <- WorldsTx
    Outpoint <- WorldsOutpoint
    Coin <- WorldsCoin
    Ins <- WorldsIns
    TxOf <- WorldsTxOf
    Coinbase = {"cb"}
    Maturity = 2
    MaxBlocks = 4
    MaxReorgs = 2
    NoTx = NoTx
    MaxCrashes = 0
INVARIANTS
    TypeOK
    AllUpdates
    FromSelfSound
PROPERTIES
    ImplementsLedger
    OnlyExpiredRemoved
