SPECIFICATION FairRescanSpec
CONSTANTS
    Tx <- MCTx
    Outpoint <- MCOutpoint
    Coin <- MCCoin
    Ins <- MCIns
    TxOf <- MCTxOf
    Coinbase <- MCCoinbase
    Maturity = 2
    MaxBlocks = 5
    MaxReorgs = 0
    MaxCrashes = 1
    NoTx = NoTx
    Client = {c1}
    Time = {1, 2}
    History <- MCHistory
    MaxAborts = 1
INVARIANTS
    RescanTypeOK
    SeenUnlessAborted
PROPERTIES
    RescanCompletes
