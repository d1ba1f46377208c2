SPECIFICATION RescanSpec
CONSTANTS
    Tx <- MCTx
    Outpoint <- MCOutpoint
    Coin <- MCCoin
    Ins <- MCIns
    TxOf <- MCTxOf
    Coinbase <- MCCoinbase
    Maturity = 2
    MaxBlocks = 4
    MaxReorgs = 0
    MaxCrashes = 0
    NoTx = NoTx
    Client = {c1, c2}
    Time = {1, 2}
    History <- MCHistory
    MaxAborts = 0
INVARIANTS
    SeenSinceTimestamp
