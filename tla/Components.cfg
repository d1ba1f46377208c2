SPECIFICATION ComponentsSpec
CONSTANTS
    c1 = c1
    c2 = c2
    c3 = c3
    Conn <- MCConn
    NoConn = NoConn
    MaxConnections = 2
    MaxBroadcasts = 3
    MaxPanics = 1
    t1 = t1
    t2 = t2
    Thread <- MCThread
    LookAheadLimit = 3
    MaxGap = 2
    MaxIndex = 4
    Updater <- MCThread
    d1 = d1
    Draft <- MCDraft
    alice = alice
    bob = bob
    Signer <- MCSigner
    NoSigner = NoSigner
    Window = 3
    MaxTime = 5
    MaxHeight = 6
    MaxReorgs = 1
    SpendTx <- MCSpendTx
    Utxo <- MCUtxo
    Inputs <- MCInputs
    MadeBy <- MCMadeBy
    Value <- MCValue
    Paid <- MCPaid
    Stored <- MCStored
    Signaling <- MCSignaling
    Chosen <- MCChosen
    BaseSize = 2
    InSize = 2
    OutSize = 1
    Dust = 2
    MinChange = 3
    MaxFee = 80
    MaxFeerate = 14
    Feerates = {0, 1, 3, 4}
    Amounts = {0, 8}
INVARIANTS
    PartsTypeOK
    SlotsCounted
    Coverage
    NoIndexPanic
    GivenAreWatched
    SignaturesKept
    SearchInRange
    FoundLast
    SkippedAreFew
    ReplacementPays
    BeatsFeerate
    Conflicting
    
PROPERTIES
    BroadcastRecorded
    CommandsReturn
    StopStops
    IndexesGrow
    KeySigKept
    SearchEnds
CHECK_DEADLOCK FALSE
