------------------------------- MODULE Rescan -------------------------------
(***************************************************************************)
(* Rescanning the block chain for the wallet's past transactions.  A        *)
(* client's `startrescan` (commands/mod.rs) makes bitcoind scan the chain   *)
(* from a date and records the date; at the end of each poll rescan_check() *)
(* (looper.rs) looks whether the scan is over, rolls the wallet back to     *)
(* before the date, and runs updates() again.                               *)
(*                                                                         *)
(* The command runs in a thread of its own and takes several steps, between *)
(* which other threads, the poller and the node move.  The wallet starts on *)
(* a chain with History, which bitcoind did not scan for it.  The blocks of *)
(* height h have time h: only the order of dates and blocks matters.        *)
(***************************************************************************)
EXTENDS Poller, Sequences

CONSTANTS
    Client,   \* the threads that may ask for a rescan
    Time,     \* the dates they ask to rescan from
    History,  \* the transactions of each block mined before the wallet existed
    MaxAborts \* bound: how often bitcoind is stopped in the middle of a scan

NoTime == -1

\* A chain does not hold a transaction twice.
ASSUME RescanAssumption ==
    /\ Time \subseteq Nat
    /\ History \in Seq(SUBSET Tx)
    /\ Len(History) < MaxBlocks
    /\ \A i, j \in DOMAIN History : i # j => History[i] \cap History[j] = {}
    /\ MaxAborts \in Nat

\* Nor two that spend the same output, and it has what a transaction spends before it.
ASSUME HistoryAssumption ==
    /\ \A i, j \in DOMAIN History :
          \A t \in History[i], u \in History[j] : ~Conflicts(t, u)
    /\ \A i \in DOMAIN History : \A t \in History[i] :
          Parents(t) \subseteq UNION {History[j] : j \in 1 .. i}

VARIABLES
    rescanTs, \* wallets.rescan_timestamp
    walletTs, \* wallets.timestamp
    scanning, \* the date bitcoind is scanning from
    aborts,
    command,  \* command[r]: where startrescan is in thread r, and its date
    seenTs,   \* rescan_check(): rescan_timestamp
    again     \* whether the poll runs updates() a second time

rescanVars == <<rescanTs, walletTs, scanning, aborts, command, seenTs, again>>
allVars == <<vars, rescanVars>>

NoCommand == [at |-> "none", time |-> NoTime]

RescanTypeOK ==
    /\ {rescanTs, scanning, seenTs} \subseteq Time \cup {NoTime}
    /\ walletTs \in Nat
    /\ aborts \in 0 .. MaxAborts
    /\ command \in [Client -> [at : {"none", "progress", "start", "record"},
                               time : Time \cup {NoTime}]]
    /\ again \in BOOLEAN
    /\ Maps(coins, Row)
    /\ {dbTip, tip} \subseteq DOMAIN blocks

RescanInit ==
    /\ blocks = [b \in 0 .. Len(History) |->
                    [height |-> b, anc |-> 0 .. b,
                     txs |-> IF b = 0 THEN {} ELSE History[b]]]
    /\ best = Len(History)
    /\ mempool = {} /\ known = {} /\ reorgs = 0
    /\ pc = "Idle" /\ dbTip = 0 /\ coins = None /\ savedTxs = {}
    /\ tip = 0 /\ updated = NothingUpdated /\ crashes = 0
    /\ rescanTs = NoTime
    /\ walletTs = Len(History) + 1
    /\ scanning = NoTime
    /\ aborts = 0
    /\ command = [r \in Client |-> NoCommand]
    /\ seenTs = NoTime
    /\ again = FALSE

-----------------------------------------------------------------------------
(* start_rescan() of the commands. *)

Command(r, at, time) ==
    /\ command' = [command EXCEPT ![r] = [at |-> at, time |-> time]]
    /\ UNCHANGED <<vars, walletTs, aborts, seenTs, again>>

\* The date must be after the genesis block and before the tip, and no rescan may
\* have been asked for.
AskRescan(r, time) ==
    /\ command[r].at = "none"
    /\ time < Height(best)
    /\ rescanTs = NoTime
    /\ Command(r, "progress", time)
    /\ UNCHANGED <<rescanTs, scanning>>

\* "There is already a rescan ongoing": the command fails if bitcoind is scanning.
CheckProgress(r) ==
    /\ command[r].at = "progress"
    /\ IF scanning = NoTime THEN Command(r, "start", command[r].time)
                            ELSE Command(r, "none", NoTime)
    /\ UNCHANGED <<rescanTs, scanning>>

\* bitcoin.start_rescan(): bitcoind refuses a second scan while one is ongoing, which
\* shows in the date of its descriptors.
StartScan(r) ==
    LET time == command[r].time
    IN  /\ command[r].at = "start"
        /\ IF scanning \in {NoTime, time}
           THEN Command(r, "record", time) /\ scanning' = time
           ELSE Command(r, "none", NoTime) /\ UNCHANGED scanning
        /\ UNCHANGED rescanTs

\* set_rescan()
RecordRescan(r) ==
    /\ command[r].at = "record"
    /\ rescanTs' = command[r].time
    /\ Command(r, "none", NoTime)
    /\ UNCHANGED scanning

StartRescan(r) ==
    \/ \E time \in Time : AskRescan(r, time)
    \/ CheckProgress(r)
    \/ StartScan(r)
    \/ RecordRescan(r)

-----------------------------------------------------------------------------
(* bitcoind. *)

Backend ==
    /\ scanning # NoTime
    /\ scanning' = NoTime
    /\ UNCHANGED <<blocks, best, mempool, reorgs, pollerVars>>
    /\ UNCHANGED <<rescanTs, walletTs, command, seenTs, again>>

ScannedUpTo(h) == {t \in TxsOn(best) : HeightOn(t, best) \in scanning .. h}

\* The scan is over: the wallet knows the transactions since the date.
FinishScan ==
    /\ Backend
    /\ known' = known \cup ScannedUpTo(Height(best))
    /\ UNCHANGED aborts

\* bitcoind is stopped, or told to abort: it will not resume the scan, and knows what
\* it had found.
AbortScan ==
    /\ Backend
    /\ aborts < MaxAborts
    /\ aborts' = aborts + 1
    /\ \E h \in 0 .. Height(best) : known' = known \cup ScannedUpTo(h)

-----------------------------------------------------------------------------
(* rescan_check() of the poller. *)

Step(label) == GoTo(label) /\ UNCHANGED <<rescanTs, scanning, aborts, command>>

StayOn == UNCHANGED <<chainVars, dbVars, tip, updated, crashes, walletTs>>

\* rescan_timestamp(), unless updates() ran because of it.
ReadTimestamp ==
    /\ pc = "Polled"
    /\ seenTs' = IF again THEN NoTime ELSE rescanTs
    /\ Step(IF again THEN "Idle" ELSE "Progress")
    /\ again' = FALSE
    /\ StayOn

\* A bug: the condition is inverted.
ScanOngoing == scanning # NoTime /\ seenTs # NoTime

\* Without progress, a rescan that was asked for is over.
ScanOver == scanning = NoTime /\ seenTs # NoTime

\* rescan_progress()
ReadProgress ==
    /\ pc = "Progress"
    /\ Step(IF ScanOver THEN "BlockBefore" ELSE "Idle")
    /\ UNCHANGED <<seenTs, again>>
    /\ StayOn

\* A bug: the first block of the date, which the rollback would keep.
BlockAt(time) == {b \in Chain(best) : Height(b) = time}

BlockBefore(time) ==
    {b \in Chain(best) : Height(b) = IF time = 0 THEN 0 ELSE time - 1}

\* block_before_date(): the last block of the active chain before the date, if the
\* date is in the range of the chain.
FindBlockBefore ==
    /\ pc = "BlockBefore"
    /\ IF seenTs < Height(best)
       THEN tip' \in BlockBefore(seenTs) /\ Step("RescanRollback")
       ELSE UNCHANGED tip /\ Step("Idle")
    /\ UNCHANGED <<chainVars, dbVars, updated, crashes, walletTs, seenTs, again>>

RescanRollback ==
    /\ pc = "RescanRollback"
    /\ RollbackTip(tip)
    /\ Step("Complete")
    /\ UNCHANGED <<walletTs, seenTs, again>>

\* complete_rescan(): panics if there is no date any more.
CompleteRescan ==
    /\ pc = "Complete"
    /\ IF rescanTs = NoTime
       THEN GoTo("Panicked") /\ UNCHANGED <<rescanTs, walletTs, again>>
       ELSE /\ walletTs' = IF rescanTs < walletTs THEN rescanTs ELSE walletTs
            /\ rescanTs' = NoTime
            /\ again' = TRUE
            /\ GoTo("Tip")
    /\ UNCHANGED <<chainVars, dbVars, tip, updated, crashes>>
    /\ UNCHANGED <<scanning, aborts, command, seenTs>>

RescanCheck == \/ ReadTimestamp \/ ReadProgress \/ FindBlockBefore
               \/ RescanRollback \/ CompleteRescan

-----------------------------------------------------------------------------
\* lianad dies with all its threads and is started again; bitcoind goes on.
Restart ==
    /\ crashes < MaxCrashes
    /\ crashes' = crashes + 1
    /\ tip' = dbTip /\ updated' = NothingUpdated /\ seenTs' = NoTime
    /\ again' = FALSE
    /\ command' = [r \in Client |-> NoCommand]
    /\ GoTo("Idle")
    /\ UNCHANGED <<chainVars, dbVars, rescanTs, walletTs, scanning, aborts>>

PollStep == (StartPoll \/ Queries \/ Writes) /\ UNCHANGED rescanVars

RescanNext ==
    \/ Node /\ UNCHANGED rescanVars
    \/ PollStep
    \/ RescanCheck
    \/ \E r \in Client : StartRescan(r)
    \/ FinishScan \/ AbortScan
    \/ Restart

\* The poller and the commands keep going, and bitcoind ends its scans.
RescanFairness ==
    /\ WF_allVars(PollStep \/ RescanCheck)
    /\ WF_allVars(FinishScan)
    /\ \A r \in Client :
          WF_allVars(CheckProgress(r) \/ StartScan(r) \/ RecordRescan(r))

RescanSpec == RescanInit /\ [][RescanNext]_allVars
FairRescanSpec == RescanSpec /\ RescanFairness

-----------------------------------------------------------------------------
\* "The 'timestamp' field is the creation date of the wallet.  We guarantee to have
\* seen all information related to our descriptor(s) that occurred after this date."
\* (schema.rs) As far as the database's tip goes: the coins since the date, which are
\* confirmed once they are mature, and what spent the coins that are there.
CoinsSeen ==
    \A c \in Coin : LET h == HeightOn(TxOf[c], dbTip) IN
        h # NoHeight /\ h >= walletTs =>
            /\ c \in DOMAIN coins
            /\ MatureOn(TxOf[c], dbTip) => coins[c].height = h

SpendsSeen ==
    \A c \in DOMAIN coins, t \in TxsOn(dbTip) :
        c \in Ins[t] => /\ coins[c].spendTx = t
                       /\ coins[c].spendHeight = HeightOn(t, dbTip)

SeenSinceTimestamp == CoinsSeen /\ SpendsSeen

\* The guarantee as long as no scan was cut short: a scan that bitcoind aborted is
\* recorded like one that it completed.
SeenUnlessAborted == aborts = 0 => SeenSinceTimestamp

\* A rescan that is recorded is completed.
RescanCompletes == rescanTs # NoTime ~> rescanTs = NoTime
=============================================================================
