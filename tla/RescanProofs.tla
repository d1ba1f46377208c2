---------------------------- MODULE RescanProofs ----------------------------
(***************************************************************************)
(* Rescans, for any history and any sets of transactions, coins, clients and *)
(* dates.  Whatever happens: the types, that no confirmation is invented and *)
(* that a rescan that ends still has its date.  Until the chain is           *)
(* reorganized: that what is recorded up to the tip is in the tip's chain;   *)
(* and that the wallet has seen everything since its date, as long as no     *)
(* scan was aborted.  The last supposes what is known to be needed: one      *)
(* client, and dates that are not later than the wallet's first one          *)
(* (Undisturbed).                                                            *)
(*                                                                         *)
(* The argument: block b is at height b.  The node knows what its chain has  *)
(* from the wallet's date on, and from a rescan's date on once the scan is   *)
(* over, so that a poll finds what is between the recorded tip and its own;   *)
(* and when the wallet's date is set back the recorded tip is before it.     *)
(* A coin comes no later than its spend and a scan ends at the tip, so that   *)
(* the node knows what spent a coin that the wallet has.                     *)
(***************************************************************************)
EXTENDS Rescan, PollerProofs

\* The labels of rescan_check(), besides the poller's.
CheckLabels == {"Progress", "BlockBefore", "RescanRollback", "Complete"}

\* The tables and what a poll collects, as PollerProofs has them, at any label.
TablesInv ==
    /\ ChainInv /\ CoinsInv /\ UpdatedInv
    /\ {dbTip, tip} \subseteq DOMAIN blocks
    /\ savedTxs \subseteq Tx
    /\ crashes \in 0 .. MaxCrashes

RescanTypes ==
    /\ pc \in Labels \cup CheckLabels
    /\ {rescanTs, scanning, seenTs} \subseteq Time \cup {NoTime}
    /\ walletTs \in Nat
    /\ aborts \in 0 .. MaxAborts
    /\ command \in [Client -> [at : {"none", "progress", "start", "record"},
                               time : Time \cup {NoTime}]]
    /\ again \in BOOLEAN

-----------------------------------------------------------------------------
(* Types. *)

\* The initial states satisfy them: the history is a chain of blocks.
LEMMA RescanInitTypes == RescanInit => TablesInv /\ RescanTypes
<1> SUFFICES ASSUME RescanInit PROVE TablesInv /\ RescanTypes
    OBVIOUS
<1> DEFINE n == Len(History) + 1
<1>1. /\ Len(History) \in Nat /\ n \in 1 .. MaxBlocks /\ MaxBlocks \in Nat
      /\ \A b \in 1 .. Len(History) : History[b] \subseteq Tx
    BY RescanAssumption, WalletAssumption
<1>2. /\ DOMAIN blocks = 0 .. n - 1
      /\ \A b \in DOMAIN blocks : /\ blocks[b].height = b /\ blocks[b].anc = 0 .. b
                                  /\ blocks[b].txs \subseteq Tx
                                  /\ blocks[b] \in Block
    <2>1. DOMAIN blocks = 0 .. Len(History) /\ n - 1 = Len(History)
        BY <1>1 DEF RescanInit
    <2>2. \A b \in 0 .. Len(History) :
              blocks[b] = [height |-> b, anc |-> 0 .. b,
                           txs |-> IF b = 0 THEN {} ELSE History[b]]
        BY DEF RescanInit
    <2>3. \A b \in 0 .. Len(History) : (IF b = 0 THEN {} ELSE History[b]) \subseteq Tx
        BY <1>1
    <2>4. \A b \in 0 .. Len(History) : b \in Nat /\ 0 .. b \subseteq Nat
        OBVIOUS
    <2>5. QED BY <2>1, <2>2, <2>3, <2>4 DEF Block
<1>3. best \in DOMAIN blocks /\ 0 \in DOMAIN blocks
    BY <1>1, <1>2 DEF RescanInit
<1>4. ChainTypeOK
    <2>1. blocks \in [DOMAIN blocks -> Block]
        BY <1>2 DEF RescanInit
    <2>2. DOMAIN blocks \subseteq 0 .. MaxBlocks - 1
        BY <1>1, <1>2
    <2>3. reorgs \in 0 .. MaxReorgs
        BY WalletAssumption DEF RescanInit
    <2>4. QED BY <1>3, <2>1, <2>2, <2>3 DEF ChainTypeOK, RescanInit
<1>5. ChainInv
    <2>1. \A b \in DOMAIN blocks : /\ blocks[b].anc \subseteq 0 .. b
                                   /\ {0, b} \subseteq blocks[b].anc
                                   /\ blocks[b].height \in 0 .. b
        BY <1>1, <1>2
    <2>2. QED BY <1>1, <1>2, <1>4, <2>1 DEF ChainInv
<1>6. CoinsInv
    BY DEF RescanInit, CoinsInv, Maps, None
<1>7. UpdatedInv
    BY DEF RescanInit, UpdatedInv, UpdatedTypeOK, NothingUpdated, None, Maps
<1>8. TablesInv
    BY <1>3, <1>5, <1>6, <1>7, CrashesAssumption DEF RescanInit, TablesInv
<1>9. RescanTypes
    <2>1. walletTs \in Nat /\ aborts \in 0 .. MaxAborts
        BY <1>1, RescanAssumption DEF RescanInit
    <2>2. QED BY <2>1 DEF RescanInit, RescanTypes, Labels, NoCommand
<1>10. QED BY <1>8, <1>9

\* A step of a poll is one of Poller, with the rescan as it was.
LEMMA PollKeepsTypes ==
    ASSUME TablesInv, RescanTypes, PollStep
    PROVE  TablesInv' /\ RescanTypes' /\ pc' \in Labels
<1>1. pc \in Labels
    BY DEF PollStep, StartPoll, Queries, Writes, FetchTip, CheckInChain, FindAncestor,
           ReadReceived, ReadConfirmed, ReadSpending, ReadSpent, CheckTip, Rollback, AddTxs,
           InsertReceived, RemoveExpired, ConfirmCoins, UnspendExpired, SpendCoins,
           ConfirmSpend, UpdateFromSelf, SetTip, Labels, QueryStates, WriteStates
<1>2. IInv
    BY <1>1 DEF TablesInv, IInv, ControlInv, Labels
<1>3. IInv'
    BY <1>2, QueryKeeps, WritesKeep DEF PollStep
<1>4. TablesInv' /\ pc' \in Labels
    BY <1>3 DEF TablesInv, IInv, ControlInv, Labels
<1>5. RescanTypes'
    BY <1>4 DEF PollStep, RescanTypes, rescanVars
<1>6. QED BY <1>4, <1>5

\* The blocks stay, and nothing the tables say of them changes.
LEMMA TablesStay ==
    ASSUME TablesInv, UNCHANGED <<dbVars, tip, updated, crashes>>,
           ChainInv', Grows
    PROVE  TablesInv'
<1>1. UNCHANGED <<dbTip, coins, savedTxs, tip, updated, crashes>>
    BY DEF dbVars
<1>2. \A c, h : MinedAt(c, h) => MinedAt(c, h)'
    BY DEF MinedAt, Grows
<1>3. CoinsInv'
    BY <1>1, <1>2 DEF TablesInv, CoinsInv, GoodRow
<1>4. UpdatedInv'
    BY <1>1, <1>2 DEF TablesInv, UpdatedInv, UpdatedTypeOK
<1>5. QED BY <1>1, <1>3, <1>4 DEF TablesInv, Grows

\* A node that stands still.
LEMMA NodeStays ==
    ASSUME ChainInv, UNCHANGED chainVars
    PROVE  ChainInv' /\ Grows
BY DEF ChainInv, ChainTypeOK, chainVars, Grows

\* rescan_check() keeps the types: the block it goes back to is one of the chain.
LEMMA CheckKeepsTypes ==
    ASSUME TablesInv, RescanTypes, RescanCheck
    PROVE  TablesInv' /\ RescanTypes'
<1>1. CASE ReadTimestamp \/ ReadProgress
    <2>1. UNCHANGED <<chainVars, dbVars, tip, updated, crashes, walletTs>>
        BY <1>1 DEF ReadTimestamp, ReadProgress, StayOn
    <2>2. /\ UNCHANGED <<rescanTs, scanning, aborts, command>>
          /\ pc' \in {"Idle", "Progress", "BlockBefore"}
          /\ seenTs' \in {NoTime, rescanTs, seenTs}
          /\ again' \in BOOLEAN
        BY <1>1 DEF ReadTimestamp, ReadProgress, Step, GoTo, RescanTypes
    <2>3. TablesInv'
        BY <2>1, NodeStays, TablesStay DEF TablesInv
    <2>4. RescanTypes'
        BY <2>1, <2>2 DEF RescanTypes, Labels, CheckLabels
    <2>5. QED BY <2>3, <2>4
<1>2. CASE FindBlockBefore
    <2>1. /\ UNCHANGED <<chainVars, dbVars, updated, crashes, walletTs, seenTs, again>>
          /\ UNCHANGED <<rescanTs, scanning, aborts, command>>
          /\ pc' \in {"RescanRollback", "Idle"}
          /\ tip' \in Chain(best) \cup {tip}
        BY <1>2 DEF FindBlockBefore, Step, GoTo, BlockBefore
    <2>2. tip' \in DOMAIN blocks
        BY <2>1, Chains DEF TablesInv, ChainInv, ChainTypeOK
    <2>3. UNCHANGED <<blocks, dbTip, coins, savedTxs, updated>>
        BY <2>1 DEF chainVars, dbVars
    <2>4. ChainInv' /\ CoinsInv' /\ UpdatedInv'
        BY <2>1, <2>3, NodeStays, UpdatedStays
           DEF TablesInv, CoinsInv, GoodRow, MinedAt
    <2>5. TablesInv'
        BY <2>1, <2>2, <2>3, <2>4 DEF TablesInv
    <2>6. RescanTypes'
        BY <2>1 DEF RescanTypes, Labels, CheckLabels
    <2>7. QED BY <2>5, <2>6
<1>3. CASE RescanRollback
    <2>1. /\ RollbackTip(tip) /\ pc' = "Complete"
          /\ UNCHANGED <<rescanTs, scanning, aborts, command, walletTs, seenTs, again>>
        BY <1>3 DEF RescanRollback, Step, GoTo
    <2>2. RescanTypes'
        BY <2>1 DEF RescanTypes, CheckLabels
    <2>3. CoinsInv'
        <3>1. /\ UNCHANGED blocks
              /\ coins' = [c \in DOMAIN coins |-> RolledBack(coins[c], Height(tip))]
            BY <2>1 DEF RollbackTip, chainVars
        <3>2. ASSUME NEW c \in DOMAIN coins
              PROVE  GoodRow(c, RolledBack(coins[c], Height(tip)))
            <4>1. GoodRow(c, coins[c])
                BY DEF TablesInv, CoinsInv
            <4>2. /\ coins[c] \in Row
                  /\ RolledBack(coins[c], Height(tip)) \in Row
                  /\ RolledBack(coins[c], Height(tip)).height \in {coins[c].height, NoHeight}
                BY <4>1 DEF GoodRow, RolledBack, Row
            <4>3. QED BY <4>1, <4>2 DEF GoodRow
        <3>3. QED BY <3>1, <3>2 DEF TablesInv, CoinsInv, GoodRow, MinedAt, Maps
    <2>4. UNCHANGED <<chainVars, blocks, savedTxs, tip, updated, crashes>> /\ dbTip' = tip
        BY <2>1 DEF RollbackTip, chainVars
    <2>5. ChainInv' /\ UpdatedInv'
        BY <2>4, NodeStays, UpdatedStays DEF TablesInv
    <2>6. TablesInv'
        BY <2>3, <2>4, <2>5 DEF TablesInv
    <2>7. QED BY <2>2, <2>6
<1>4. CASE CompleteRescan
    <2>1. /\ UNCHANGED <<chainVars, dbVars, tip, updated, crashes>>
          /\ UNCHANGED <<scanning, aborts, command, seenTs>>
          /\ pc' \in {"Panicked", "Tip"}
          /\ rescanTs' \in {rescanTs, NoTime}
          /\ again' \in BOOLEAN
          /\ walletTs' = walletTs \/ (rescanTs # NoTime /\ walletTs' = rescanTs)
        BY <1>4 DEF CompleteRescan, GoTo, RescanTypes
    <2>2. walletTs' \in Nat
        BY <2>1, RescanAssumption DEF RescanTypes
    <2>3. TablesInv'
        BY <2>1, NodeStays, TablesStay DEF TablesInv
    <2>4. RescanTypes'
        BY <2>1, <2>2 DEF RescanTypes, Labels, QueryStates
    <2>5. QED BY <2>3, <2>4
<1>5. QED BY <1>1, <1>2, <1>3, <1>4 DEF RescanCheck

\* What a command does to the rescan, and nothing else.
LEMMA CommandSteps ==
    ASSUME RescanTypes, NEW r \in Client, StartRescan(r)
    PROVE  /\ UNCHANGED <<vars, walletTs, aborts, seenTs, again>>
           /\ \E at \in {"none", "progress", "start", "record"}, time \in Time \cup {NoTime} :
                 command' = [command EXCEPT ![r] = [at |-> at, time |-> time]]
           /\ rescanTs' \in {rescanTs, command[r].time}
           /\ scanning' \in {scanning, command[r].time}
           /\ command[r].time \in Time \cup {NoTime}
<1>1. command[r].time \in Time \cup {NoTime}
    BY DEF RescanTypes
<1>2. \E at \in {"none", "progress", "start", "record"}, time \in Time \cup {NoTime} :
          Command(r, at, time)
    BY <1>1 DEF StartRescan, AskRescan, CheckProgress, StartScan, RecordRescan
<1>3. /\ rescanTs' \in {rescanTs, command[r].time}
      /\ scanning' \in {scanning, command[r].time}
    BY DEF StartRescan, AskRescan, CheckProgress, StartScan, RecordRescan
<1>4. QED BY <1>1, <1>2, <1>3 DEF Command

\* Commands, the node's scan and a restart keep the types.
LEMMA OthersKeepTypes ==
    ASSUME TablesInv, RescanTypes,
           \/ \E r \in Client : StartRescan(r)
           \/ FinishScan \/ AbortScan \/ Restart
           \/ Node /\ UNCHANGED rescanVars
    PROVE  TablesInv' /\ RescanTypes'
<1>1. CASE \E r \in Client : StartRescan(r)
    <2>1. PICK r \in Client : StartRescan(r)
        BY <1>1
    <2>2. UNCHANGED <<vars, walletTs, aborts, seenTs, again>>
        BY <2>1, CommandSteps
    <2>3. UNCHANGED <<chainVars, dbVars, tip, updated, crashes, pc>>
        BY <2>2 DEF vars, pollerVars
    <2>4. TablesInv'
        BY <2>3, NodeStays, TablesStay DEF TablesInv
    <2>5. command' \in [Client -> [at : {"none", "progress", "start", "record"},
                                   time : Time \cup {NoTime}]]
        BY <2>1, CommandSteps DEF RescanTypes
    <2>6. {rescanTs', scanning'} \subseteq Time \cup {NoTime}
        BY <2>1, CommandSteps DEF RescanTypes
    <2>7. QED BY <2>2, <2>3, <2>4, <2>5, <2>6 DEF RescanTypes
<1>2. CASE FinishScan \/ AbortScan
    <2>1. /\ scanning' = NoTime
          /\ UNCHANGED <<blocks, best, mempool, reorgs, pollerVars>>
          /\ UNCHANGED <<rescanTs, walletTs, command, seenTs, again>>
          /\ known' \subseteq known \cup TxsOn(best)
          /\ aborts' = aborts \/ (aborts < MaxAborts /\ aborts' = aborts + 1)
        BY <1>2 DEF FinishScan, AbortScan, Backend, ScannedUpTo
    <2>2. TxsOn(best) \subseteq Tx
        <3>1. \A b \in DOMAIN blocks : blocks[b].txs \subseteq Tx
            BY DEF TablesInv, ChainInv, ChainTypeOK, Block
        <3>2. best \in DOMAIN blocks
            BY DEF TablesInv, ChainInv, ChainTypeOK
        <3>3. QED BY <3>1, <3>2, Chains DEF TablesInv, TxsOn
    <2>3. ChainInv' /\ Grows
        BY <2>1, <2>2 DEF TablesInv, ChainInv, ChainTypeOK, Grows
    <2>4. TablesInv'
        BY <2>1, <2>3, TablesStay DEF pollerVars
    <2>5. aborts' \in 0 .. MaxAborts
        BY <2>1, RescanAssumption DEF RescanTypes
    <2>6. RescanTypes'
        BY <2>1, <2>5 DEF RescanTypes, pollerVars
    <2>7. QED BY <2>4, <2>6
<1>3. CASE Restart
    <2>1. /\ UNCHANGED <<chainVars, dbVars, rescanTs, walletTs, scanning, aborts>>
          /\ crashes < MaxCrashes /\ crashes' = crashes + 1
          /\ tip' = dbTip /\ updated' = NothingUpdated /\ seenTs' = NoTime
          /\ again' = FALSE /\ command' = [r \in Client |-> NoCommand] /\ pc' = "Idle"
        BY <1>3 DEF Restart, GoTo
    <2>2. UNCHANGED <<blocks, dbTip, coins, savedTxs>>
        BY <2>1 DEF chainVars, dbVars
    <2>3. ChainInv' /\ CoinsInv' /\ UpdatedInv'
        BY <2>1, <2>2, NodeStays, UpdatedReset DEF TablesInv, CoinsInv, GoodRow, MinedAt
    <2>4. crashes' \in 0 .. MaxCrashes
        BY <2>1, CrashesAssumption DEF TablesInv
    <2>5. TablesInv'
        BY <2>1, <2>2, <2>3, <2>4 DEF TablesInv
    <2>6. RescanTypes'
        BY <2>1 DEF RescanTypes, NoCommand, Labels
    <2>7. QED BY <2>5, <2>6
<1>4. CASE Node /\ UNCHANGED rescanVars
    <2>1. ChainInv' /\ Grows
        BY <1>4, NodeKeeps DEF Node, TablesInv
    <2>2. TablesInv'
        BY <1>4, <2>1, TablesStay DEF Node, pollerVars
    <2>3. RescanTypes'
        BY <1>4 DEF Node, pollerVars, rescanVars, RescanTypes
    <2>4. QED BY <2>2, <2>3
<1>5. QED BY <1>1, <1>2, <1>3, <1>4

\* Every step keeps the types.
LEMMA RescanKeepsTypes ==
    TablesInv /\ RescanTypes /\ [RescanNext]_allVars => TablesInv' /\ RescanTypes'
<1> SUFFICES ASSUME TablesInv, RescanTypes, [RescanNext]_allVars
             PROVE  TablesInv' /\ RescanTypes'
    OBVIOUS
<1>1. CASE RescanNext
    BY <1>1, PollKeepsTypes, CheckKeepsTypes, OthersKeepTypes DEF RescanNext
<1>2. CASE UNCHANGED allVars
    <2>1. UNCHANGED <<chainVars, dbVars, tip, updated, crashes, pc, rescanVars>>
        BY <1>2 DEF allVars, vars, pollerVars
    <2>2. TablesInv'
        BY <2>1, NodeStays, TablesStay DEF TablesInv
    <2>3. RescanTypes'
        BY <2>1 DEF RescanTypes, rescanVars
    <2>4. QED BY <2>2, <2>3
<1>3. QED BY <1>1, <1>2

\* The dates, the commands and the tables keep their types while clients, node and
\* poller move between any two steps of each other (start_rescan, rescan_check), for
\* any history, number of clients, restarts, aborts and reorganizations.
THEOREM RescanTyped == RescanSpec => []RescanTypeOK
<1>1. TablesInv /\ RescanTypes => RescanTypeOK
    BY DEF TablesInv, CoinsInv, RescanTypes, RescanTypeOK
<1>2. QED BY RescanInitTypes, RescanKeepsTypes, <1>1, PTL DEF RescanSpec

\* A rescan invents no confirmation: what rescan_check rolls back and the second
\* updates() records is still what some block holds, whoever asks for rescans, whatever
\* the node scans or leaves out, and whenever the process dies or the chain changes.
THEOREM RescanConfirmed == RescanSpec => []ConfirmedSomewhere
<1>1. TablesInv /\ RescanTypes => ConfirmedSomewhere
    BY DEF TablesInv, CoinsInv, GoodRow, MinedAt, Height, ConfirmedSomewhere
<1>2. QED BY RescanInitTypes, RescanKeepsTypes, <1>1, PTL DEF RescanSpec

-----------------------------------------------------------------------------
(* The date of a rescan. *)

\* A command has a date from its start, and rescan_check() goes on only while one is
\* recorded: it alone removes it.
DateInv ==
    /\ \A r \in Client : command[r].at # "none" => command[r].time # NoTime
    /\ pc = "Progress" /\ seenTs # NoTime => rescanTs # NoTime
    /\ pc \in {"BlockBefore", "RescanRollback", "Complete"} => rescanTs # NoTime

\* Commands replace a date by another.
LEMMA CommandKeepsDate ==
    ASSUME RescanTypes, DateInv, NEW r \in Client, StartRescan(r)
    PROVE  DateInv'
<1>1. /\ UNCHANGED <<vars, seenTs>>
      /\ DOMAIN command = Client
    BY CommandSteps DEF RescanTypes
<1>2. UNCHANGED pc
    BY <1>1 DEF vars, pollerVars
<1>3. \A time \in Time : time # NoTime
    BY RescanAssumption DEF NoTime
<1>4. ASSUME NEW at, NEW time, Command(r, at, time), at # "none" => time # NoTime
      PROVE  \A q \in Client : command'[q].at # "none" => command'[q].time # NoTime
    <2> DEFINE new == [at |-> at, time |-> time]
    <2>1. new.at = at /\ new.time = time
        OBVIOUS
    <2>2. command' = [q \in Client |-> IF q = r THEN new ELSE command[q]]
        BY <1>1, <1>4 DEF Command
    <2> HIDE DEF new
    <2>3. QED BY <1>4, <2>1, <2>2 DEF DateInv
<1>5. command[r].at # "none" => command[r].time # NoTime
    BY DEF DateInv
<1>6. ASSUME NEW time \in Time, AskRescan(r, time) PROVE DateInv'
    BY <1>1, <1>2, <1>3, <1>4, <1>6 DEF AskRescan, DateInv
<1>7. CASE CheckProgress(r) \/ StartScan(r)
    <2>1. UNCHANGED rescanTs /\ command[r].time # NoTime
        BY <1>5, <1>7 DEF CheckProgress, StartScan
    <2>2. \/ Command(r, "start", command[r].time)
          \/ Command(r, "record", command[r].time)
          \/ Command(r, "none", NoTime)
        BY <1>7 DEF CheckProgress, StartScan
    <2>3. QED BY <1>1, <1>2, <1>4, <2>1, <2>2 DEF DateInv
<1>8. CASE RecordRescan(r)
    <2>1. rescanTs' # NoTime /\ Command(r, "none", NoTime)
        BY <1>5, <1>8 DEF RecordRescan
    <2>2. QED BY <1>1, <1>2, <1>4, <2>1 DEF DateInv
<1>9. QED BY <1>6, <1>7, <1>8 DEF StartRescan

\* Every step keeps it.
LEMMA DateKept ==
    ASSUME TablesInv, RescanTypes, DateInv, [RescanNext]_allVars
    PROVE  DateInv'
<1>1. CASE RescanCheck
    <2>1. UNCHANGED command
        BY <1>1 DEF RescanCheck, ReadTimestamp, ReadProgress, FindBlockBefore, RescanRollback,
                    CompleteRescan, Step
    <2>2. CASE ReadTimestamp \/ ReadProgress \/ FindBlockBefore \/ RescanRollback
        BY <2>1, <2>2 DEF ReadTimestamp, ReadProgress, FindBlockBefore, RescanRollback, Step, GoTo,
                          ScanOver, DateInv
    <2>3. CASE CompleteRescan
        BY <2>1, <2>3 DEF CompleteRescan, GoTo, DateInv
    <2>4. QED BY <1>1, <2>2, <2>3 DEF RescanCheck
<1>2. CASE PollStep
    <2>1. pc' \in Labels /\ UNCHANGED <<rescanTs, command, seenTs>>
        BY <1>2, PollKeepsTypes DEF PollStep, rescanVars
    <2>2. QED BY <2>1 DEF DateInv, Labels, QueryStates, WriteStates
<1>3. CASE Restart
    BY <1>3 DEF Restart, GoTo, NoCommand, DateInv
<1>4. CASE FinishScan \/ AbortScan \/ (Node /\ UNCHANGED rescanVars) \/ UNCHANGED allVars
    <2>1. UNCHANGED <<pc, rescanTs, command, seenTs>>
        BY <1>4 DEF FinishScan, AbortScan, Backend, Node, pollerVars, rescanVars, allVars, vars
    <2>2. QED BY <2>1 DEF DateInv
<1>5. QED BY <1>1, <1>2, <1>3, <1>4, CommandKeepsDate DEF RescanNext

\* "Panics if called while rescan_timestamp is not set" (complete_wallet_rescan): it never
\* is, although the date was read some steps before and clients may record others since.
THEOREM RescanDateSet == RescanSpec => [](pc = "Complete" => rescanTs # NoTime)
<1> DEFINE Inv == TablesInv /\ RescanTypes /\ DateInv
<1>1. RescanInit => Inv
    <2>1. RescanInit => DateInv
        BY DEF RescanInit, NoCommand, DateInv
    <2>2. QED BY <2>1, RescanInitTypes
<1>2. Inv /\ [RescanNext]_allVars => Inv'
    BY RescanKeepsTypes, DateKept
<1>3. Inv => (pc = "Complete" => rescanTs # NoTime)
    BY DEF DateInv
<1>4. QED BY <1>1, <1>2, <1>3, PTL DEF RescanSpec

-----------------------------------------------------------------------------
(* The coins that a wallet has seen. *)

\* Without these the promise is not kept: two rescans may overlap; and the block before
\* a later date may be ahead of the recorded tip.
Undisturbed ==
    /\ \A r, q \in Client : r = q
    /\ \A time \in Time : time <= Len(History) + 1

\* Until a reorganization the chain only grows, and block b is at height b.
LinearInv ==
    /\ DOMAIN blocks = 0 .. best
    /\ Len(History) <= best
    /\ reorgs = 0
    /\ blocks[0].txs = {}
    /\ \A b \in DOMAIN blocks : blocks[b].anc = 0 .. b /\ blocks[b].height = b
    /\ \A a, b \in DOMAIN blocks : a # b => blocks[a].txs \cap blocks[b].txs = {}

\* The node has told the wallet of everything since a date, or is about to.
KnownFrom(date) == \A b \in DOMAIN blocks : b >= date => blocks[b].txs \subseteq known
Scanned(date) == scanning = date \/ (scanning = NoTime /\ KnownFrom(date))

\* A rescan is recorded once it has been started, and the next is not asked for
\* before it is completed.
ScanInv ==
    /\ \A r \in Client :
          command[r].at # "none" => rescanTs = NoTime /\ command[r].time # NoTime
    /\ pc = "Progress" => seenTs \in {NoTime, rescanTs}
    /\ pc \in {"BlockBefore", "RescanRollback", "Complete"} =>
          seenTs # NoTime /\ rescanTs = seenTs /\ scanning = NoTime
    /\ aborts = 0 =>
          /\ KnownFrom(walletTs)
          /\ rescanTs # NoTime => Scanned(rescanTs)
          /\ \A r \in Client : command[r].at = "record" => Scanned(command[r].time)

\* A poll that has a tip newer than the recorded one, until it is recorded.
InPoll == {"InChain", "Received", "Confirmed", "Spending", "Spent", "Check"} \cup WriteStates

\* Where the tips are: a poll is never behind the recorded one, and the rollback of a
\* rescan goes to a block before its date.
PlaceInv ==
    /\ pc \notin {"Ancestor", "Rollback"}
    /\ pc \in InPoll => dbTip <= tip /\ Len(History) <= tip
    /\ pc \in {"Polled", "Progress", "BlockBefore"} => Len(History) <= dbTip
    /\ pc = "RescanRollback" => tip <= dbTip /\ (tip < seenTs \/ tip = 0)
    /\ pc = "Complete" => dbTip < seenTs \/ dbTip = 0

\* The coins of the blocks between a date and a height.
Due(bs, date, h) ==
    {c \in Coin : \E b \in DOMAIN bs : TxOf[c] \in bs[b].txs /\ date <= b /\ b <= h}

\* Those of them that are mature at the height.
Ripe(bs, date, h) ==
    {c \in Coin : \E b \in DOMAIN bs :
        /\ TxOf[c] \in bs[b].txs /\ date <= b /\ b <= h
        /\ TxOf[c] \in Coinbase => h - b + 1 >= Maturity}

ConfirmedRows(rows) == {c \in DOMAIN rows : rows[c].height # NoHeight}

BeforeInsert == {"Confirmed", "Spending", "Spent", "Check", "AddTxs", "Insert"}
BeforeConfirm == {"Spending", "Spent", "Check", "AddTxs", "Insert", "Remove", "Confirm"}
AfterConfirm == {"Unspend", "Spend", "ConfirmSpend", "FromSelf", "SetTip"}

\* The coins due up to the recorded tip are there, and confirmed once they are mature;
\* those up to the poll's are first found, then inserted, then confirmed.
SeenInv ==
    aborts = 0 =>
        /\ Due(blocks, walletTs, dbTip) \subseteq DOMAIN coins
        /\ Ripe(blocks, walletTs, dbTip) \subseteq ConfirmedRows(coins)
        /\ pc \in BeforeInsert =>
              Due(blocks, walletTs, tip) \subseteq DOMAIN coins \cup DOMAIN updated.received
        /\ pc \in {"Remove", "Confirm"} \cup AfterConfirm =>
              Due(blocks, walletTs, tip) \subseteq DOMAIN coins
        /\ pc \in BeforeConfirm =>
              Ripe(blocks, walletTs, tip)
                  \subseteq ConfirmedRows(coins) \cup DOMAIN updated.confirmed
        /\ pc \in BeforeConfirm \ {"Confirm"} =>
              Due(blocks, walletTs, tip) \cap updated.expired = {}
        /\ pc \in AfterConfirm =>
              Ripe(blocks, walletTs, tip) \subseteq ConfirmedRows(coins)

TypedInv == TablesInv /\ RescanTypes
PromiseInv == LinearInv /\ ScanInv /\ PlaceInv /\ SeenInv

\* The blocks of a chain that only grows are those below its tip.
LEMMA LinearChain ==
    ASSUME ChainInv, LinearInv, NEW a \in DOMAIN blocks
    PROVE  /\ a \in 0 .. best /\ best \in Nat
           /\ Chain(a) = 0 .. a
           /\ Height(a) = a
           /\ IsInChain(a)
           /\ ForkPoint(a, best) = a
<1>1. best \in DOMAIN blocks /\ best \in Nat /\ a \in 0 .. best
    BY DEF ChainInv, ChainTypeOK, LinearInv
<1>2. \A b \in 0 .. best : Chain(b) = 0 .. b /\ Height(b) = b
    BY DEF LinearInv, Chain, Height
<1>3. Chain(a) = 0 .. a /\ Chain(best) = 0 .. best
    BY <1>1, <1>2
<1>4. Chain(a) \cap Chain(best) = 0 .. a
    BY <1>1, <1>3
<1>5. ForkPoint(a, best) =
          CHOOSE f \in 0 .. a : \A g \in 0 .. a : Height(g) <= Height(f)
    BY <1>4 DEF ForkPoint
<1>6. a \in 0 .. a /\ \A g \in 0 .. a : Height(g) <= Height(a)
    BY <1>1, <1>2
<1>7. \A f \in 0 .. a : (\A g \in 0 .. a : Height(g) <= Height(f)) => f = a
    BY <1>1, <1>2
<1>8. ForkPoint(a, best) = a
    BY <1>5, <1>6, <1>7
<1>9. QED BY <1>1, <1>2, <1>3, <1>8 DEF IsInChain

\* The height of a transaction is the number of its block.
LEMMA LinearHeight ==
    ASSUME ChainInv, LinearInv, NEW b \in DOMAIN blocks, NEW a \in 0 .. b,
           NEW t \in blocks[a].txs
    PROVE  t \in TxsOn(b) /\ HeightOn(t, b) = a
<1>1. a \in DOMAIN blocks /\ b \in 0 .. best /\ best \in Nat
    BY LinearChain DEF LinearInv
<1>2. Chain(b) = 0 .. b /\ Height(a) = a
    BY <1>1, LinearChain
<1>3. t \in TxsOn(b)
    BY <1>2 DEF TxsOn
<1>4. \A x \in 0 .. b : t \in blocks[x].txs => x = a
    <2>1. 0 .. b \subseteq DOMAIN blocks
        BY <1>1 DEF LinearInv
    <2>2. QED BY <1>1, <2>1 DEF LinearInv
<1>5. (CHOOSE x \in Chain(b) : t \in blocks[x].txs) = a
    BY <1>2, <1>4
<1>6. QED BY <1>2, <1>3, <1>5 DEF HeightOn

\* A confirmed coin is confirmed at the number of its block.
LEMMA RowHeight ==
    ASSUME CoinsInv, LinearInv, NEW c \in ConfirmedRows(coins),
           NEW b \in DOMAIN blocks, TxOf[c] \in blocks[b].txs
    PROVE  coins[c].height = b
<1>1. c \in DOMAIN coins /\ coins[c].height # NoHeight
    BY DEF ConfirmedRows
<1>2. PICK a \in DOMAIN blocks :
          blocks[a].height = coins[c].height /\ TxOf[c] \in blocks[a].txs
    BY <1>1 DEF CoinsInv, GoodRow, MinedAt
<1>3. a = b
    BY <1>2 DEF LinearInv
<1>4. QED BY <1>2, <1>3 DEF LinearInv

\* What is due up to a block is due up to a later one, and what is mature there stays so.
LEMMA DueUpTo ==
    ASSUME LinearInv, best \in Nat, NEW date, NEW h \in Nat, NEW k \in Nat, h <= k
    PROVE  /\ Due(blocks, date, h) \subseteq Due(blocks, date, k)
           /\ Ripe(blocks, date, h) \subseteq Ripe(blocks, date, k)
<1>1. \A b \in DOMAIN blocks : b \in Nat
    BY DEF LinearInv
<1>2. Due(blocks, date, h) \subseteq Due(blocks, date, k)
    BY <1>1 DEF Due
<1>3. \A b \in DOMAIN blocks : h - b + 1 >= Maturity => k - b + 1 >= Maturity
    BY <1>1, WalletAssumption
<1>4. Ripe(blocks, date, h) \subseteq Ripe(blocks, date, k)
    BY <1>1, <1>3 DEF Ripe
<1>5. QED BY <1>2, <1>4

\* Only what is due is mature.
LEMMA RipeDue ==
    ASSUME NEW bs, NEW date, NEW h
    PROVE  Ripe(bs, date, h) \subseteq Due(bs, date, h)
BY DEF Ripe, Due

\* What is due up to a block does not depend on those that arrive later.
LEMMA DueStays ==
    ASSUME LinearInv, LinearInv', Grows, best \in Nat, best' \in Nat,
           NEW date, NEW h \in DOMAIN blocks
    PROVE  /\ Due(blocks', date, h) = Due(blocks, date, h)
           /\ Ripe(blocks', date, h) = Ripe(blocks, date, h)
<1>1. h \in 0 .. best
    BY DEF LinearInv
<1>2. \A b \in DOMAIN blocks' : b <= h => b \in DOMAIN blocks
    BY <1>1 DEF LinearInv
<1>3. \A b \in DOMAIN blocks : b \in DOMAIN blocks' /\ blocks'[b] = blocks[b]
    BY DEF Grows
<1>4. Due(blocks', date, h) = Due(blocks, date, h)
    BY <1>2, <1>3 DEF Due
<1>5. Ripe(blocks', date, h) = Ripe(blocks, date, h)
    BY <1>2, <1>3 DEF Ripe
<1>6. QED BY <1>4, <1>5

-----------------------------------------------------------------------------
(* The steps around a poll keep the promise. *)

\* Initially nothing is due, and no rescan is asked for.
LEMMA PromiseInit == RescanInit => PromiseInv
<1> SUFFICES ASSUME RescanInit PROVE PromiseInv
    OBVIOUS
<1>1. Len(History) \in Nat
    BY RescanAssumption
<1>2. /\ DOMAIN blocks = 0 .. Len(History) /\ best = Len(History)
      /\ \A b \in 0 .. Len(History) :
            blocks[b] = [height |-> b, anc |-> 0 .. b,
                         txs |-> IF b = 0 THEN {} ELSE History[b]]
    BY DEF RescanInit
<1>3. \A a, b \in 1 .. Len(History) : a # b => History[a] \cap History[b] = {}
    BY RescanAssumption
<1>4. \A a, b \in DOMAIN blocks : a # b => blocks[a].txs \cap blocks[b].txs = {}
    BY <1>1, <1>2, <1>3
<1>5. LinearInv
    BY <1>1, <1>2, <1>4 DEF LinearInv, RescanInit
<1>6. ScanInv
    BY <1>1, <1>2 DEF ScanInv, RescanInit, NoCommand, KnownFrom
<1>7. PlaceInv
    BY DEF PlaceInv, RescanInit, InPoll, WriteStates
<1>8. Due(blocks, walletTs, dbTip) = {} /\ Ripe(blocks, walletTs, dbTip) = {}
    <2>1. walletTs = Len(History) + 1
        BY DEF RescanInit
    <2>2. \A b \in DOMAIN blocks : ~ (walletTs <= b)
        BY <1>1, <1>2, <2>1
    <2>3. QED BY <2>2 DEF Due, Ripe
<1>9. SeenInv
    BY <1>8 DEF SeenInv, RescanInit, BeforeInsert, BeforeConfirm, AfterConfirm
<1>10. QED BY <1>5, <1>6, <1>7, <1>9 DEF PromiseInv

\* Without a reorganization a block is mined on the last one.
LEMMA MinedNext ==
    ASSUME ChainInv, LinearInv, reorgs' = 0,
           NEW parent \in DOMAIN blocks, NEW txs \in SUBSET Tx, Mine(parent, txs)
    PROVE  /\ parent = best /\ best \in Nat /\ best' = best + 1
           /\ DOMAIN blocks' = 0 .. best + 1
           /\ blocks'[best + 1] = [height |-> best + 1, anc |-> 0 .. best + 1, txs |-> txs]
           /\ \A b \in 0 .. best : blocks'[b] = blocks[b]
           /\ ValidOn(txs, best)
           /\ TxsOn(best) = UNION {blocks[b].txs : b \in 0 .. best}
           /\ known' = known \cup txs \cup mempool'
<1>1. /\ best \in Nat /\ best \in DOMAIN blocks
      /\ DOMAIN blocks = 0 .. best
    BY LinearChain DEF LinearInv, ChainInv, ChainTypeOK
<1>2. parent = best
    BY DEF Mine, LinearInv
<1> DEFINE n == best + 1
           block == [height |-> n, anc |-> 0 .. n, txs |-> txs]
<1>3. Cardinality(DOMAIN blocks) = n
    BY <1>1, FS_Interval
<1>4. Chain(best) = 0 .. best /\ Height(best) = best /\ (0 .. best) \cup {n} = 0 .. n
    BY <1>1, LinearChain
<1>5. /\ best' = n
      /\ blocks' = [b \in DOMAIN blocks \cup {n} |-> IF b = n THEN block ELSE blocks[b]]
      /\ ValidOn(txs, best)
      /\ known' = known \cup txs \cup mempool'
    BY <1>2, <1>3, <1>4 DEF Mine
<1>6. /\ DOMAIN blocks' = 0 .. n
      /\ blocks'[n] = block
      /\ \A b \in 0 .. best : blocks'[b] = blocks[b]
    <2> HIDE DEF block
    <2>1. QED BY <1>1, <1>5
<1>7. TxsOn(best) = UNION {blocks[b].txs : b \in 0 .. best}
    BY <1>4 DEF TxsOn
<1>8. QED BY <1>1, <1>2, <1>5, <1>6, <1>7

\* Without reorganizations the chain only grows.
LEMMA NodeLinear ==
    ASSUME ChainInv, LinearInv, ChainNext, reorgs' = 0
    PROVE  /\ LinearInv'
           /\ \A date \in Int : KnownFrom(date) => KnownFrom(date)'
<1>1. /\ best \in Nat /\ best \in DOMAIN blocks
      /\ DOMAIN blocks = 0 .. best
    BY LinearChain DEF LinearInv, ChainInv, ChainTypeOK
<1>2. CASE \E t \in Tx : Accept(t) \/ Evict(t)
    <2>1. UNCHANGED <<blocks, best, reorgs>> /\ known \subseteq known'
        BY <1>2 DEF Accept, Evict
    <2>2. QED BY <2>1 DEF LinearInv, KnownFrom
<1>3. CASE \E parent \in DOMAIN blocks, txs \in SUBSET Tx : Mine(parent, txs)
    <2>1. PICK parent \in DOMAIN blocks, txs \in SUBSET Tx : Mine(parent, txs)
        BY <1>3
    <2> DEFINE n == best + 1
               block == [height |-> n, anc |-> 0 .. n, txs |-> txs]
    <2>2. /\ best' = n
          /\ txs \cap TxsOn(best) = {}
          /\ known \cup txs \subseteq known'
          /\ TxsOn(best) = UNION {blocks[b].txs : b \in 0 .. best}
        <3>1. /\ best' = n /\ ValidOn(txs, best) /\ known' = known \cup txs \cup mempool'
              /\ TxsOn(best) = UNION {blocks[b].txs : b \in 0 .. best}
            BY <2>1, MinedNext
        <3>2. txs \cap TxsOn(best) = {}
            BY <3>1 DEF ValidOn
        <3>3. QED BY <3>1, <3>2
    <2>3. /\ DOMAIN blocks' = 0 .. n
          /\ blocks'[n] = block
          /\ \A b \in 0 .. best : blocks'[b] = blocks[b]
        BY <2>1, MinedNext
    <2>4. \A b \in 0 .. best : txs \cap blocks[b].txs = {}
        BY <2>2
    <2>5. \A b \in 0 .. n : b = n \/ b \in 0 .. best
        BY <1>1
    <2>6. \A a, b \in DOMAIN blocks' : a # b => blocks'[a].txs \cap blocks'[b].txs = {}
        BY <1>1, <2>3, <2>4, <2>5 DEF LinearInv
    <2>7. \A b \in DOMAIN blocks' : blocks'[b].anc = 0 .. b /\ blocks'[b].height = b
        BY <1>1, <2>3, <2>5 DEF LinearInv
    <2>8. LinearInv'
        <3>1. DOMAIN blocks' = 0 .. best'
            BY <2>2, <2>3
        <3>2. Len(History) <= best'
            BY <1>1, <2>2, RescanAssumption DEF LinearInv
        <3>3. blocks'[0].txs = {}
            BY <1>1, <2>3 DEF LinearInv
        <3> HIDE DEF block, n
        <3>4. QED BY <2>6, <2>7, <3>1, <3>2, <3>3 DEF LinearInv
    <2>9. ASSUME NEW date \in Int, KnownFrom(date) PROVE KnownFrom(date)'
        <3>1. \A b \in 0 .. best : b >= date => blocks[b].txs \subseteq known
            BY <1>1, <2>9 DEF KnownFrom
        <3>2. \A b \in 0 .. n : b >= date => blocks'[b].txs \subseteq known'
            BY <2>2, <2>3, <2>5, <3>1
        <3>3. QED BY <2>3, <3>2 DEF KnownFrom
    <2>10. QED BY <2>8, <2>9
<1>4. QED BY <1>2, <1>3 DEF ChainNext

\* What the wallet is told of the chain does not matter to a poll that is under way.
LEMMA NodePromise ==
    ASSUME TypedInv, PromiseInv, Node, UNCHANGED rescanVars, reorgs' = 0
    PROVE  PromiseInv'
<1>1. UNCHANGED <<pc, dbTip, coins, tip, updated>>
    BY DEF Node, pollerVars, dbVars
<1>2. UNCHANGED <<rescanTs, walletTs, scanning, aborts, command, seenTs>>
    BY DEF rescanVars
<1>3. ChainInv /\ LinearInv
    BY DEF TypedInv, TablesInv, PromiseInv
<1>4. ChainInv' /\ Grows
    BY <1>3, NodeKeeps DEF Node
<1>5. LinearInv' /\ \A date \in Int : KnownFrom(date) => KnownFrom(date)'
    BY <1>3, NodeLinear DEF Node
<1>6. best \in Nat /\ best' \in Nat
    <2>1. best \in DOMAIN blocks
        BY <1>3 DEF ChainInv, ChainTypeOK
    <2>2. best' \in DOMAIN blocks' /\ DOMAIN blocks' \subseteq 0 .. MaxBlocks - 1
        BY <1>4 DEF ChainInv, ChainTypeOK
    <2>3. QED BY <1>3, <2>1, <2>2, LinearChain
<1>7. Time \cup {NoTime} \subseteq Int /\ walletTs \in Int
    BY RescanAssumption DEF NoTime, TypedInv, RescanTypes
<1>8. ScanInv'
    <2>1. \A r \in Client : command[r].time \in Int
        BY <1>7 DEF TypedInv, RescanTypes
    <2>2. rescanTs \in Int
        BY <1>7 DEF TypedInv, RescanTypes
    <2>3. QED BY <1>1, <1>2, <1>5, <1>7, <2>1, <2>2 DEF PromiseInv, ScanInv, Scanned
<1>9. PlaceInv'
    BY <1>1, <1>2 DEF PromiseInv, PlaceInv
<1>10. /\ Due(blocks', walletTs, tip) = Due(blocks, walletTs, tip)
       /\ Due(blocks', walletTs, dbTip) = Due(blocks, walletTs, dbTip)
       /\ Ripe(blocks', walletTs, tip) = Ripe(blocks, walletTs, tip)
       /\ Ripe(blocks', walletTs, dbTip) = Ripe(blocks, walletTs, dbTip)
    BY <1>3, <1>4, <1>5, <1>6, DueStays DEF TypedInv, TablesInv
<1>11. SeenInv'
    BY <1>1, <1>2, <1>10 DEF PromiseInv, SeenInv
<1>12. QED BY <1>5, <1>8, <1>9, <1>11 DEF PromiseInv

\* A step that leaves the node's chain and the poll alone.
LEMMA StaysSeen ==
    ASSUME PromiseInv, UNCHANGED <<blocks, best, reorgs, dbTip, coins, tip, updated, pc, seenTs>>,
           UNCHANGED walletTs, aborts' = 0 => aborts = 0
    PROVE  LinearInv' /\ PlaceInv' /\ SeenInv'
BY DEF PromiseInv, LinearInv, PlaceInv, SeenInv

\* A command records the date that the node is scanning from, or has scanned.
LEMMA CommandPromise ==
    ASSUME Undisturbed, TypedInv, PromiseInv, NEW r \in Client, StartRescan(r)
    PROVE  PromiseInv'
<1>1. UNCHANGED <<vars, walletTs, aborts, seenTs, again>>
    BY CommandSteps DEF TypedInv
<1>2. /\ UNCHANGED <<blocks, best, reorgs, known, dbTip, coins, tip, updated, pc>>
      /\ UNCHANGED <<seenTs, walletTs, aborts>>
    BY <1>1 DEF vars, chainVars, pollerVars, dbVars
<1>3. LinearInv' /\ PlaceInv' /\ SeenInv'
    BY <1>2, StaysSeen
<1>4. \A q \in Client : q = r
    BY DEF Undisturbed
<1>5. /\ command \in [Client -> [at : {"none", "progress", "start", "record"},
                                 time : Time \cup {NoTime}]]
      /\ DOMAIN command = Client /\ command[r].time \in Time \cup {NoTime}
    BY DEF TypedInv, RescanTypes
<1>6. \A date : KnownFrom(date) => KnownFrom(date)'
    BY <1>2 DEF KnownFrom
<1>7. \A time \in Time : time # NoTime
    BY RescanAssumption DEF NoTime
<1>8. ScanInv /\ (command[r].at # "none" => rescanTs = NoTime /\ command[r].time # NoTime)
    BY DEF PromiseInv, ScanInv
<1>9. CASE \E time \in Time : AskRescan(r, time)
    <2>1. PICK time \in Time : AskRescan(r, time)
        BY <1>9
    <2>2. /\ rescanTs = NoTime /\ UNCHANGED <<rescanTs, scanning>>
          /\ command'[r] = [at |-> "progress", time |-> time]
        BY <1>5, <2>1 DEF AskRescan, Command
    <2>3. QED BY <1>2, <1>3, <1>4, <1>6, <1>7, <1>8, <2>2 DEF PromiseInv, ScanInv, Scanned
<1>10. CASE CheckProgress(r)
    <2>1. /\ command[r].at = "progress" /\ UNCHANGED <<rescanTs, scanning>>
          /\ \/ command'[r] = [at |-> "start", time |-> command[r].time]
             \/ command'[r] = [at |-> "none", time |-> NoTime]
        BY <1>5, <1>10 DEF CheckProgress, Command
    <2>2. QED BY <1>2, <1>3, <1>4, <1>6, <1>8, <2>1 DEF PromiseInv, ScanInv, Scanned
<1>11. CASE StartScan(r)
    <2>1. /\ command[r].at = "start" /\ UNCHANGED rescanTs
          /\ \/ /\ command'[r] = [at |-> "record", time |-> command[r].time]
                /\ scanning' = command[r].time
             \/ /\ command'[r] = [at |-> "none", time |-> NoTime]
                /\ UNCHANGED scanning
        BY <1>5, <1>11 DEF StartScan, Command
    <2>2. rescanTs = NoTime /\ command[r].time # NoTime
        BY <1>8, <2>1
    <2>3. pc \notin {"BlockBefore", "RescanRollback", "Complete"}
        BY <1>8, <2>2 DEF ScanInv
    <2>4. QED BY <1>2, <1>3, <1>4, <1>6, <1>8, <2>1, <2>2, <2>3
                 DEF PromiseInv, ScanInv, Scanned
<1>12. CASE RecordRescan(r)
    <2>1. /\ command[r].at = "record" /\ rescanTs' = command[r].time /\ UNCHANGED scanning
          /\ command'[r] = [at |-> "none", time |-> NoTime]
        BY <1>5, <1>12 DEF RecordRescan, Command
    <2>2. rescanTs = NoTime /\ (aborts = 0 => Scanned(command[r].time))
        BY <1>8, <2>1 DEF ScanInv
    <2>3. pc \notin {"BlockBefore", "RescanRollback", "Complete"}
        BY <1>8, <2>2 DEF ScanInv
    <2>4. pc = "Progress" => seenTs = NoTime
        BY <1>8, <2>2 DEF ScanInv
    <2>5. QED BY <1>2, <1>3, <1>4, <1>6, <1>8, <2>1, <2>2, <2>3, <2>4
                 DEF PromiseInv, ScanInv, Scanned
<1>13. QED BY <1>9, <1>10, <1>11, <1>12 DEF StartRescan

\* The scan ends with the wallet knowing what is since its date, or is aborted.
LEMMA ScanPromise ==
    ASSUME TypedInv, PromiseInv, FinishScan \/ AbortScan
    PROVE  PromiseInv'
<1>1. /\ scanning # NoTime /\ scanning' = NoTime
      /\ UNCHANGED <<blocks, best, reorgs, dbTip, coins, tip, updated, pc>>
      /\ UNCHANGED <<rescanTs, walletTs, command, seenTs>>
      /\ known \subseteq known'
    BY DEF FinishScan, AbortScan, Backend, pollerVars, dbVars
<1>2. aborts' = 0 => aborts = 0 /\ FinishScan
    BY RescanAssumption DEF FinishScan, AbortScan, TypedInv, RescanTypes
<1>3. LinearInv' /\ PlaceInv' /\ SeenInv'
    BY <1>1, <1>2, StaysSeen
<1>4. \A date : KnownFrom(date) => KnownFrom(date)'
    BY <1>1 DEF KnownFrom
<1>5. ASSUME FinishScan, NEW date, date = scanning PROVE KnownFrom(date)'
    <2>1. known' = known \cup {t \in TxsOn(best) : HeightOn(t, best) \in scanning .. best}
        <3>1. ChainInv /\ LinearInv /\ best \in DOMAIN blocks
            BY DEF TypedInv, TablesInv, PromiseInv, ChainInv, ChainTypeOK
        <3>2. Height(best) = best
            BY <3>1, LinearChain
        <3>3. QED BY <1>5, <3>2 DEF FinishScan, ScannedUpTo
    <2>2. ChainInv /\ LinearInv /\ best \in DOMAIN blocks /\ best \in 0 .. best
        BY LinearChain DEF TypedInv, TablesInv, PromiseInv, ChainInv, ChainTypeOK
    <2>3. ASSUME NEW b \in DOMAIN blocks, b >= date, NEW t \in blocks[b].txs
          PROVE  t \in known'
        <3>1. b \in 0 .. best
            BY <2>2 DEF LinearInv
        <3>2. t \in TxsOn(best) /\ HeightOn(t, best) = b
            BY <2>2, <3>1, LinearHeight
        <3>3. scanning \in Int /\ best \in Nat
            <4>1. scanning \in Time \cup {NoTime}
                BY DEF TypedInv, RescanTypes
            <4>2. scanning \in Int
                BY <4>1, RescanAssumption DEF NoTime
            <4>3. QED BY <2>2, <4>2, LinearChain
        <3>4. HeightOn(t, best) \in scanning .. best
            BY <1>5, <2>3, <3>1, <3>2, <3>3
        <3>5. QED BY <2>1, <3>2, <3>4
    <2>4. QED BY <1>1, <2>3 DEF KnownFrom
<1>6. ASSUME aborts' = 0, NEW date, Scanned(date) PROVE Scanned(date)'
    BY <1>1, <1>2, <1>4, <1>5, <1>6 DEF Scanned
<1>7. ScanInv'
    BY <1>1, <1>2, <1>4, <1>6 DEF PromiseInv, ScanInv
<1>8. QED BY <1>3, <1>7 DEF PromiseInv

\* A restart forgets the commands and the poll, not what is recorded.
LEMMA RestartPromise ==
    ASSUME PromiseInv, Restart
    PROVE  PromiseInv'
<1>1. /\ UNCHANGED <<blocks, best, reorgs, known, dbTip, coins, rescanTs, walletTs>>
      /\ UNCHANGED <<scanning, aborts>>
      /\ command' = [r \in Client |-> NoCommand] /\ pc' = "Idle"
    BY DEF Restart, chainVars, dbVars, GoTo
<1>2. LinearInv'
    BY <1>1 DEF PromiseInv, LinearInv
<1>3. ScanInv'
    BY <1>1 DEF PromiseInv, ScanInv, Scanned, KnownFrom, NoCommand
<1>4. PlaceInv'
    BY <1>1 DEF PlaceInv, InPoll, WriteStates
<1>5. SeenInv'
    BY <1>1 DEF PromiseInv, SeenInv, BeforeInsert, BeforeConfirm, AfterConfirm
<1>6. QED BY <1>2, <1>3, <1>4, <1>5 DEF PromiseInv

-----------------------------------------------------------------------------
(* rescan_check() keeps the promise. *)

\* When it starts the tip is recorded, and when it goes on the scan is over.
LEMMA ReadsPromise ==
    ASSUME TypedInv, PromiseInv, ReadTimestamp \/ ReadProgress
    PROVE  PromiseInv'
<1>1. /\ UNCHANGED <<blocks, best, reorgs, known, dbTip, coins, tip, updated>>
      /\ UNCHANGED <<rescanTs, walletTs, scanning, aborts, command>>
    BY DEF ReadTimestamp, ReadProgress, StayOn, Step, chainVars, dbVars
<1>2. \/ pc = "Polled" /\ pc' = "Idle"
      \/ pc = "Polled" /\ pc' = "Progress" /\ seenTs' = rescanTs
      \/ pc = "Progress" /\ pc' = "Idle"
      \/ pc = "Progress" /\ pc' = "BlockBefore" /\ ScanOver /\ seenTs' = seenTs
    BY DEF ReadTimestamp, ReadProgress, Step, GoTo
<1>3. LinearInv'
    BY <1>1 DEF PromiseInv, LinearInv
<1>4. ScanInv'
    BY <1>1, <1>2 DEF PromiseInv, ScanInv, Scanned, KnownFrom, ScanOver
<1>5. PlaceInv'
    BY <1>1, <1>2 DEF PromiseInv, PlaceInv, InPoll, WriteStates
<1>6. SeenInv'
    BY <1>1, <1>2 DEF PromiseInv, SeenInv, BeforeInsert, BeforeConfirm, AfterConfirm
<1>7. QED BY <1>3, <1>4, <1>5, <1>6 DEF PromiseInv

\* The block before the date is not after the recorded tip.
LEMMA FindPromise ==
    ASSUME Undisturbed, TypedInv, PromiseInv, FindBlockBefore
    PROVE  PromiseInv'
<1>1. /\ UNCHANGED <<blocks, best, reorgs, known, dbTip, coins, updated>>
      /\ UNCHANGED <<rescanTs, walletTs, scanning, aborts, command, seenTs>>
      /\ pc = "BlockBefore"
      /\ \/ pc' = "Idle"
         \/ pc' = "RescanRollback" /\ tip' \in BlockBefore(seenTs)
    BY DEF FindBlockBefore, Step, GoTo, chainVars, dbVars
<1>2. LinearInv'
    BY <1>1 DEF PromiseInv, LinearInv
<1>3. ScanInv'
    BY <1>1 DEF PromiseInv, ScanInv, Scanned, KnownFrom
<1>4. SeenInv'
    BY <1>1 DEF PromiseInv, SeenInv, BeforeInsert, BeforeConfirm, AfterConfirm
<1>5. ASSUME pc' = "Idle" PROVE PlaceInv'
    BY <1>5 DEF PlaceInv, InPoll, WriteStates
<1>6. ASSUME pc' = "RescanRollback", tip' \in BlockBefore(seenTs) PROVE PlaceInv'
    <2>1. ChainInv /\ LinearInv /\ best \in DOMAIN blocks
        BY DEF TypedInv, TablesInv, PromiseInv, ChainInv, ChainTypeOK
    <2>2. tip' \in DOMAIN blocks /\ tip' = IF seenTs = 0 THEN 0 ELSE seenTs - 1
        BY <1>6, <2>1, LinearChain, Chains DEF BlockBefore
    <2>3. seenTs \in Time /\ seenTs \in Nat /\ seenTs <= Len(History) + 1
        BY <1>1, RescanAssumption
           DEF PromiseInv, ScanInv, TypedInv, RescanTypes, Undisturbed
    <2>4. Len(History) <= dbTip /\ dbTip \in Nat /\ Len(History) \in Nat
        BY <1>1, <2>1, LinearChain, RescanAssumption
           DEF PromiseInv, PlaceInv, TypedInv, TablesInv
    <2>5. tip' <= dbTip /\ (tip' < seenTs \/ tip' = 0)
        BY <2>2, <2>3, <2>4
    <2>6. QED BY <1>1, <1>6, <2>5 DEF PlaceInv, InPoll, WriteStates
<1>7. PlaceInv'
    BY <1>1, <1>5, <1>6
<1>8. QED BY <1>2, <1>3, <1>4, <1>7 DEF PromiseInv

\* The coins below the block that the wallet goes back to stay confirmed.
LEMMA BackPromise ==
    ASSUME TypedInv, PromiseInv, RescanRollback
    PROVE  PromiseInv'
<1>1. /\ UNCHANGED <<blocks, best, reorgs, known, tip, updated>>
      /\ UNCHANGED <<rescanTs, walletTs, scanning, aborts, command, seenTs>>
      /\ pc = "RescanRollback" /\ pc' = "Complete" /\ dbTip' = tip
      /\ coins' = [c \in DOMAIN coins |-> RolledBack(coins[c], Height(tip))]
    BY DEF RescanRollback, RollbackTip, Step, GoTo, chainVars
<1>2. ChainInv /\ CoinsInv /\ LinearInv /\ best \in DOMAIN blocks
      /\ tip \in DOMAIN blocks /\ dbTip \in DOMAIN blocks
    BY DEF TypedInv, TablesInv, PromiseInv, ChainInv, ChainTypeOK
<1>3. tip \in Nat /\ dbTip \in Nat /\ best \in Nat /\ Height(tip) = tip
    BY <1>2, LinearChain
<1>4. tip <= dbTip /\ (tip < seenTs \/ tip = 0)
    BY <1>1 DEF PromiseInv, PlaceInv
<1>5. LinearInv'
    BY <1>1 DEF PromiseInv, LinearInv
<1>6. ScanInv'
    BY <1>1 DEF PromiseInv, ScanInv, Scanned, KnownFrom
<1>7. PlaceInv'
    BY <1>1, <1>4 DEF PlaceInv, InPoll, WriteStates
<1>8. ASSUME NEW c \in Ripe(blocks, walletTs, tip), aborts = 0
      PROVE  c \in ConfirmedRows(coins')
    <2>1. c \in ConfirmedRows(coins)
        BY <1>2, <1>3, <1>4, <1>8, DueUpTo DEF PromiseInv, SeenInv
    <2>2. PICK b \in DOMAIN blocks : TxOf[c] \in blocks[b].txs /\ b <= tip
        BY DEF Ripe
    <2>3. coins[c].height = b
        BY <1>2, <2>1, <2>2, RowHeight
    <2>4. ~ (coins[c].height > Height(tip))
        BY <1>2, <1>3, <2>2, <2>3 DEF LinearInv
    <2>5. c \in DOMAIN coins /\ coins[c] \in Row /\ coins[c].height # NoHeight
        BY <1>2, <2>1 DEF ConfirmedRows, CoinsInv, GoodRow
    <2>6. RolledBack(coins[c], Height(tip)).height = coins[c].height
        BY <2>4, <2>5 DEF RolledBack, Row
    <2>7. QED BY <1>1, <2>5, <2>6 DEF ConfirmedRows
<1>9. aborts = 0 => Due(blocks, walletTs, tip) \subseteq DOMAIN coins'
    <2>1. Due(blocks, walletTs, tip) \subseteq Due(blocks, walletTs, dbTip)
        BY <1>2, <1>3, <1>4, DueUpTo
    <2>2. DOMAIN coins' = DOMAIN coins
        BY <1>1
    <2>3. QED BY <2>1, <2>2 DEF PromiseInv, SeenInv
<1>10. SeenInv'
    BY <1>1, <1>8, <1>9 DEF SeenInv, BeforeInsert, BeforeConfirm, AfterConfirm
<1>11. QED BY <1>5, <1>6, <1>7, <1>10 DEF PromiseInv

\* The date is set back to that of the rescan: nothing of it is due up to the tip.
LEMMA CompletePromise ==
    ASSUME TypedInv, PromiseInv, CompleteRescan
    PROVE  PromiseInv'
<1>1. /\ UNCHANGED <<blocks, best, reorgs, known, dbTip, coins, tip, updated>>
      /\ UNCHANGED <<scanning, aborts, command, seenTs>>
      /\ pc = "Complete"
    BY DEF CompleteRescan, chainVars, dbVars
<1>2. rescanTs = seenTs /\ rescanTs # NoTime /\ (dbTip < seenTs \/ dbTip = 0)
    BY <1>1 DEF PromiseInv, ScanInv, PlaceInv
<1>3. /\ pc' = "Tip" /\ rescanTs' = NoTime
      /\ walletTs' \in {walletTs, rescanTs}
    BY <1>2 DEF CompleteRescan, GoTo
<1>4. LinearInv'
    BY <1>1 DEF PromiseInv, LinearInv
<1>5. aborts = 0 => KnownFrom(rescanTs) /\ KnownFrom(walletTs)
    BY <1>1, <1>2 DEF PromiseInv, ScanInv, Scanned
<1>6. ScanInv'
    BY <1>1, <1>2, <1>3, <1>5 DEF PromiseInv, ScanInv, Scanned, KnownFrom
<1>7. PlaceInv'
    BY <1>3 DEF PlaceInv, InPoll, WriteStates
<1>8. Due(blocks, rescanTs, dbTip) = {} /\ Ripe(blocks, rescanTs, dbTip) = {}
    <2>1. LinearInv /\ best \in Nat /\ dbTip \in Nat /\ rescanTs \in Nat
        <3>1. LinearInv /\ best \in Nat /\ dbTip \in Nat
            BY LinearChain DEF TypedInv, TablesInv, PromiseInv
        <3>2. rescanTs \in Nat
            BY <1>2, RescanAssumption DEF TypedInv, RescanTypes
        <3>3. QED BY <3>1, <3>2
    <2>2. \A b \in DOMAIN blocks : rescanTs <= b /\ b <= dbTip => b = 0
        BY <1>2, <2>1 DEF LinearInv
    <2>3. QED BY <2>1, <2>2 DEF LinearInv, Due, Ripe
<1>9. aborts = 0 => /\ Due(blocks, walletTs', dbTip) \subseteq DOMAIN coins
                   /\ Ripe(blocks, walletTs', dbTip) \subseteq ConfirmedRows(coins)
    BY <1>3, <1>8 DEF PromiseInv, SeenInv
<1>10. SeenInv'
    BY <1>1, <1>3, <1>9 DEF SeenInv, BeforeInsert, BeforeConfirm, AfterConfirm
<1>11. QED BY <1>4, <1>6, <1>7, <1>10 DEF PromiseInv

-----------------------------------------------------------------------------
(* A poll keeps the promise. *)

\* No step of a poll changes what concerns the node and the rescan.
LEMMA PollStays ==
    ASSUME TypedInv, PromiseInv, PollStep
    PROVE  /\ UNCHANGED <<blocks, best, reorgs, known, walletTs, aborts, rescanVars>>
           /\ LinearInv' /\ ScanInv'
           /\ ChainInv /\ LinearInv /\ CoinsInv /\ UpdatedInv
           /\ {best, dbTip, tip} \subseteq DOMAIN blocks
           /\ {best, dbTip, tip} \subseteq Nat
<1>1. UNCHANGED <<chainVars, rescanVars>>
    BY DEF PollStep, StartPoll, Queries, Writes, FetchTip, CheckInChain, FindAncestor,
           ReadReceived, ReadConfirmed, ReadSpending, ReadSpent, CheckTip, Rollback, AddTxs,
           InsertReceived, RemoveExpired, ConfirmCoins, UnspendExpired, SpendCoins,
           ConfirmSpend, UpdateFromSelf, SetTip, Read, Write, RollbackTip
<1>2. /\ UNCHANGED <<blocks, best, reorgs, known, rescanVars>>
      /\ UNCHANGED <<rescanTs, walletTs, scanning, aborts, command, seenTs>>
    BY <1>1 DEF chainVars, rescanVars
<1>3. pc' \in Labels
    BY PollKeepsTypes DEF TypedInv
<1>4. LinearInv' /\ ScanInv'
    BY <1>2, <1>3
       DEF PromiseInv, LinearInv, ScanInv, Scanned, KnownFrom, Labels, QueryStates, WriteStates
<1>5. ChainInv /\ LinearInv /\ CoinsInv /\ UpdatedInv /\ {best, dbTip, tip} \subseteq DOMAIN blocks
    BY DEF TypedInv, TablesInv, PromiseInv, ChainInv, ChainTypeOK
<1>6. {best, dbTip, tip} \subseteq Nat
    BY <1>5, LinearChain
<1>7. QED BY <1>2, <1>4, <1>5, <1>6

\* The poll's tip is never behind the recorded one, which is always in the chain.
LEMMA TipPromise ==
    ASSUME TypedInv, PromiseInv, PollStep,
           StartPoll \/ FetchTip \/ CheckInChain \/ FindAncestor \/ CheckTip \/ Rollback
    PROVE  PlaceInv' /\ SeenInv'
<1>1. /\ ChainInv /\ LinearInv /\ {best, dbTip, tip} \subseteq DOMAIN blocks
      /\ {best, dbTip, tip} \subseteq Nat
      /\ UNCHANGED <<blocks, walletTs, aborts>>
    BY PollStays
<1>2. /\ Height(dbTip) = dbTip /\ Height(best) = best /\ IsInChain(dbTip) /\ dbTip <= best
      /\ Len(History) <= best
    BY <1>1, LinearChain DEF LinearInv
<1>3. pc \notin {"Ancestor", "Rollback"}
    BY DEF PromiseInv, PlaceInv
<1>4. UNCHANGED <<dbTip, coins>>
    BY <1>3 DEF StartPoll, FetchTip, CheckInChain, FindAncestor, CheckTip, Rollback, Read, dbVars
<1>5. \/ pc' = "Tip"
      \/ pc = "Tip" /\ tip' = best /\ pc' \in {"Received", "InChain"}
      \/ pc = "InChain" /\ pc' = "Received" /\ UNCHANGED tip
      \/ pc = "Check" /\ pc' = "AddTxs" /\ UNCHANGED <<tip, updated>>
    BY <1>1, <1>2, <1>3
       DEF StartPoll, FetchTip, CheckInChain, FindAncestor, CheckTip, Rollback, Read, GoTo
<1>6. PlaceInv'
    BY <1>2, <1>4, <1>5 DEF PromiseInv, PlaceInv, InPoll, WriteStates
<1>7. SeenInv'
    BY <1>1, <1>4, <1>5 DEF PromiseInv, SeenInv, BeforeInsert, BeforeConfirm, AfterConfirm
<1>8. QED BY <1>6, <1>7

\* A coin that is due and not yet there is above the recorded tip: it is found.
LEMMA ReceivedPromise ==
    ASSUME TypedInv, PromiseInv, PollStep, ReadReceived
    PROVE  PlaceInv' /\ SeenInv'
<1>1. /\ ChainInv /\ LinearInv /\ {best, dbTip, tip} \subseteq DOMAIN blocks
      /\ {best, dbTip, tip} \subseteq Nat
      /\ UNCHANGED <<blocks, walletTs, aborts>>
    BY PollStays
<1>2. /\ pc = "Received" /\ pc' = "Confirmed" /\ UNCHANGED <<dbTip, coins, tip>>
      /\ updated' = [updated EXCEPT !.received = [c \in NewlyReceived |-> Received[c]]]
    BY DEF ReadReceived, Read, GoTo, dbVars
<1>3. DOMAIN updated'.received = DOMAIN Received \ DOMAIN coins
    <2>1. updated'.received = [c \in NewlyReceived |-> Received[c]]
        BY <1>2 DEF TypedInv, TablesInv, UpdatedInv, UpdatedTypeOK
    <2>2. QED BY <2>1 DEF NewlyReceived
<1>4. PlaceInv'
    BY <1>2 DEF PromiseInv, PlaceInv, InPoll, WriteStates
<1>5. ASSUME aborts = 0, NEW c \in Due(blocks, walletTs, tip), c \notin DOMAIN coins
      PROVE  c \in DOMAIN Received
    <2>1. PICK b \in DOMAIN blocks : TxOf[c] \in blocks[b].txs /\ walletTs <= b /\ b <= tip
        BY DEF Due
    <2>2. ~ (b <= dbTip)
        <3>1. c \notin Due(blocks, walletTs, dbTip)
            BY <1>5 DEF PromiseInv, SeenInv
        <3>2. QED BY <2>1, <3>1 DEF Due
    <2>3. TxOf[c] \in known
        BY <1>1, <1>5, <2>1 DEF PromiseInv, ScanInv, KnownFrom, TypedInv, RescanTypes, LinearInv
    <2>4. b \in 0 .. best /\ TxOf[c] \in TxsOn(best) /\ HeightOn(TxOf[c], best) = b
        <3>1. b \in 0 .. best
            BY <1>1 DEF LinearInv
        <3>2. QED BY <1>1, <2>1, <3>1, LinearHeight
    <2>5. ForkPoint(dbTip, best) = dbTip /\ Height(dbTip) = dbTip
        BY <1>1, LinearChain
    <2>6. TxOf[c] \in ListedSince(Height(ForkPoint(dbTip, best)))
        BY <1>1, <2>2, <2>3, <2>4, <2>5 DEF ListedSince
    <2>7. c \in Coin
        BY DEF Due
    <2>8. QED BY <2>4, <2>6, <2>7 DEF Received, ReceivedCoins
<1>6. SeenInv'
    BY <1>1, <1>2, <1>3, <1>5 DEF PromiseInv, SeenInv, BeforeInsert, BeforeConfirm, AfterConfirm
<1>7. QED BY <1>4, <1>6

\* A coin that is due is in the chain: it has not expired, and once it is mature it is
\* to be confirmed.
LEMMA ConfirmedPromise ==
    ASSUME TypedInv, PromiseInv, PollStep, ReadConfirmed
    PROVE  PlaceInv' /\ SeenInv'
<1>1. /\ ChainInv /\ LinearInv /\ {best, dbTip, tip} \subseteq DOMAIN blocks
      /\ {best, dbTip, tip} \subseteq Nat
      /\ UNCHANGED <<blocks, walletTs, aborts>>
    BY PollStays
<1>2. /\ pc = "Confirmed" /\ pc' = "Spending" /\ UNCHANGED <<dbTip, coins, tip>>
      /\ updated' = [updated EXCEPT !.confirmed = ConfirmedCoins(ToBeConfirmed),
                                    !.expired = ExpiredCoins(ToBeConfirmed)]
    BY DEF ReadConfirmed, Read, GoTo, dbVars
<1>3. /\ updated'.received = updated.received
      /\ updated'.confirmed = ConfirmedCoins(ToBeConfirmed)
      /\ updated'.expired = ExpiredCoins(ToBeConfirmed)
    BY <1>2 DEF TypedInv, TablesInv, UpdatedInv, UpdatedTypeOK
<1>4. PlaceInv'
    BY <1>2 DEF PromiseInv, PlaceInv, InPoll, WriteStates
<1>5. ASSUME aborts = 0, NEW c \in Due(blocks, walletTs, tip)
      PROVE  c \in DOMAIN coins \cup DOMAIN updated.received /\ c \notin updated'.expired
    <2>1. PICK b \in DOMAIN blocks : TxOf[c] \in blocks[b].txs
        BY DEF Due
    <2>2. TxOf[c] \in TxsOn(best)
        <3>1. b \in 0 .. best
            BY <1>1 DEF LinearInv
        <3>2. QED BY <1>1, <2>1, <3>1, LinearHeight
    <2>3. c \in DOMAIN coins \cup DOMAIN updated.received
        BY <1>2, <1>5 DEF PromiseInv, SeenInv, BeforeInsert
    <2>4. c \notin ExpiredCoins(ToBeConfirmed)
        BY <2>2 DEF ExpiredCoins
    <2>5. QED BY <1>3, <2>3, <2>4
<1>6. ASSUME aborts = 0, NEW c \in Ripe(blocks, walletTs, tip)
      PROVE  c \in ConfirmedRows(coins) \cup DOMAIN updated'.confirmed
    <2>1. PICK b \in DOMAIN blocks :
              /\ TxOf[c] \in blocks[b].txs
              /\ TxOf[c] \in Coinbase => tip - b + 1 >= Maturity
        BY DEF Ripe
    <2>2. b \in 0 .. best /\ tip <= best /\ Height(best) = best
        BY <1>1, LinearChain DEF LinearInv
    <2>3. TxOf[c] \in TxsOn(best) /\ HeightOn(TxOf[c], best) = b
        BY <1>1, <2>1, <2>2, LinearHeight
    <2>4. Matured(TxOf[c])
        <3>1. Confirmations(TxOf[c]) = best - b + 1
            BY <2>2, <2>3 DEF Confirmations
        <3>2. best \in Nat /\ tip \in Nat /\ b \in Nat /\ Maturity \in Nat
            BY <1>1, <2>2, WalletAssumption
        <3>3. ASSUME TxOf[c] \in Coinbase PROVE best - b + 1 >= Maturity
            <4>1. tip - b + 1 >= Maturity /\ tip <= best
                BY <2>1, <2>2, <3>3
            <4>2. QED BY <3>2, <4>1
        <3>4. QED BY <3>1, <3>3 DEF Matured
    <2>5. c \in DOMAIN coins \cup DOMAIN updated.received
        BY <1>5, <1>6, RipeDue
    <2>6. c \in ConfirmedRows(coins) \/ c \in ToBeConfirmed
        BY <2>5 DEF ConfirmedRows, ToBeConfirmed, Unconfirmed
    <2>7. c \in ToBeConfirmed => c \in DOMAIN ConfirmedCoins(ToBeConfirmed)
        BY <2>3, <2>4 DEF ConfirmedCoins
    <2>8. QED BY <1>3, <2>6, <2>7
<1>7. SeenInv'
    BY <1>1, <1>2, <1>3, <1>5, <1>6
       DEF PromiseInv, SeenInv, BeforeInsert, BeforeConfirm, AfterConfirm
<1>8. QED BY <1>4, <1>7

\* The spends of the coins are of no concern here.
LEMMA SpendsPromise ==
    ASSUME TypedInv, PromiseInv, PollStep, ReadSpending \/ ReadSpent \/ AddTxs
    PROVE  PlaceInv' /\ SeenInv'
<1>1. UNCHANGED <<blocks, walletTs, aborts>>
    BY PollStays
<1>2. UNCHANGED <<dbTip, coins, tip>>
    BY DEF ReadSpending, ReadSpent, AddTxs, Read, dbVars
<1>3. \/ pc = "Spending" /\ pc' = "Spent"
      \/ pc = "Spent" /\ pc' = "Check"
      \/ pc = "AddTxs" /\ pc' \in {"Insert", "Panicked"}
    BY DEF ReadSpending, ReadSpent, AddTxs, Read, GoTo
<1>4. /\ updated'.received = updated.received
      /\ updated'.confirmed = updated.confirmed
      /\ updated'.expired = updated.expired
    BY DEF ReadSpending, ReadSpent, AddTxs, TypedInv, TablesInv, UpdatedInv, UpdatedTypeOK
<1>5. PlaceInv'
    BY <1>2, <1>3 DEF PromiseInv, PlaceInv, InPoll, WriteStates
<1>6. SeenInv'
    BY <1>1, <1>2, <1>3, <1>4 DEF PromiseInv, SeenInv, BeforeInsert, BeforeConfirm, AfterConfirm
<1>7. QED BY <1>5, <1>6

\* The coins found are inserted, and those that have expired removed.
LEMMA InsertPromise ==
    ASSUME TypedInv, PromiseInv, PollStep, InsertReceived \/ RemoveExpired
    PROVE  PlaceInv' /\ SeenInv'
<1>1. /\ UNCHANGED <<blocks, walletTs, aborts>>
      /\ LinearInv /\ {best, dbTip, tip} \subseteq Nat
      /\ UNCHANGED <<dbTip, tip, updated>>
    <2>1. UNCHANGED <<dbTip, tip, updated>>
        BY DEF InsertReceived, RemoveExpired, Write
    <2>2. QED BY <2>1, PollStays
<1>2. pc \in {"Insert", "Remove"} /\ pc' \in {"Remove", "Confirm", "Panicked"}
    BY DEF InsertReceived, RemoveExpired, Write, GoTo
<1>3. PlaceInv'
    BY <1>1, <1>2 DEF PromiseInv, PlaceInv, InPoll, WriteStates
<1>4. /\ Due(blocks, walletTs, dbTip) \subseteq Due(blocks, walletTs, tip)
      /\ Ripe(blocks, walletTs, dbTip) \subseteq Due(blocks, walletTs, dbTip)
      /\ Ripe(blocks, walletTs, tip) \subseteq Due(blocks, walletTs, tip)
    <2>1. dbTip <= tip
        BY <1>2 DEF PromiseInv, PlaceInv, InPoll, WriteStates
    <2>2. QED BY <1>1, <2>1, DueUpTo, RipeDue
<1>5. CASE InsertReceived
    <2>1. pc = "Insert"
        BY <1>5 DEF InsertReceived
    <2>2. \/ pc' = "Panicked" /\ coins' = coins
          \/ /\ pc' = "Remove"
             /\ DOMAIN coins' = DOMAIN coins \cup DOMAIN updated.received
             /\ ConfirmedRows(coins) \subseteq ConfirmedRows(coins')
        <3> DEFINE NewRow(c) == [height |-> NoHeight, spendTx |-> NoTx,
                                 spendHeight |-> NoHeight, fromSelf |-> FALSE,
                                 immature |-> updated.received[c]]
                   rows == [c \in DOMAIN coins \cup DOMAIN updated.received |->
                               IF c \in DOMAIN updated.received THEN NewRow(c) ELSE coins[c]]
        <3>1. \/ pc' = "Panicked" /\ coins' = coins
              \/ /\ pc' = "Remove" /\ coins' = rows
                 /\ DOMAIN updated.received \cap DOMAIN coins = {}
            BY <1>5 DEF InsertReceived, Write, GoTo
        <3>2. \A c \in DOMAIN coins : c \notin DOMAIN updated.received => rows[c] = coins[c]
            OBVIOUS
        <3> HIDE DEF NewRow
        <3>3. DOMAIN rows = DOMAIN coins \cup DOMAIN updated.received
            OBVIOUS
        <3> HIDE DEF rows
        <3>4. QED BY <3>1, <3>2, <3>3 DEF ConfirmedRows
    <2>3. SeenInv'
        BY <1>1, <2>1, <2>2 DEF PromiseInv, SeenInv, BeforeInsert, BeforeConfirm, AfterConfirm
    <2>4. QED BY <1>3, <2>3
<1>6. CASE RemoveExpired
    <2>1. /\ pc = "Remove" /\ pc' = "Confirm"
          /\ coins' = [c \in DOMAIN coins \ updated.expired |-> coins[c]]
        BY <1>6 DEF RemoveExpired, Write, GoTo
    <2>2. /\ DOMAIN coins' = DOMAIN coins \ updated.expired
          /\ ConfirmedRows(coins') = ConfirmedRows(coins) \ updated.expired
        BY <2>1 DEF ConfirmedRows
    <2>3. SeenInv'
        BY <1>1, <1>4, <2>1, <2>2
           DEF PromiseInv, SeenInv, BeforeInsert, BeforeConfirm, AfterConfirm
    <2>4. QED BY <1>3, <2>3
<1>7. QED BY <1>5, <1>6

\* The coins that are due are confirmed.
LEMMA ConfirmPromise ==
    ASSUME TypedInv, PromiseInv, PollStep, ConfirmCoins
    PROVE  PlaceInv' /\ SeenInv'
<1>1. UNCHANGED <<blocks, walletTs, aborts>> /\ CoinsInv /\ UpdatedInv
    BY PollStays
<1>2. /\ pc = "Confirm" /\ pc' = "Unspend" /\ UNCHANGED <<dbTip, tip, updated>>
      /\ coins' = UpdatedRows(DOMAIN updated.confirmed, ConfirmedRow)
    BY DEF ConfirmCoins, Write, GoTo
<1>3. coins' = [c \in DOMAIN coins |->
                   IF c \in DOMAIN updated.confirmed THEN ConfirmedRow(c, coins[c]) ELSE coins[c]]
    BY <1>2 DEF UpdatedRows
<1>4. \A c \in DOMAIN coins \cap DOMAIN updated.confirmed :
          ConfirmedRow(c, coins[c]).height # NoHeight
    <2> TAKE c \in DOMAIN coins \cap DOMAIN updated.confirmed
    <2>1. coins[c] \in Row /\ updated.confirmed[c] \in Heights
        BY <1>1 DEF CoinsInv, GoodRow, UpdatedInv, UpdatedTypeOK, Maps
    <2>2. ConfirmedRow(c, coins[c]).height = updated.confirmed[c]
        BY <2>1 DEF ConfirmedRow, Row
    <2>3. updated.confirmed[c] # NoHeight
        BY <2>1 DEF Heights, NoHeight
    <2>4. QED BY <2>2, <2>3
<1>5. (ConfirmedRows(coins) \cup DOMAIN updated.confirmed) \cap DOMAIN coins
          \subseteq ConfirmedRows(coins')
    BY <1>3, <1>4 DEF ConfirmedRows
<1>6. /\ ConfirmedRows(coins) \subseteq ConfirmedRows(coins')
      /\ DOMAIN coins' = DOMAIN coins
      /\ Ripe(blocks, walletTs, tip) \subseteq Due(blocks, walletTs, tip)
    BY <1>3, <1>5, RipeDue DEF ConfirmedRows
<1>7. PlaceInv'
    BY <1>2 DEF PromiseInv, PlaceInv, InPoll, WriteStates
<1>8. SeenInv'
    BY <1>1, <1>2, <1>5, <1>6 DEF PromiseInv, SeenInv, BeforeInsert, BeforeConfirm, AfterConfirm
<1>9. QED BY <1>7, <1>8

\* Recording spends leaves the confirmations as they are.
LEMMA SpendPromise ==
    ASSUME TypedInv, PromiseInv, PollStep,
           UnspendExpired \/ SpendCoins \/ ConfirmSpend \/ UpdateFromSelf
    PROVE  PlaceInv' /\ SeenInv'
<1>1. UNCHANGED <<blocks, walletTs, aborts>> /\ CoinsInv
    BY PollStays
<1>2. /\ UNCHANGED <<dbTip, tip, updated>>
      /\ pc \in AfterConfirm \ {"SetTip"} /\ pc' \in AfterConfirm \cup {"Panicked"}
    BY DEF UnspendExpired, SpendCoins, ConfirmSpend, UpdateFromSelf, Write, GoTo, AfterConfirm
<1>3. \A c \in DOMAIN coins : coins[c] \in Row
    BY <1>1 DEF CoinsInv, GoodRow
<1>4. DOMAIN coins' = DOMAIN coins /\ \A c \in DOMAIN coins : coins'[c].height = coins[c].height
    <2>1. CASE UnspendExpired
        BY <1>3, <2>1 DEF UnspendExpired, Write, UpdatedRows, Row
    <2>2. CASE SpendCoins
        BY <1>3, <2>2 DEF SpendCoins, Write, UpdatedRows, Row
    <2>3. CASE ConfirmSpend
        BY <1>3, <2>3 DEF ConfirmSpend, Write, UpdatedRows, Row
    <2>4. CASE UpdateFromSelf
        BY <1>3, <2>4 DEF UpdateFromSelf, Write, UpdatedRows, Row
    <2>5. QED BY <2>1, <2>2, <2>3, <2>4
<1>5. ConfirmedRows(coins') = ConfirmedRows(coins) /\ DOMAIN coins' = DOMAIN coins
    BY <1>4 DEF ConfirmedRows
<1>6. PlaceInv'
    BY <1>2 DEF PromiseInv, PlaceInv, InPoll, WriteStates, AfterConfirm
<1>7. SeenInv'
    BY <1>1, <1>2, <1>5 DEF PromiseInv, SeenInv, BeforeInsert, BeforeConfirm, AfterConfirm
<1>8. QED BY <1>6, <1>7

\* The tip is recorded once what is due up to it is confirmed.
LEMMA SetTipPromise ==
    ASSUME TypedInv, PromiseInv, PollStep, SetTip
    PROVE  PlaceInv' /\ SeenInv'
<1>1. UNCHANGED <<blocks, walletTs, aborts>>
    BY PollStays
<1>2. pc = "SetTip" /\ pc' = "Polled" /\ dbTip' = tip /\ UNCHANGED <<coins, tip>>
    BY DEF SetTip, GoTo
<1>3. PlaceInv'
    BY <1>2 DEF PromiseInv, PlaceInv, InPoll, WriteStates
<1>4. SeenInv'
    BY <1>1, <1>2 DEF PromiseInv, SeenInv, BeforeInsert, BeforeConfirm, AfterConfirm
<1>5. QED BY <1>3, <1>4

-----------------------------------------------------------------------------
\* Every step keeps the promise.
LEMMA PromiseKept ==
    ASSUME Undisturbed, TypedInv, PromiseInv, [RescanNext]_allVars, reorgs' = 0
    PROVE  PromiseInv'
<1>1. CASE PollStep
    <2>1. PlaceInv' /\ SeenInv'
        BY <1>1, TipPromise, ReceivedPromise, ConfirmedPromise, SpendsPromise, InsertPromise,
           ConfirmPromise, SpendPromise, SetTipPromise DEF PollStep, Queries, Writes
    <2>2. QED BY <1>1, <2>1, PollStays DEF PromiseInv
<1>2. CASE RescanCheck
    BY <1>2, ReadsPromise, FindPromise, BackPromise, CompletePromise DEF RescanCheck
<1>3. CASE UNCHANGED allVars
    BY <1>3 DEF allVars, vars, pollerVars, dbVars, chainVars, rescanVars, PromiseInv,
                LinearInv, ScanInv, Scanned, KnownFrom, PlaceInv, SeenInv
<1>4. QED BY <1>1, <1>2, <1>3, NodePromise, CommandPromise, ScanPromise, RestartPromise
             DEF RescanNext

\* What is due up to the recorded tip is there, and confirmed where the chain has it
\* once it is mature.
LEMMA PromiseHolds == TypedInv /\ PromiseInv => (aborts = 0 => CoinsSeen)
<1> SUFFICES ASSUME TypedInv, PromiseInv, aborts = 0, NEW c \in Coin,
                    HeightOn(TxOf[c], dbTip) # NoHeight, HeightOn(TxOf[c], dbTip) >= walletTs
             PROVE  /\ c \in DOMAIN coins
                    /\ MatureOn(TxOf[c], dbTip) =>
                          coins[c].height = HeightOn(TxOf[c], dbTip)
    BY DEF CoinsSeen
<1>1. ChainInv /\ CoinsInv /\ LinearInv /\ dbTip \in DOMAIN blocks
    BY DEF TypedInv, TablesInv, PromiseInv
<1>2. Chain(dbTip) = 0 .. dbTip /\ Height(dbTip) = dbTip
    BY <1>1, LinearChain
<1>3. PICK a \in 0 .. dbTip : TxOf[c] \in blocks[a].txs
    BY <1>2 DEF HeightOn, TxsOn
<1>4. HeightOn(TxOf[c], dbTip) = a
    BY <1>1, <1>3, LinearHeight
<1>5. a \in DOMAIN blocks
    BY <1>1, <1>2, Chains
<1>6. c \in DOMAIN coins
    <2>1. c \in Due(blocks, walletTs, dbTip)
        BY <1>3, <1>4, <1>5 DEF Due
    <2>2. QED BY <2>1 DEF PromiseInv, SeenInv
<1>7. ASSUME MatureOn(TxOf[c], dbTip) PROVE coins[c].height = a
    <2>1. c \in Ripe(blocks, walletTs, dbTip)
        BY <1>2, <1>3, <1>4, <1>5, <1>7 DEF MatureOn, Ripe
    <2>2. c \in ConfirmedRows(coins)
        BY <2>1 DEF PromiseInv, SeenInv
    <2>3. QED BY <1>1, <1>3, <1>5, <2>2, RowHeight
<1>8. QED BY <1>4, <1>6, <1>7

-----------------------------------------------------------------------------
(* The spends that are recorded.  Nothing here depends on the chain that is  *)
(* active, nor on the rescans.                                              *)

\* Some block at height h, of any branch, holds t, which spends c.
SpentAt(c, t, h) ==
    /\ c \in Ins[t]
    /\ \E b \in DOMAIN blocks : blocks[b].height = h /\ t \in blocks[b].txs

GoodSpend(c, row) ==
    /\ row.spendTx # NoTx => c \in Ins[row.spendTx]
    /\ row.spendHeight # NoHeight => SpentAt(c, row.spendTx, row.spendHeight)

GoodSpends == \A c \in DOMAIN coins : GoodSpend(c, coins[c])

SpentRows(rows) == {c \in DOMAIN rows : rows[c].spendHeight # NoHeight}

BeforeUnspend == {"Check", "AddTxs", "Insert", "Remove", "Confirm", "Unspend"}
BeforeSpend == {"Spent", "Spend"} \cup BeforeUnspend

\* The spends that are there, and those about to be recorded, are of blocks; and no
\* confirmed spend is about to be replaced by one that is not, or forgotten.
SpendsInv ==
    /\ GoodSpends
    /\ \A c \in DOMAIN updated.spending : c \in Ins[updated.spending[c]]
    /\ \A s \in updated.spent : SpentAt(s.coin, s.tx, s.height)
    /\ pc \in BeforeSpend => DOMAIN updated.spending \cap SpentRows(coins) = {}
    /\ pc \in BeforeUnspend => updated.expiredSpending \cap SpentRows(coins) = {}

\* Rows are of the type of rows.
LEMMA ARow ==
    ASSUME TablesInv, NEW c \in DOMAIN coins
    PROVE  coins[c] \in Row
BY DEF TablesInv, CoinsInv, GoodRow

\* rollback_tip() keeps who spends a coin, and when if neither the coin nor the spend
\* is above the block.
LEMMA RolledRows ==
    ASSUME TablesInv, NEW b, RollbackTip(b)
    PROVE  /\ DOMAIN coins' = DOMAIN coins
           /\ \A c \in DOMAIN coins :
                 /\ coins'[c].spendTx = coins[c].spendTx
                 /\ coins'[c].spendHeight \in {coins[c].spendHeight, NoHeight}
                 /\ ~ (coins[c].height > Height(b)) /\ ~ (coins[c].spendHeight > Height(b))
                       => coins'[c].spendHeight = coins[c].spendHeight
<1>1. coins' = [c \in DOMAIN coins |-> RolledBack(coins[c], Height(b))]
    BY DEF RollbackTip
<1>2. \A r \in Row :
          /\ RolledBack(r, Height(b)).spendTx = r.spendTx
          /\ RolledBack(r, Height(b)).spendHeight \in {r.spendHeight, NoHeight}
          /\ ~ (r.height > Height(b)) /\ ~ (r.spendHeight > Height(b))
                => RolledBack(r, Height(b)).spendHeight = r.spendHeight
    BY DEF RolledBack, Row
<1>3. QED BY <1>1, <1>2, ARow

\* Deleting or confirming coins, and the flag, leave the spends of the others.
LEMMA SameSpends ==
    ASSUME TablesInv, RemoveExpired \/ ConfirmCoins \/ UpdateFromSelf
    PROVE  /\ DOMAIN coins' \subseteq DOMAIN coins
           /\ \A c \in DOMAIN coins' : /\ coins'[c].spendTx = coins[c].spendTx
                                       /\ coins'[c].spendHeight = coins[c].spendHeight
<1>1. CASE RemoveExpired
    BY <1>1 DEF RemoveExpired, Write
<1>2. CASE ConfirmCoins
    <2>1. coins' = UpdatedRows(DOMAIN updated.confirmed, ConfirmedRow)
        BY <1>2 DEF ConfirmCoins, Write
    <2>2. \A c \in DOMAIN coins : /\ ConfirmedRow(c, coins[c]).spendTx = coins[c].spendTx
                                  /\ ConfirmedRow(c, coins[c]).spendHeight = coins[c].spendHeight
        BY ARow DEF ConfirmedRow, Row
    <2>3. QED BY <2>1, <2>2 DEF UpdatedRows
<1>3. CASE UpdateFromSelf
    <2> DEFINE new == [c \in DOMAIN coins |-> [coins[c] EXCEPT !.fromSelf = TRUE]]
    <2>1. coins' = [c \in DOMAIN coins |-> IF c \in FromSelfCoins THEN new[c] ELSE coins[c]]
        BY <1>3 DEF UpdateFromSelf, Write, UpdatedRows
    <2>2. \A c \in DOMAIN coins : /\ new[c].spendTx = coins[c].spendTx
                                  /\ new[c].spendHeight = coins[c].spendHeight
        BY ARow DEF Row
    <2> HIDE DEF new
    <2>3. QED BY <2>1, <2>2
<1>4. QED BY <1>1, <1>2, <1>3

\* A new coin is not spent.
LEMMA InsertedRows ==
    ASSUME InsertReceived
    PROVE  \/ pc' = "Panicked" /\ coins' = coins
           \/ /\ pc' = "Remove"
              /\ DOMAIN coins' = DOMAIN coins \cup DOMAIN updated.received
              /\ DOMAIN updated.received \cap DOMAIN coins = {}
              /\ \A c \in DOMAIN coins : coins'[c] = coins[c]
              /\ \A c \in DOMAIN updated.received : /\ coins'[c].spendTx = NoTx
                                                    /\ coins'[c].spendHeight = NoHeight
<1> DEFINE NewRow(c) == [height |-> NoHeight, spendTx |-> NoTx,
                         spendHeight |-> NoHeight, fromSelf |-> FALSE,
                         immature |-> updated.received[c]]
           new == DOMAIN updated.received
           rows == [c \in DOMAIN coins \cup new |-> IF c \in new THEN NewRow(c) ELSE coins[c]]
<1>1. \/ pc' = "Panicked" /\ coins' = coins
      \/ pc' = "Remove" /\ coins' = rows /\ new \cap DOMAIN coins = {}
    BY DEF InsertReceived, Write, GoTo
<1>2. \A c : NewRow(c).spendTx = NoTx /\ NewRow(c).spendHeight = NoHeight
    OBVIOUS
<1> HIDE DEF NewRow
<1>3. QED BY <1>1, <1>2

\* An expired spend is forgotten whole.
LEMMA UnspentRows ==
    ASSUME TablesInv, UnspendExpired
    PROVE  /\ pc' = "Spend" /\ DOMAIN coins' = DOMAIN coins
           /\ \A c \in DOMAIN coins \ updated.expiredSpending : coins'[c] = coins[c]
           /\ \A c \in DOMAIN coins \cap updated.expiredSpending :
                 coins'[c].spendTx = NoTx /\ coins'[c].spendHeight = NoHeight
<1> DEFINE new == [c \in DOMAIN coins |->
                      [coins[c] EXCEPT !.spendTx = NoTx, !.spendHeight = NoHeight]]
           set == updated.expiredSpending
<1>1. /\ coins' = [c \in DOMAIN coins |-> IF c \in set THEN new[c] ELSE coins[c]]
      /\ pc' = "Spend"
    BY DEF UnspendExpired, Write, GoTo, UpdatedRows
<1>2. \A c \in DOMAIN coins : new[c].spendTx = NoTx /\ new[c].spendHeight = NoHeight
    BY ARow DEF Row
<1> HIDE DEF new
<1>3. QED BY <1>1, <1>2

\* A spend that is found is recorded as unconfirmed yet.
LEMMA SpendingRows ==
    ASSUME TablesInv, SpendCoins
    PROVE  \/ pc' = "Panicked" /\ coins' = coins
           \/ /\ pc' = "ConfirmSpend" /\ DOMAIN coins' = DOMAIN coins
              /\ \A c \in DOMAIN coins : coins'[c].spendHeight = coins[c].spendHeight
              /\ \A c \in DOMAIN coins \ DOMAIN updated.spending : coins'[c] = coins[c]
              /\ \A c \in DOMAIN coins \cap DOMAIN updated.spending :
                    coins'[c].spendTx = updated.spending[c]
<1> DEFINE new == [c \in DOMAIN coins |-> [coins[c] EXCEPT !.spendTx = updated.spending[c]]]
           set == DOMAIN updated.spending
<1>1. \/ pc' = "Panicked" /\ coins' = coins
      \/ /\ pc' = "ConfirmSpend"
         /\ coins' = [c \in DOMAIN coins |-> IF c \in set THEN new[c] ELSE coins[c]]
    BY DEF SpendCoins, Write, GoTo, UpdatedRows
<1>2. \A c \in DOMAIN coins : /\ new[c].spendTx = updated.spending[c]
                              /\ new[c].spendHeight = coins[c].spendHeight
    BY ARow DEF Row
<1> HIDE DEF new
<1>3. QED BY <1>1, <1>2

\* A confirmed spend is recorded with its height.
LEMMA ConfirmedSpends ==
    ASSUME TablesInv, ConfirmSpend
    PROVE  \/ pc' = "Panicked" /\ coins' = coins
           \/ /\ pc' = "FromSelf" /\ DOMAIN coins' = DOMAIN coins
              /\ \A c \in DOMAIN coins :
                    \/ \E s \in updated.spent : /\ s.coin = c /\ coins'[c].spendTx = s.tx
                                                /\ coins'[c].spendHeight = s.height
                    \/ (\A s \in updated.spent : s.coin # c) /\ coins'[c] = coins[c]
<1> DEFINE set == {s.coin : s \in updated.spent}
           spender(c) == CHOOSE s \in updated.spent : s.coin = c
           new == [c \in DOMAIN coins |->
                      [coins[c] EXCEPT !.spendTx = spender(c).tx,
                                       !.spendHeight = spender(c).height]]
<1>1. \/ pc' = "Panicked" /\ coins' = coins
      \/ /\ pc' = "FromSelf"
         /\ coins' = [c \in DOMAIN coins |-> IF c \in set THEN new[c] ELSE coins[c]]
    BY DEF ConfirmSpend, Write, GoTo, UpdatedRows
<1>2. \A c \in set : spender(c) \in updated.spent /\ spender(c).coin = c
    OBVIOUS
<1>3. \A c : c \notin set => \A s \in updated.spent : s.coin # c
    OBVIOUS
<1> HIDE DEF set, spender
<1>4. \A c \in DOMAIN coins : /\ new[c].spendTx = spender(c).tx
                              /\ new[c].spendHeight = spender(c).height
    BY ARow DEF Row
<1> HIDE DEF new
<1>5. QED BY <1>1, <1>2, <1>3, <1>4

\* A new block does not change what the others say.
LEMMA SpentAtStays ==
    ASSUME Grows, NEW c, NEW t, NEW h, SpentAt(c, t, h)
    PROVE  SpentAt(c, t, h)'
BY DEF Grows, SpentAt

\* A step that collects nothing, changes rows well, and goes on.
LEMMA SpendsKept ==
    ASSUME SpendsInv, Grows,
           updated'.spending = updated.spending, updated'.spent = updated.spent,
           updated'.expiredSpending = updated.expiredSpending,
           \A c \in DOMAIN coins' : GoodSpend(c, coins'[c]),
           pc' \in BeforeSpend => pc \in BeforeSpend,
           pc' \in BeforeSpend => SpentRows(coins') \subseteq SpentRows(coins),
           pc' \in BeforeUnspend => pc \in BeforeUnspend
    PROVE  SpendsInv'
<1>1. GoodSpends'
    BY DEF Grows, GoodSpends, GoodSpend, SpentAt
<1>2. \A s \in updated'.spent : SpentAt(s.coin, s.tx, s.height)'
    BY SpentAtStays DEF SpendsInv
<1>3. \A c \in DOMAIN updated'.spending : c \in Ins[updated'.spending[c]]
    BY DEF SpendsInv
<1>4. pc' \in BeforeSpend => DOMAIN updated'.spending \cap SpentRows(coins') = {}
    BY DEF SpendsInv
<1>5. pc' \in BeforeUnspend => updated'.expiredSpending \cap SpentRows(coins') = {}
    BY DEF SpendsInv, BeforeSpend
<1>6. QED BY <1>1, <1>2, <1>3, <1>4, <1>5 DEF SpendsInv, SpentRows

\* A step that leaves the tables and what is collected.
LEMMA SpendsStay ==
    ASSUME SpendsInv, Grows, UNCHANGED <<coins, updated>>,
           pc' \in BeforeSpend => pc \in BeforeSpend,
           pc' \in BeforeUnspend => pc \in BeforeUnspend
    PROVE  SpendsInv'
<1>1. \A c \in DOMAIN coins' : GoodSpend(c, coins'[c])
    BY DEF SpendsInv, GoodSpends
<1>2. SpentRows(coins') \subseteq SpentRows(coins)
    OBVIOUS
<1>3. QED BY <1>1, <1>2, SpendsKept

\* What was collected is thrown away.
LEMMA SpendsReset ==
    ASSUME SpendsInv, Grows, coins' = coins, updated' = NothingUpdated,
           pc' \notin BeforeSpend
    PROVE  SpendsInv'
<1>1. GoodSpends'
    BY DEF Grows, SpendsInv, GoodSpends, GoodSpend, SpentAt
<1>2. DOMAIN updated'.spending = {} /\ updated'.spent = {}
    BY DEF NothingUpdated, None
<1>3. QED BY <1>1, <1>2 DEF SpendsInv, BeforeSpend

\* Initially nothing is spent.
LEMMA SpendsInit == RescanInit => SpendsInv
BY DEF RescanInit, SpendsInv, GoodSpends, NothingUpdated, None, BeforeSpend, BeforeUnspend

\* rollback_tip(), in an update or in a rescan.
LEMMA RollbackSpends ==
    ASSUME TablesInv, SpendsInv, NEW b, RollbackTip(b), pc' \notin BeforeSpend
    PROVE  SpendsInv'
<1>1. /\ DOMAIN coins' = DOMAIN coins
      /\ \A c \in DOMAIN coins : /\ coins'[c].spendTx = coins[c].spendTx
                                 /\ coins'[c].spendHeight \in {coins[c].spendHeight, NoHeight}
    BY RolledRows
<1>2. Grows /\ UNCHANGED updated
    BY DEF RollbackTip, chainVars, Grows
<1>3. \A c \in DOMAIN coins' : GoodSpend(c, coins'[c])
    BY <1>1 DEF SpendsInv, GoodSpends, GoodSpend
<1>4. QED BY <1>2, <1>3, SpendsKept DEF BeforeSpend

\* The queries up to that for the spends: what they collect is thrown away, or is not
\* of spends.
LEMMA EarlySpends ==
    ASSUME TablesInv, SpendsInv,
           FetchTip \/ CheckInChain \/ FindAncestor \/ ReadReceived \/ ReadConfirmed \/ CheckTip
    PROVE  SpendsInv'
<1>1. Grows /\ UNCHANGED coins
    BY DEF FetchTip, CheckInChain, FindAncestor, ReadReceived, ReadConfirmed, CheckTip, Read,
           chainVars, dbVars, Grows
<1>2. CASE FetchTip
    <2>1. updated' = NothingUpdated /\ pc' \notin BeforeSpend
        BY <1>2 DEF FetchTip, Read, GoTo, BeforeSpend, BeforeUnspend
    <2>2. QED BY <1>1, <2>1, SpendsReset
<1>3. CASE CheckInChain \/ FindAncestor \/ CheckTip
    <2>1. /\ UNCHANGED updated
          /\ \/ pc' \notin BeforeSpend
             \/ pc = "Check" /\ pc' = "AddTxs"
        BY <1>3 DEF CheckInChain, FindAncestor, CheckTip, Read, GoTo, BeforeSpend, BeforeUnspend
    <2>2. QED BY <1>1, <2>1, SpendsStay DEF BeforeSpend, BeforeUnspend
<1>4. CASE ReadReceived \/ ReadConfirmed
    <2>1. pc' \notin BeforeSpend
        BY <1>4 DEF ReadReceived, ReadConfirmed, Read, GoTo, BeforeSpend, BeforeUnspend
    <2>2. /\ updated'.spending = updated.spending /\ updated'.spent = updated.spent
          /\ updated'.expiredSpending = updated.expiredSpending
        BY <1>4 DEF ReadReceived, ReadConfirmed, TablesInv, UpdatedInv, UpdatedTypeOK
    <2>3. \A c \in DOMAIN coins' : GoodSpend(c, coins'[c])
        BY <1>1 DEF SpendsInv, GoodSpends
    <2>4. QED BY <1>1, <2>1, <2>2, <2>3, SpendsKept DEF BeforeSpend
<1>5. QED BY <1>2, <1>3, <1>4

\* Only coins without a confirmed spend are asked about.
LEMMA SpendingSpends ==
    ASSUME TablesInv, SpendsInv, ReadSpending
    PROVE  /\ SpendsInv'
           /\ \A c \in (DOMAIN coins \cup DOMAIN updated.received) \ updated.expired :
                 c \notin SpentRows(coins) /\ IsSpent(c) /\ Spenders(c) # {}
                    => c \in DOMAIN updated'.spending
           /\ UNCHANGED <<blocks, best, known, coins, dbTip, tip>>
           /\ updated'.received = updated.received
           /\ pc = "Spending" /\ pc' = "Spent"
<1> DEFINE settled == {c \in DOMAIN coins : /\ coins[c].spendTx # NoTx
                                            /\ coins[c].spendHeight # NoHeight}
           S == (DOMAIN coins \cup DOMAIN updated.received) \ (settled \cup updated.expired)
           found == {c \in S : IsSpent(c) /\ Spenders(c) # {}}
<1>1. PICK f \in SpendingCoins(S) : updated' = [updated EXCEPT !.spending = f]
    BY DEF ReadSpending
<1>2. /\ UNCHANGED <<blocks, best, known, coins, dbTip, tip>>
      /\ pc = "Spending" /\ pc' = "Spent"
    BY DEF ReadSpending, Read, GoTo, chainVars, dbVars
<1>3. /\ updated'.spending = f /\ updated'.spent = updated.spent
      /\ updated'.received = updated.received
    BY <1>1 DEF TablesInv, UpdatedInv, UpdatedTypeOK
<1>4. DOMAIN f = found /\ \A c \in DOMAIN f : f[c] \in Spenders(c)
    BY DEF SpendingCoins
<1>5. \A c \in DOMAIN f : c \in Ins[f[c]]
    BY <1>4 DEF Spenders
<1>6. \A c \in SpentRows(coins) : c \in settled
    <2> TAKE c \in SpentRows(coins)
    <2>1. c \in DOMAIN coins /\ SpentAt(c, coins[c].spendTx, coins[c].spendHeight)
        BY DEF SpentRows, SpendsInv, GoodSpends, GoodSpend
    <2>2. PICK b \in DOMAIN blocks : coins[c].spendTx \in blocks[b].txs
        BY <2>1 DEF SpentAt
    <2>3. blocks[b].txs \subseteq Tx
        BY DEF TablesInv, ChainInv, ChainTypeOK, Block
    <2>4. coins[c].spendTx # NoTx
        BY <2>2, <2>3, WalletAssumption
    <2>5. QED BY <2>1, <2>4 DEF SpentRows
<1>7. DOMAIN f \cap SpentRows(coins) = {}
    BY <1>4, <1>6
<1>8. \A c \in (DOMAIN coins \cup DOMAIN updated.received) \ updated.expired :
          c \notin SpentRows(coins) /\ IsSpent(c) /\ Spenders(c) # {} => c \in DOMAIN f
    BY <1>4 DEF SpentRows
<1> HIDE DEF S, found, settled
<1>9. SpendsInv'
    <2>1. GoodSpends'
        BY <1>2 DEF SpendsInv, GoodSpends, GoodSpend, SpentAt
    <2>2. \A s \in updated'.spent : SpentAt(s.coin, s.tx, s.height)'
        BY <1>2, <1>3 DEF SpendsInv, SpentAt
    <2>3. QED BY <1>2, <1>3, <1>5, <1>7, <2>1, <2>2 DEF SpendsInv, BeforeUnspend, SpentRows
<1>10. QED BY <1>2, <1>3, <1>8, <1>9

\* A coin whose spend is confirmed is not among the pairs that are asked about.
LEMMA PairsOf ==
    ASSUME SpendsInv, pc = "Spent", NEW p \in SpendingPairs
    PROVE  p[1] \notin SpentRows(coins) /\ p[1] \in Ins[p[2]]
<1>1. CASE p \in NewSpends
    <2>1. PICK c \in DOMAIN updated.spending : p = <<c, updated.spending[c]>>
        BY <1>1 DEF NewSpends
    <2>2. QED BY <2>1 DEF SpendsInv, BeforeSpend
<1>2. CASE p \notin NewSpends
    <2>1. PICK c \in ListSpendingCoins : p = <<c, coins[c].spendTx>>
        BY <1>2 DEF SpendingPairs
    <2>2. QED BY <2>1 DEF SpendsInv, GoodSpends, GoodSpend, ListSpendingCoins, SpentRows
<1>3. QED BY <1>1, <1>2

\* The spends found confirmed are of blocks of the active chain.
LEMMA SpentSpends ==
    ASSUME TablesInv, SpendsInv, ReadSpent
    PROVE  /\ SpendsInv'
           /\ UNCHANGED <<blocks, best, known, coins, dbTip, tip>>
           /\ updated'.received = updated.received
           /\ updated'.spent = SpentCoins(SpendingPairs)
           /\ pc = "Spent" /\ pc' = "Check"
<1> DEFINE spent == SpentCoins(SpendingPairs)
           expired == ExpiredSpends(SpendingPairs)
<1>1. /\ UNCHANGED <<blocks, best, known, coins, dbTip, tip>>
      /\ pc = "Spent" /\ pc' = "Check"
      /\ updated' = [updated EXCEPT !.spent = spent, !.expiredSpending = expired]
    BY DEF ReadSpent, Read, GoTo, chainVars, dbVars
<1>2. /\ updated'.spent = spent /\ updated'.expiredSpending = expired
      /\ updated'.spending = updated.spending /\ updated'.received = updated.received
    <2> HIDE DEF spent, expired
    <2>1. QED BY <1>1 DEF TablesInv, UpdatedInv, UpdatedTypeOK
<1>3. ASSUME NEW s \in spent PROVE SpentAt(s.coin, s.tx, s.height)
    <2>1. PICK p \in SpendingPairs : \E v \in ConfirmedSpenders(p[1], p[2]) :
              s = [coin |-> p[1], tx |-> v, height |-> HeightOn(v, best)]
        BY DEF SpentCoins
    <2>2. PICK v \in ConfirmedSpenders(p[1], p[2]) :
              s = [coin |-> p[1], tx |-> v, height |-> HeightOn(v, best)]
        BY <2>1
    <2>3. v \in TxsOn(best) /\ p[1] \in Ins[v]
        <3>1. p[1] \in Ins[p[2]]
            BY <1>1, PairsOf
        <3>2. QED BY <3>1 DEF ConfirmedSpenders
    <2>4. \E a \in DOMAIN blocks : Height(a) = HeightOn(v, best) /\ v \in blocks[a].txs
        <3>1. ChainInv /\ best \in DOMAIN blocks
            BY DEF TablesInv, ChainInv, ChainTypeOK
        <3>2. QED BY <2>3, <3>1, HeightOnChain
    <2>5. s.coin = p[1] /\ s.tx = v /\ s.height = HeightOn(v, best)
        BY <2>2
    <2>6. QED BY <2>3, <2>4, <2>5 DEF SpentAt, Height
<1>4. expired \cap SpentRows(coins) = {}
    <2> SUFFICES ASSUME NEW c \in expired, c \in SpentRows(coins) PROVE FALSE
        OBVIOUS
    <2>1. PICK p \in SpendingPairs : c = p[1]
        BY DEF ExpiredSpends
    <2>2. QED BY <1>1, <2>1, PairsOf
<1> HIDE DEF spent, expired
<1>5. SpendsInv'
    <2>1. GoodSpends'
        BY <1>1 DEF SpendsInv, GoodSpends, GoodSpend, SpentAt
    <2>2. \A s \in updated'.spent : SpentAt(s.coin, s.tx, s.height)'
        BY <1>1, <1>2, <1>3 DEF SpentAt
    <2>3. DOMAIN updated.spending \cap SpentRows(coins) = {}
        BY <1>1 DEF SpendsInv, BeforeSpend
    <2>4. \A c \in DOMAIN updated.spending : c \in Ins[updated.spending[c]]
        BY DEF SpendsInv
    <2>5. QED BY <1>1, <1>2, <1>4, <2>1, <2>2, <2>3, <2>4 DEF SpendsInv, SpentRows
<1>6. QED BY <1>1, <1>2, <1>5 DEF spent

\* Writing the rows.
LEMMA WriteSpends ==
    ASSUME TablesInv, SpendsInv,
           \/ InsertReceived \/ RemoveExpired \/ ConfirmCoins \/ UnspendExpired
           \/ SpendCoins \/ ConfirmSpend \/ UpdateFromSelf
    PROVE  SpendsInv'
<1>1. Grows /\ UNCHANGED updated
    BY DEF InsertReceived, RemoveExpired, ConfirmCoins, UnspendExpired, SpendCoins,
           ConfirmSpend, UpdateFromSelf, Write, chainVars, Grows
<1>2. \A c \in DOMAIN coins : GoodSpend(c, coins[c])
    BY DEF SpendsInv, GoodSpends
<1>3. ASSUME pc' = "Panicked", coins' = coins PROVE SpendsInv'
    BY <1>1, <1>3, SpendsStay DEF BeforeSpend, BeforeUnspend
<1>4. CASE RemoveExpired \/ ConfirmCoins \/ UpdateFromSelf
    <2>1. /\ DOMAIN coins' \subseteq DOMAIN coins
          /\ \A c \in DOMAIN coins' : /\ coins'[c].spendTx = coins[c].spendTx
                                      /\ coins'[c].spendHeight = coins[c].spendHeight
        BY <1>4, SameSpends
    <2>2. \/ pc = "Remove" /\ pc' = "Confirm"
          \/ pc = "Confirm" /\ pc' = "Unspend"
          \/ pc = "FromSelf" /\ pc' = "SetTip"
        BY <1>4 DEF RemoveExpired, ConfirmCoins, UpdateFromSelf, Write, GoTo
    <2>3. /\ \A c \in DOMAIN coins' : GoodSpend(c, coins'[c])
          /\ SpentRows(coins') \subseteq SpentRows(coins)
        BY <1>2, <2>1 DEF GoodSpend, SpentRows
    <2>4. QED BY <1>1, <2>2, <2>3, SpendsKept DEF BeforeSpend, BeforeUnspend
<1>5. CASE InsertReceived
    <2>1. pc = "Insert"
        BY <1>5 DEF InsertReceived
    <2>2. ASSUME pc' = "Remove",
                 DOMAIN coins' = DOMAIN coins \cup DOMAIN updated.received,
                 \A c \in DOMAIN coins : coins'[c] = coins[c],
                 \A c \in DOMAIN updated.received : /\ coins'[c].spendTx = NoTx
                                                    /\ coins'[c].spendHeight = NoHeight
          PROVE  SpendsInv'
        <3>1. /\ \A c \in DOMAIN coins' : GoodSpend(c, coins'[c])
              /\ SpentRows(coins') \subseteq SpentRows(coins)
            BY <1>2, <2>2 DEF GoodSpend, SpentRows
        <3>2. QED BY <1>1, <2>1, <2>2, <3>1, SpendsKept DEF BeforeSpend, BeforeUnspend
    <2>3. QED BY <1>3, <1>5, <2>2, InsertedRows
<1>6. CASE UnspendExpired
    <2>1. /\ pc' = "Spend" /\ DOMAIN coins' = DOMAIN coins
          /\ \A c \in DOMAIN coins \ updated.expiredSpending : coins'[c] = coins[c]
          /\ \A c \in DOMAIN coins \cap updated.expiredSpending :
                coins'[c].spendTx = NoTx /\ coins'[c].spendHeight = NoHeight
        BY <1>6, UnspentRows
    <2>2. /\ \A c \in DOMAIN coins' : GoodSpend(c, coins'[c])
          /\ SpentRows(coins') \subseteq SpentRows(coins)
        BY <1>2, <2>1 DEF GoodSpend, SpentRows
    <2>3. pc = "Unspend"
        BY <1>6 DEF UnspendExpired
    <2>4. QED BY <1>1, <2>1, <2>2, <2>3, SpendsKept DEF BeforeSpend, BeforeUnspend
<1>7. CASE SpendCoins
    <2>1. pc = "Spend"
        BY <1>7 DEF SpendCoins
    <2>2. ASSUME pc' = "ConfirmSpend", DOMAIN coins' = DOMAIN coins,
                 \A c \in DOMAIN coins : coins'[c].spendHeight = coins[c].spendHeight,
                 \A c \in DOMAIN coins \ DOMAIN updated.spending : coins'[c] = coins[c],
                 \A c \in DOMAIN coins \cap DOMAIN updated.spending :
                    coins'[c].spendTx = updated.spending[c]
          PROVE  SpendsInv'
        <3>1. \A c \in DOMAIN coins \cap DOMAIN updated.spending :
                  c \in Ins[updated.spending[c]] /\ coins[c].spendHeight = NoHeight
            BY <2>1 DEF SpendsInv, BeforeSpend, SpentRows
        <3>2. \A c \in DOMAIN coins' : GoodSpend(c, coins'[c])
            BY <1>2, <2>2, <3>1 DEF GoodSpend
        <3>3. QED BY <1>1, <2>2, <3>2, SpendsKept DEF BeforeSpend, BeforeUnspend
    <2>3. QED BY <1>3, <1>7, <2>2, SpendingRows
<1>8. CASE ConfirmSpend
    <2>1. ASSUME pc' = "FromSelf", DOMAIN coins' = DOMAIN coins,
                 \A c \in DOMAIN coins :
                    \/ \E s \in updated.spent : /\ s.coin = c /\ coins'[c].spendTx = s.tx
                                                /\ coins'[c].spendHeight = s.height
                    \/ (\A s \in updated.spent : s.coin # c) /\ coins'[c] = coins[c]
          PROVE  SpendsInv'
        <3>1. \A s \in updated.spent : SpentAt(s.coin, s.tx, s.height)
            BY DEF SpendsInv
        <3>2. \A c \in DOMAIN coins' : GoodSpend(c, coins'[c])
            <4> TAKE c \in DOMAIN coins'
            <4>1. CASE \E s \in updated.spent : /\ s.coin = c /\ coins'[c].spendTx = s.tx
                                                /\ coins'[c].spendHeight = s.height
                <5>1. SpentAt(c, coins'[c].spendTx, coins'[c].spendHeight)
                    BY <3>1, <4>1
                <5>2. QED BY <5>1 DEF GoodSpend, SpentAt
            <4>2. CASE coins'[c] = coins[c]
                BY <1>2, <2>1, <4>2
            <4>3. QED BY <2>1, <4>1, <4>2
        <3>3. QED BY <1>1, <2>1, <3>2, SpendsKept DEF BeforeSpend, BeforeUnspend
    <2>2. QED BY <1>3, <1>8, <2>1, ConfirmedSpends
<1>9. QED BY <1>4, <1>5, <1>6, <1>7, <1>8

\* Every step keeps the spends those of blocks.
LEMMA SpendsNext ==
    ASSUME TypedInv, SpendsInv, [RescanNext]_allVars
    PROVE  SpendsInv'
<1>1. TablesInv /\ ChainInv
    BY DEF TypedInv, TablesInv
<1>2. ASSUME UNCHANGED chainVars PROVE Grows
    BY <1>1, <1>2, NodeStays
<1>3. CASE StartPoll \/ AddTxs
    <2>1. UNCHANGED <<chainVars, coins, updated>>
        BY <1>3 DEF StartPoll, AddTxs, Read, dbVars
    <2>2. \/ pc' \notin BeforeSpend
          \/ pc = "AddTxs" /\ pc' = "Insert"
        BY <1>3 DEF StartPoll, AddTxs, Read, GoTo, BeforeSpend, BeforeUnspend
    <2>3. QED BY <1>2, <2>1, <2>2, SpendsStay DEF BeforeSpend, BeforeUnspend
<1>4. CASE Rollback \/ RescanRollback
    <2>1. RollbackTip(tip) /\ pc' \notin BeforeSpend
        BY <1>4 DEF Rollback, RescanRollback, Step, GoTo, BeforeSpend, BeforeUnspend
    <2>2. QED BY <1>1, <2>1, RollbackSpends
<1>5. CASE SetTip \/ Restart
    <2>1. /\ UNCHANGED <<chainVars, coins>> /\ updated' = NothingUpdated
          /\ pc' \notin BeforeSpend
        BY <1>5 DEF SetTip, Restart, GoTo, dbVars, BeforeSpend, BeforeUnspend
    <2>2. QED BY <1>2, <2>1, SpendsReset
<1>6. CASE ReadTimestamp \/ ReadProgress \/ FindBlockBefore \/ CompleteRescan
    <2>1. /\ UNCHANGED <<chainVars, coins, updated>>
          /\ pc' \notin BeforeSpend
        BY <1>6 DEF ReadTimestamp, ReadProgress, FindBlockBefore, CompleteRescan, Step, StayOn,
                    GoTo, dbVars, BeforeSpend, BeforeUnspend
    <2>2. QED BY <1>2, <2>1, SpendsStay DEF BeforeSpend
<1>7. CASE Node \/ FinishScan \/ AbortScan
    <2>1. UNCHANGED <<coins, updated, pc>>
        BY <1>7 DEF Node, FinishScan, AbortScan, Backend, pollerVars, dbVars
    <2>2. Grows
        <3>1. CASE Node
            BY <1>1, <3>1, NodeKeeps DEF Node
        <3>2. CASE FinishScan \/ AbortScan
            BY <3>2 DEF FinishScan, AbortScan, Backend, Grows
        <3>3. QED BY <1>7, <3>1, <3>2
    <2>3. QED BY <2>1, <2>2, SpendsStay
<1>8. CASE UNCHANGED vars
    <2>1. UNCHANGED <<chainVars, coins, updated, pc>>
        BY <1>8 DEF vars, pollerVars, dbVars
    <2>2. QED BY <1>2, <2>1, SpendsStay
<1>9. ASSUME NEW r \in Client, StartRescan(r) PROVE UNCHANGED vars
    BY <1>9, CommandSteps DEF TypedInv
<1>10. CASE PollStep
    BY <1>1, <1>3, <1>4, <1>5, <1>10, EarlySpends, SpendingSpends, SpentSpends, WriteSpends
       DEF PollStep, Queries, Writes
<1>11. CASE RescanCheck
    BY <1>4, <1>6, <1>11 DEF RescanCheck
<1>12. CASE UNCHANGED allVars
    BY <1>8, <1>12 DEF allVars
<1>13. QED BY <1>5, <1>7, <1>8, <1>9, <1>10, <1>11, <1>12 DEF RescanNext

\* The chain grows on the last block until a block of another branch arrives, and the
\* reorganizations are counted.
LEMMA LinearNext ==
    ASSUME TypedInv, reorgs = 0 => LinearInv, [RescanNext]_allVars
    PROVE  (reorgs' = 0 => reorgs = 0) /\ (reorgs' = 0 => LinearInv')
<1>1. ChainInv /\ reorgs \in Nat
    BY WalletAssumption DEF TypedInv, TablesInv, ChainInv, ChainTypeOK
<1>2. CASE Node
    <2>1. reorgs' \in {reorgs, reorgs + 1}
        BY <1>2 DEF Node, ChainNext, Mine, Accept, Evict
    <2>2. reorgs' = 0 => reorgs = 0
        BY <1>1, <2>1
    <2>3. QED BY <1>1, <1>2, <2>2, NodeLinear DEF Node
<1>3. CASE UNCHANGED <<blocks, best, reorgs>>
    BY <1>3 DEF LinearInv
<1>4. CASE PollStep
    <2>1. UNCHANGED chainVars
        BY <1>4 DEF PollStep, StartPoll, Queries, Writes, FetchTip, CheckInChain, FindAncestor,
               ReadReceived, ReadConfirmed, ReadSpending, ReadSpent, CheckTip, Rollback, AddTxs,
               InsertReceived, RemoveExpired, ConfirmCoins, UnspendExpired, SpendCoins,
               ConfirmSpend, UpdateFromSelf, SetTip, Read, Write, RollbackTip
    <2>2. QED BY <1>3, <2>1 DEF chainVars
<1>5. CASE RescanCheck \/ Restart \/ FinishScan \/ AbortScan \/ UNCHANGED allVars
    <2>1. UNCHANGED <<blocks, best, reorgs>>
        BY <1>5 DEF RescanCheck, ReadTimestamp, ReadProgress, FindBlockBefore, RescanRollback,
               CompleteRescan, RollbackTip, StayOn, Restart, FinishScan, AbortScan, Backend,
               allVars, vars, chainVars
    <2>2. QED BY <1>3, <2>1
<1>6. CASE \E r \in Client : StartRescan(r)
    <2>1. UNCHANGED vars
        BY <1>6, CommandSteps DEF TypedInv
    <2>2. QED BY <1>3, <2>1 DEF vars, chainVars
<1>7. QED BY <1>2, <1>4, <1>5, <1>6 DEF RescanNext

\* Initially the chain is the history.
LEMMA LinearInit == RescanInit => LinearInv
BY PromiseInit DEF PromiseInv

\* Where the chain has grown only, a block of any height is the block of that height.
LEMMA SpentHeight ==
    ASSUME ChainInv, LinearInv, NEW b \in DOMAIN blocks, NEW c, NEW t, NEW h,
           SpentAt(c, t, h), h <= b
    PROVE  t \in TxsOn(b) /\ HeightOn(t, b) = h /\ c \in Ins[t]
<1>1. PICK a \in DOMAIN blocks : blocks[a].height = h /\ t \in blocks[a].txs
    BY DEF SpentAt
<1>2. a = h /\ a \in 0 .. b
    BY <1>1, LinearChain DEF Height, LinearInv
<1>3. QED BY <1>1, <1>2, LinearHeight DEF SpentAt

\* "But not more": until the chain is reorganized, whatever rescans are asked for,
\* finished or aborted, and whenever the process dies, a coin or a spend that is
\* recorded at a height up to the tip is in the tip's chain at that height.
THEOREM RescanNotMore == RescanSpec => [](reorgs = 0 => NotMore)
<1> DEFINE Inv == TypedInv /\ SpendsInv /\ (reorgs = 0 => LinearInv)
<1>1. RescanInit => Inv
    BY RescanInitTypes, SpendsInit, LinearInit DEF TypedInv
<1>2. Inv /\ [RescanNext]_allVars => Inv'
    <2> SUFFICES ASSUME Inv, [RescanNext]_allVars PROVE Inv'
        OBVIOUS
    <2>1. TypedInv'
        BY RescanKeepsTypes DEF TypedInv
    <2>2. SpendsInv'
        BY SpendsNext
    <2>3. reorgs' = 0 => LinearInv'
        BY LinearNext
    <2>4. QED BY <2>1, <2>2, <2>3
<1>3. Inv => (reorgs = 0 => NotMore)
    <2> SUFFICES ASSUME TypedInv, SpendsInv, LinearInv, NEW c \in DOMAIN coins
                 PROVE  /\ coins[c].height \in 0 .. Height(dbTip) =>
                              HeightOn(TxOf[c], dbTip) = coins[c].height
                        /\ coins[c].spendHeight \in 0 .. Height(dbTip) =>
                              /\ c \in Ins[coins[c].spendTx]
                              /\ HeightOn(coins[c].spendTx, dbTip) = coins[c].spendHeight
        BY DEF NotMore
    <2>1. ChainInv /\ dbTip \in DOMAIN blocks /\ Height(dbTip) = dbTip
        BY LinearChain DEF TypedInv, TablesInv
    <2>2. ASSUME coins[c].height \in 0 .. Height(dbTip)
          PROVE  HeightOn(TxOf[c], dbTip) = coins[c].height
        <3>1. coins[c].height # NoHeight
            BY <2>1, <2>2 DEF NoHeight
        <3>2. PICK a \in DOMAIN blocks :
                  blocks[a].height = coins[c].height /\ TxOf[c] \in blocks[a].txs
            BY <3>1 DEF TypedInv, TablesInv, CoinsInv, GoodRow, MinedAt
        <3>3. a = coins[c].height /\ a \in 0 .. dbTip
            BY <2>1, <2>2, <3>2 DEF LinearInv
        <3>4. QED BY <2>1, <3>2, <3>3, LinearHeight
    <2>3. ASSUME coins[c].spendHeight \in 0 .. Height(dbTip)
          PROVE  /\ c \in Ins[coins[c].spendTx]
                 /\ HeightOn(coins[c].spendTx, dbTip) = coins[c].spendHeight
        <3>1. coins[c].spendHeight # NoHeight /\ coins[c].spendHeight <= dbTip
            BY <2>1, <2>3 DEF NoHeight
        <3>2. SpentAt(c, coins[c].spendTx, coins[c].spendHeight)
            BY <3>1 DEF SpendsInv, GoodSpends, GoodSpend
        <3>3. QED BY <2>1, <3>1, <3>2, SpentHeight
    <2>4. QED BY <2>2, <2>3
<1>4. QED BY <1>1, <1>2, <1>3, PTL DEF RescanSpec

-----------------------------------------------------------------------------
(* The spends that a wallet has seen, until the first reorganization. *)

\* What the chain holds is valid.
ValidInv ==
    \A b \in DOMAIN blocks : \A t \in blocks[b].txs :
        /\ \A a \in DOMAIN blocks : \A u \in blocks[a].txs : ~Conflicts(t, u)
        /\ \A p \in Parents(t) : \E a \in DOMAIN blocks : a <= b /\ p \in blocks[a].txs

\* Once the node has told the wallet of something in a block, it tells it of all that
\* comes after: scans run up to the tip, unless they are aborted.
KnownOnwards ==
    \A a, b \in DOMAIN blocks :
        a <= b /\ blocks[a].txs \cap known # {} => blocks[b].txs \subseteq known

\* The coins that the wallet has or is about to have, which the node has told it of.
Tracked == DOMAIN coins \cup DOMAIN updated.received

KnowsInv ==
    aborts = 0 => KnownOnwards /\ \A c \in Tracked : TxOf[c] \in known

\* The coins that are spent up to a height.
SpendDue(bs, h) ==
    {c \in Coin : \E b \in DOMAIN bs : b <= h /\ \E t \in bs[b].txs : c \in Ins[t]}

FoundSpent == {s.coin : s \in updated.spent}

BeforeConfirmSpend == {"Remove", "Confirm", "Unspend", "Spend", "ConfirmSpend"}

\* The spends up to the recorded tip are recorded, and those up to the poll's are first
\* found, then found confirmed, then recorded.
ShownInv ==
    aborts = 0 =>
        /\ SpendDue(blocks, dbTip) \cap DOMAIN coins \subseteq SpentRows(coins)
        /\ pc \in BeforeInsert => SpendDue(blocks, dbTip) \cap DOMAIN updated.received = {}
        /\ pc = "Spending" => SpendDue(blocks, tip) \cap updated.expired = {}
        /\ pc = "Spent" =>
              SpendDue(blocks, tip) \cap Tracked
                  \subseteq SpentRows(coins) \cup DOMAIN updated.spending
        /\ pc \in {"Check", "AddTxs", "Insert"} =>
              SpendDue(blocks, tip) \cap Tracked \subseteq SpentRows(coins) \cup FoundSpent
        /\ pc \in BeforeConfirmSpend =>
              SpendDue(blocks, tip) \cap DOMAIN coins \subseteq SpentRows(coins) \cup FoundSpent
        /\ pc \in {"FromSelf", "SetTip"} =>
              SpendDue(blocks, tip) \cap DOMAIN coins \subseteq SpentRows(coins)

\* The history is valid.
LEMMA ValidInit == RescanInit => ValidInv
<1> SUFFICES ASSUME RescanInit PROVE ValidInv
    OBVIOUS
<1>1. Len(History) \in Nat /\ DOMAIN History = 1 .. Len(History)
    BY RescanAssumption
<1>2. /\ DOMAIN blocks = 0 .. Len(History)
      /\ \A b \in 0 .. Len(History) : blocks[b].txs = IF b = 0 THEN {} ELSE History[b]
    BY DEF RescanInit
<1>3. \A b \in DOMAIN blocks : \A t \in blocks[b].txs : b \in DOMAIN History /\ t \in History[b]
    BY <1>1, <1>2
<1>4. ASSUME NEW b \in DOMAIN blocks, NEW t \in blocks[b].txs,
             NEW a \in DOMAIN blocks, NEW u \in blocks[a].txs
      PROVE  ~Conflicts(t, u)
    BY <1>3, HistoryAssumption
<1>5. ASSUME NEW b \in DOMAIN blocks, NEW t \in blocks[b].txs, NEW p \in Parents(t)
      PROVE  \E a \in DOMAIN blocks : a <= b /\ p \in blocks[a].txs
    <2>1. PICK a \in 1 .. b : p \in History[a]
        BY <1>3, HistoryAssumption
    <2>2. a \in DOMAIN blocks /\ a <= b /\ blocks[a].txs = History[a]
        BY <1>1, <1>2
    <2>3. QED BY <2>1, <2>2
<1>6. QED BY <1>4, <1>5 DEF ValidInv

\* A block is mined of what is valid on the last one.
LEMMA NodeValid ==
    ASSUME ChainInv, LinearInv, ValidInv, ChainNext, reorgs' = 0
    PROVE  ValidInv'
<1>1. CASE \E t \in Tx : Accept(t) \/ Evict(t)
    BY <1>1 DEF Accept, Evict, ValidInv
<1>2. CASE \E parent \in DOMAIN blocks, txs \in SUBSET Tx : Mine(parent, txs)
    <2>1. PICK parent \in DOMAIN blocks, txs \in SUBSET Tx : Mine(parent, txs)
        BY <1>2
    <2> DEFINE n == best + 1
    <2>2. /\ best \in Nat /\ DOMAIN blocks' = 0 .. n /\ DOMAIN blocks = 0 .. best
          /\ blocks'[n].txs = txs
          /\ \A b \in 0 .. best : blocks'[b] = blocks[b]
          /\ ValidOn(txs, best)
          /\ TxsOn(best) = UNION {blocks[b].txs : b \in 0 .. best}
        <3>1. DOMAIN blocks = 0 .. best
            BY DEF LinearInv
        <3>2. blocks'[n] = [height |-> n, anc |-> 0 .. n, txs |-> txs]
            BY <2>1, MinedNext
        <3>3. QED BY <2>1, <3>1, <3>2, MinedNext
    <2>3. \A b \in 0 .. n : b = n \/ b \in 0 .. best
        BY <2>2
    <2>4. \A t \in txs, u \in txs \cup TxsOn(best) : ~Conflicts(t, u) /\ ~Conflicts(u, t)
        BY <2>2 DEF ValidOn, Conflicts
    <2>5. \A t \in txs : Parents(t) \subseteq txs \cup TxsOn(best)
        BY <2>2 DEF ValidOn
    <2>6. \A b \in 0 .. best : blocks[b].txs \subseteq TxsOn(best)
        BY <2>2
    <2> HIDE DEF n
    <2>7. ASSUME NEW b \in DOMAIN blocks', NEW t \in blocks'[b].txs,
                 NEW a \in DOMAIN blocks', NEW u \in blocks'[a].txs
          PROVE  ~Conflicts(t, u)
        <3>1. CASE b = n \/ a = n
            BY <2>2, <2>3, <2>4, <2>6, <3>1
        <3>2. CASE b # n /\ a # n
            BY <2>2, <2>3, <3>2 DEF ValidInv
        <3>3. QED BY <3>1, <3>2
    <2>8. ASSUME NEW b \in DOMAIN blocks', NEW t \in blocks'[b].txs, NEW p \in Parents(t)
          PROVE  \E a \in DOMAIN blocks' : a <= b /\ p \in blocks'[a].txs
        <3>1. CASE b = n
            <4>1. p \in txs \/ \E a \in 0 .. best : p \in blocks[a].txs
                BY <2>2, <2>5, <3>1
            <4>2. n \in DOMAIN blocks' /\ n <= n /\ \A a \in 0 .. best : a \in 0 .. n /\ a <= n
                BY <2>2 DEF n
            <4>3. QED BY <2>2, <3>1, <4>1, <4>2
        <3>2. CASE b # n
            <4>1. b \in DOMAIN blocks /\ t \in blocks[b].txs
                BY <2>2, <2>3, <3>2
            <4>2. PICK a \in DOMAIN blocks : a <= b /\ p \in blocks[a].txs
                BY <4>1 DEF ValidInv
            <4>3. a \in 0 .. n
                BY <2>2 DEF n
            <4>4. QED BY <2>2, <4>2, <4>3
        <3>3. QED BY <3>1, <3>2
    <2>9. QED BY <2>7, <2>8 DEF ValidInv
<1>3. QED BY <1>1, <1>2 DEF ChainNext

\* The wallet is told of a block that arrives; what else it is told of is in no block.
LEMMA NodeKnows ==
    ASSUME ChainInv, LinearInv, KnownOnwards, ChainNext, reorgs' = 0
    PROVE  KnownOnwards' /\ known \subseteq known'
<1>1. /\ best \in DOMAIN blocks /\ best \in Nat /\ DOMAIN blocks = 0 .. best
      /\ Chain(best) = 0 .. best
    BY LinearChain DEF ChainInv, ChainTypeOK, LinearInv
<1>2. \A b \in DOMAIN blocks : blocks[b].txs \subseteq TxsOn(best)
    BY <1>1 DEF TxsOn
<1>3. ASSUME NEW t \in Tx, Accept(t) PROVE KnownOnwards' /\ known \subseteq known'
    <2>1. UNCHANGED blocks /\ known' = known \cup {t} /\ t \notin TxsOn(best)
        BY <1>3 DEF Accept, ValidOn
    <2>2. \A a \in DOMAIN blocks : blocks[a].txs \cap known' = blocks[a].txs \cap known
        BY <1>2, <2>1
    <2>3. QED BY <2>1, <2>2 DEF KnownOnwards
<1>4. ASSUME NEW t \in Tx, Evict(t) PROVE KnownOnwards' /\ known \subseteq known'
    BY <1>4 DEF Evict, KnownOnwards
<1>5. ASSUME NEW parent \in DOMAIN blocks, NEW txs \in SUBSET Tx, Mine(parent, txs)
      PROVE  KnownOnwards' /\ known \subseteq known'
    <2> DEFINE n == best + 1
    <2>1. /\ best' = n /\ DOMAIN blocks' = 0 .. n
          /\ blocks'[n].txs = txs /\ blocks'[n].anc = 0 .. n
          /\ \A b \in 0 .. best : blocks'[b] = blocks[b]
          /\ known' = known \cup txs \cup mempool'
          /\ txs \cap TxsOn(best) = {}
        <3>1. blocks'[n] = [height |-> n, anc |-> 0 .. n, txs |-> txs]
            BY <1>5, MinedNext
        <3>2. ValidOn(txs, best)
            BY <1>5, MinedNext
        <3>3. txs \cap TxsOn(best) = {}
            BY <3>2 DEF ValidOn
        <3>4. QED BY <1>5, <3>1, <3>3, MinedNext
    <2> HIDE DEF n
    <2>2. \A a \in DOMAIN blocks' : mempool' \cap blocks'[a].txs = {}
        <3>1. TxsOn(best)' = UNION {blocks'[a].txs : a \in DOMAIN blocks'}
            BY <2>1 DEF TxsOn, Chain
        <3>2. mempool' \cap TxsOn(best)' = {}
            <4>1. PICK candidates : mempool' = Settled(candidates, best)'
                BY <1>5 DEF Mine
            <4>2. \A t \in mempool' : t \notin TxsOn(best)'
                BY <4>1 DEF Settled, ValidOn
            <4>3. QED BY <4>2
        <3>3. QED BY <3>1, <3>2
    <2>3. \A b \in 0 .. n : b = n \/ b \in 0 .. best
        BY <1>1 DEF n
    <2>4. \A a \in 0 .. best : blocks'[a].txs \cap known' = blocks[a].txs \cap known
        <3>1. \A a \in 0 .. best : a \in DOMAIN blocks'
            BY <1>1, <2>1 DEF n
        <3>2. QED BY <1>1, <1>2, <2>1, <2>2, <3>1
    <2>5. ASSUME NEW a \in DOMAIN blocks', NEW b \in DOMAIN blocks', a <= b,
                 blocks'[a].txs \cap known' # {}
          PROVE  blocks'[b].txs \subseteq known'
        <3>1. CASE b = n
            BY <2>1, <3>1
        <3>2. CASE b # n
            <4>1. a \in 0 .. best /\ b \in 0 .. best
                BY <1>1, <2>1, <2>3, <2>5, <3>2 DEF n
            <4>2. QED BY <1>1, <2>1, <2>4, <2>5, <4>1 DEF KnownOnwards
        <3>3. QED BY <3>1, <3>2
    <2>6. QED BY <2>1, <2>5 DEF KnownOnwards
<1>6. QED BY <1>3, <1>4, <1>5 DEF ChainNext

\* What is spent up to a block is spent up to a later one.
LEMMA SpendDueUpTo ==
    ASSUME LinearInv, best \in Nat, NEW h \in Nat, NEW k \in Nat, h <= k
    PROVE  SpendDue(blocks, h) \subseteq SpendDue(blocks, k)
BY DEF SpendDue, LinearInv

\* What is spent up to a block does not depend on those that arrive later.
LEMMA SpendDueStays ==
    ASSUME LinearInv, LinearInv', Grows, best \in Nat, best' \in Nat, NEW h \in DOMAIN blocks
    PROVE  SpendDue(blocks', h) = SpendDue(blocks, h)
BY DEF SpendDue, LinearInv, Grows

\* A coin that is spent has been received, no later.
LEMMA SpendOf ==
    ASSUME ValidInv, NEW h, NEW c \in SpendDue(blocks, h)
    PROVE  \E a, b \in DOMAIN blocks :
              /\ a <= b /\ b <= h
              /\ TxOf[c] \in blocks[a].txs
              /\ \E t \in blocks[b].txs : c \in Ins[t]
<1>1. PICK b \in DOMAIN blocks : b <= h /\ \E t \in blocks[b].txs : c \in Ins[t]
    BY DEF SpendDue
<1>2. PICK t \in blocks[b].txs : c \in Ins[t]
    BY <1>1
<1>3. TxOf[c] \in Parents(t)
    BY <1>2 DEF Parents, SpendDue
<1>4. QED BY <1>1, <1>2, <1>3 DEF ValidInv

\* A spend that is recorded as confirmed is the one that the chain has.
LEMMA SpendRecorded ==
    ASSUME LinearInv, ValidInv, SpendsInv,
           NEW b \in DOMAIN blocks, NEW t \in blocks[b].txs,
           NEW c \in SpentRows(coins), c \in Ins[t]
    PROVE  coins[c].spendTx = t /\ coins[c].spendHeight = b
<1>1. SpentAt(c, coins[c].spendTx, coins[c].spendHeight)
    BY DEF SpentRows, SpendsInv, GoodSpends, GoodSpend
<1>2. PICK a \in DOMAIN blocks :
          blocks[a].height = coins[c].spendHeight /\ coins[c].spendTx \in blocks[a].txs
    BY <1>1 DEF SpentAt
<1>3. coins[c].spendTx = t
    <2>1. ~Conflicts(coins[c].spendTx, t)
        BY <1>2 DEF ValidInv
    <2>2. c \in Ins[coins[c].spendTx]
        BY <1>1 DEF SpentAt
    <2>3. QED BY <2>1, <2>2 DEF Conflicts
<1>4. a = b
    BY <1>2, <1>3 DEF LinearInv
<1>5. QED BY <1>2, <1>3, <1>4 DEF LinearInv

\* A coin that the wallet knows of and the chain has spent is found spent, and whatever
\* is taken for its spender, that of the chain is found from it.
LEMMA SpenderFound ==
    ASSUME TypedInv, PromiseInv, ValidInv, KnownOnwards, NEW h,
           NEW c \in SpendDue(blocks, h), TxOf[c] \in known
    PROVE  /\ IsSpent(c) /\ Spenders(c) # {}
           /\ \A u : c \in Ins[u] => ConfirmedSpenders(c, u) # {}
<1>1. /\ ChainInv /\ LinearInv /\ best \in DOMAIN blocks
      /\ best \in Nat /\ DOMAIN blocks = 0 .. best
    BY LinearChain DEF TypedInv, TablesInv, PromiseInv, ChainInv, ChainTypeOK, LinearInv
<1>2. PICK a, b \in DOMAIN blocks : /\ a <= b /\ TxOf[c] \in blocks[a].txs
                                    /\ \E t \in blocks[b].txs : c \in Ins[t]
    BY SpendOf
<1>3. PICK t \in blocks[b].txs : c \in Ins[t]
    BY <1>2
<1>4. TxOf[c] \in TxsOn(best) /\ HeightOn(TxOf[c], best) = a
    BY <1>1, <1>2, LinearHeight
<1>5. t \in TxsOn(best) /\ HeightOn(t, best) = b
    BY <1>1, <1>3, LinearHeight
<1>6. t \in known
    BY <1>2, <1>3 DEF KnownOnwards
<1>7. IsSpent(c)
    BY <1>3, <1>5 DEF IsSpent
<1>8. Spenders(c) # {}
    <2>1. a # 0 /\ a \in Nat
        BY <1>1, <1>2 DEF LinearInv
    <2>2. a - 1 >= 0 /\ b > a - 1
        BY <1>1, <1>2, <2>1
    <2>3. t \in ListedSince(a - 1)
        BY <1>5, <1>6, <2>2 DEF ListedSince
    <2>4. t # TxOf[c]
        BY <1>3, WalletAssumption DEF SpendDue
    <2>5. t \in Spenders(c)
        BY <1>3, <1>4, <1>5, <2>2, <2>3, <2>4 DEF Spenders
    <2>6. QED BY <2>5
<1>9. ASSUME NEW u, c \in Ins[u] PROVE ConfirmedSpenders(c, u) # {}
    <2>1. CASE u \in TxsOn(best)
        BY <2>1 DEF ConfirmedSpenders
    <2>2. CASE u \notin TxsOn(best)
        <3>1. Conflicts(u, t)
            BY <1>3, <1>5, <1>9, <2>2 DEF Conflicts
        <3>2. t \in ConfirmedSpenders(c, u)
            BY <1>3, <1>5, <1>6, <2>2, <3>1 DEF ConfirmedSpenders
        <3>3. QED BY <3>2
    <2>3. QED BY <2>1, <2>2
<1>10. QED BY <1>7, <1>8, <1>9

SightInv == SpendsInv /\ ValidInv /\ KnowsInv /\ ShownInv

\* A step that leaves the node, and tracks no coin that the wallet does not know of.
LEMMA KnowsKept ==
    ASSUME KnowsInv, UNCHANGED <<blocks, known>>, aborts' = 0 => aborts = 0,
           \A c \in Tracked' : c \in Tracked \/ TxOf[c] \in known
    PROVE  KnowsInv'
BY DEF KnowsInv, KnownOnwards

\* A step that leaves the tables, outside of a poll or at its start.
LEMMA SightKept ==
    ASSUME SightInv, UNCHANGED <<blocks, known, dbTip, coins>>, aborts' = 0 => aborts = 0,
           DOMAIN updated'.received \subseteq DOMAIN updated.received,
           \/ pc' \notin BeforeInsert \cup BeforeConfirmSpend \cup {"FromSelf", "SetTip"}
           \/ UNCHANGED <<pc, tip, updated>>
           \/ pc \in {"Check", "AddTxs"} /\ pc' \in {"AddTxs", "Insert"} /\ UNCHANGED <<tip, updated>>
    PROVE  KnowsInv' /\ ShownInv'
<1>1. Tracked' \subseteq Tracked
    BY DEF Tracked
<1>2. KnowsInv'
    BY <1>1, KnowsKept DEF SightInv
<1>3. SpentRows(coins') = SpentRows(coins)
    BY DEF SpentRows
<1>4. CASE pc' \notin BeforeInsert \cup BeforeConfirmSpend \cup {"FromSelf", "SetTip"}
    BY <1>2, <1>3, <1>4 DEF SightInv, ShownInv, BeforeInsert
<1>5. CASE UNCHANGED <<pc, tip, updated>>
    BY <1>2, <1>5 DEF SightInv, ShownInv, Tracked, FoundSpent, SpentRows
<1>6. CASE pc \in {"Check", "AddTxs"} /\ pc' \in {"AddTxs", "Insert"} /\ UNCHANGED <<tip, updated>>
    BY <1>2, <1>6 DEF SightInv, ShownInv, Tracked, FoundSpent, SpentRows, BeforeInsert, BeforeConfirmSpend
<1>7. QED BY <1>2, <1>4, <1>5, <1>6

\* A write after the coins are inserted that forgets no confirmed spend.
LEMMA RowsShown ==
    ASSUME SightInv, UNCHANGED <<blocks, known, dbTip, tip, updated>>,
           aborts' = 0 => aborts = 0,
           DOMAIN coins' \subseteq DOMAIN coins,
           SpentRows(coins) \cap DOMAIN coins' \subseteq SpentRows(coins'),
           \/ pc' = "Panicked"
           \/ pc \in BeforeConfirmSpend /\ pc' \in BeforeConfirmSpend
           \/ /\ pc = "ConfirmSpend" /\ pc' = "FromSelf"
              /\ FoundSpent \cap DOMAIN coins' \subseteq SpentRows(coins')
           \/ pc = "FromSelf" /\ pc' = "SetTip"
    PROVE  KnowsInv' /\ ShownInv'
<1>1. Tracked' \subseteq Tracked
    BY DEF Tracked
<1>2. KnowsInv'
    BY <1>1, KnowsKept DEF SightInv
<1>3. aborts' = 0 => SpendDue(blocks, dbTip) \cap DOMAIN coins' \subseteq SpentRows(coins')
    BY DEF SightInv, ShownInv
<1>4. FoundSpent' = FoundSpent
    BY DEF FoundSpent
<1>5. CASE pc' = "Panicked"
    BY <1>2, <1>3, <1>5 DEF ShownInv, BeforeInsert, BeforeConfirmSpend
<1>6. CASE pc \in BeforeConfirmSpend /\ pc' \in BeforeConfirmSpend
    <2>1. aborts' = 0 => SpendDue(blocks, tip) \cap DOMAIN coins'
                            \subseteq SpentRows(coins') \cup FoundSpent
        BY <1>6 DEF SightInv, ShownInv
    <2>2. QED BY <1>2, <1>3, <1>4, <1>6, <2>1 DEF ShownInv, BeforeInsert, BeforeConfirmSpend
<1>7. CASE /\ pc = "ConfirmSpend" /\ pc' = "FromSelf"
           /\ FoundSpent \cap DOMAIN coins' \subseteq SpentRows(coins')
    <2>1. aborts' = 0 => SpendDue(blocks, tip) \cap DOMAIN coins' \subseteq SpentRows(coins')
        BY <1>7 DEF SightInv, ShownInv, BeforeConfirmSpend
    <2>2. QED BY <1>2, <1>3, <1>7, <2>1 DEF ShownInv, BeforeInsert, BeforeConfirmSpend
<1>8. CASE pc = "FromSelf" /\ pc' = "SetTip"
    <2>1. aborts' = 0 => SpendDue(blocks, tip) \cap DOMAIN coins' \subseteq SpentRows(coins')
        BY <1>8 DEF SightInv, ShownInv
    <2>2. QED BY <1>2, <1>3, <1>8, <2>1 DEF ShownInv, BeforeInsert, BeforeConfirmSpend
<1>9. QED BY <1>2, <1>5, <1>6, <1>7, <1>8

-----------------------------------------------------------------------------
(* A poll keeps what is seen of the spends. *)

\* A poll starts over, or goes on with what it collected.
LEMMA TipShown ==
    ASSUME TypedInv, PromiseInv, SightInv, PollStep,
           \/ StartPoll \/ FetchTip \/ CheckInChain \/ FindAncestor \/ CheckTip
           \/ Rollback \/ AddTxs
    PROVE  KnowsInv' /\ ShownInv'
<1>1. UNCHANGED <<blocks, known, aborts>>
    BY PollStays
<1>2. pc \notin {"Ancestor", "Rollback"}
    BY DEF PromiseInv, PlaceInv
<1>3. /\ UNCHANGED <<dbTip, coins>>
      /\ updated' \in {updated, NothingUpdated}
    BY <1>2 DEF StartPoll, FetchTip, CheckInChain, FindAncestor, CheckTip, Rollback, AddTxs,
                Read, dbVars
<1>4. DOMAIN updated'.received \subseteq DOMAIN updated.received
    BY <1>3 DEF NothingUpdated, None
<1>5. \/ pc' \in {"Tip", "Received", "InChain", "Ancestor", "Panicked"}
      \/ /\ pc \in {"Check", "AddTxs"} /\ pc' \in {"AddTxs", "Insert"}
         /\ UNCHANGED <<tip, updated>>
    BY <1>2 DEF StartPoll, FetchTip, CheckInChain, FindAncestor, CheckTip, Rollback, AddTxs,
                Read, GoTo
<1>6. QED BY <1>1, <1>3, <1>4, <1>5, SightKept DEF BeforeInsert, BeforeConfirmSpend

\* A coin that was spent up to the recorded tip was received there: it is not listed.
LEMMA ReceivedShown ==
    ASSUME TypedInv, PromiseInv, SightInv, PollStep, ReadReceived
    PROVE  KnowsInv' /\ ShownInv'
<1>1. /\ ChainInv /\ LinearInv /\ {best, dbTip, tip} \subseteq DOMAIN blocks
      /\ {best, dbTip, tip} \subseteq Nat
      /\ UNCHANGED <<blocks, known, aborts>>
    BY PollStays
<1>2. /\ pc' = "Confirmed" /\ UNCHANGED <<dbTip, coins, tip>>
      /\ updated' = [updated EXCEPT !.received = [c \in NewlyReceived |-> Received[c]]]
    BY DEF ReadReceived, Read, GoTo, dbVars
<1>3. DOMAIN updated'.received = NewlyReceived
    BY <1>2 DEF TypedInv, TablesInv, UpdatedInv, UpdatedTypeOK
<1>4. ForkPoint(dbTip, best) = dbTip /\ Height(dbTip) = dbTip
    BY <1>1, LinearChain
<1>5. \A c \in NewlyReceived : c \in Coin /\ TxOf[c] \in ListedSince(dbTip)
    BY <1>4 DEF NewlyReceived, Received, ReceivedCoins
<1>6. \A c \in NewlyReceived : TxOf[c] \in known
    BY <1>5 DEF ListedSince
<1>7. ASSUME NEW c \in SpendDue(blocks, dbTip), c \in NewlyReceived PROVE FALSE
    <2>1. PICK a, b \in DOMAIN blocks : a <= b /\ b <= dbTip /\ TxOf[c] \in blocks[a].txs
        BY SpendOf DEF SightInv
    <2>2. a \in 0 .. best
        BY <1>1 DEF LinearInv
    <2>3. TxOf[c] \in TxsOn(best) /\ HeightOn(TxOf[c], best) = a
        BY <1>1, <2>1, <2>2, LinearHeight
    <2>4. a > dbTip
        BY <1>5, <1>7, <2>3 DEF ListedSince
    <2>5. b \in 0 .. best
        BY <1>1 DEF LinearInv
    <2>6. QED BY <1>1, <2>1, <2>2, <2>4, <2>5
<1>8. KnowsInv'
    <2>1. \A c \in Tracked' : c \in Tracked \/ TxOf[c] \in known
        BY <1>2, <1>3, <1>6 DEF Tracked
    <2>2. QED BY <1>1, <2>1, KnowsKept DEF SightInv
<1>9. ShownInv'
    <2>1. SpendDue(blocks, dbTip) \cap NewlyReceived = {}
        BY <1>7
    <2>2. QED BY <1>1, <1>2, <1>3, <2>1 DEF SightInv, ShownInv, BeforeInsert, BeforeConfirmSpend
<1>10. QED BY <1>8, <1>9

\* A coin that the chain has spent is in the chain: it has not expired.
LEMMA ConfirmedShown ==
    ASSUME TypedInv, PromiseInv, SightInv, PollStep, ReadConfirmed
    PROVE  KnowsInv' /\ ShownInv'
<1>1. /\ ChainInv /\ LinearInv /\ best \in DOMAIN blocks
      /\ best \in Nat /\ UNCHANGED <<blocks, known, aborts>>
    BY PollStays
<1>2. /\ pc = "Confirmed" /\ pc' = "Spending" /\ UNCHANGED <<dbTip, coins, tip>>
      /\ updated' = [updated EXCEPT !.confirmed = ConfirmedCoins(ToBeConfirmed),
                                    !.expired = ExpiredCoins(ToBeConfirmed)]
    BY DEF ReadConfirmed, Read, GoTo, dbVars
<1>3. /\ updated'.received = updated.received
      /\ updated'.expired = ExpiredCoins(ToBeConfirmed)
    BY <1>2 DEF TypedInv, TablesInv, UpdatedInv, UpdatedTypeOK
<1>4. ASSUME NEW c \in SpendDue(blocks, tip) PROVE c \notin ExpiredCoins(ToBeConfirmed)
    <2>1. PICK a \in DOMAIN blocks : TxOf[c] \in blocks[a].txs
        BY SpendOf DEF SightInv
    <2>2. a \in 0 .. best
        BY <1>1 DEF LinearInv
    <2>3. TxOf[c] \in TxsOn(best)
        BY <1>1, <2>1, <2>2, LinearHeight
    <2>4. QED BY <2>3 DEF ExpiredCoins
<1>5. KnowsInv'
    <2>1. Tracked' = Tracked
        BY <1>2, <1>3 DEF Tracked
    <2>2. QED BY <1>1, <2>1, KnowsKept DEF SightInv
<1>6. SpendDue(blocks, tip) \cap updated'.expired = {}
    BY <1>3, <1>4
<1>7. ShownInv'
    BY <1>1, <1>2, <1>3, <1>6 DEF SightInv, ShownInv, BeforeInsert, BeforeConfirmSpend
<1>8. QED BY <1>5, <1>7

\* Every coin that the chain has spent is found spent.
LEMMA SpendingShown ==
    ASSUME TypedInv, PromiseInv, SightInv, PollStep, ReadSpending
    PROVE  KnowsInv' /\ ShownInv'
<1>1. UNCHANGED <<blocks, known, aborts>>
    BY PollStays
<1>2. /\ \A c \in Tracked \ updated.expired :
            c \notin SpentRows(coins) /\ IsSpent(c) /\ Spenders(c) # {}
               => c \in DOMAIN updated'.spending
      /\ UNCHANGED <<coins, dbTip, tip>>
      /\ updated'.received = updated.received
      /\ pc = "Spending" /\ pc' = "Spent"
    BY SpendingSpends DEF Tracked, TypedInv, SightInv
<1>3. Tracked' = Tracked
    BY <1>2 DEF Tracked
<1>4. KnowsInv'
    BY <1>1, <1>3, KnowsKept DEF SightInv
<1>5. ASSUME aborts = 0, NEW c \in SpendDue(blocks, tip) \cap Tracked, c \notin SpentRows(coins)
      PROVE  c \in DOMAIN updated'.spending
    <2>1. c \notin updated.expired
        BY <1>2, <1>5 DEF SightInv, ShownInv
    <2>2. ValidInv /\ KnownOnwards /\ TxOf[c] \in known
        BY <1>5 DEF SightInv, KnowsInv
    <2>3. IsSpent(c) /\ Spenders(c) # {}
        BY <2>2, SpenderFound
    <2>4. QED BY <1>2, <1>5, <2>1, <2>3
<1>6. ShownInv'
    <2>1. aborts' = 0 => SpendDue(blocks, tip) \cap Tracked
                            \subseteq SpentRows(coins) \cup DOMAIN updated'.spending
        BY <1>1, <1>5
    <2>2. QED BY <1>1, <1>2, <1>3, <2>1
              DEF SightInv, ShownInv, BeforeInsert, BeforeConfirmSpend
<1>7. QED BY <1>4, <1>6

\* Whatever it was found spent by, it is found spent by the transaction of the chain.
LEMMA SpentShown ==
    ASSUME TypedInv, PromiseInv, SightInv, PollStep, ReadSpent
    PROVE  KnowsInv' /\ ShownInv'
<1>1. UNCHANGED <<blocks, known, aborts>>
    BY PollStays
<1>2. /\ UNCHANGED <<coins, dbTip, tip>>
      /\ updated'.received = updated.received
      /\ updated'.spent = SpentCoins(SpendingPairs)
      /\ pc = "Spent" /\ pc' = "Check"
    BY SpentSpends DEF TypedInv, SightInv
<1>3. Tracked' = Tracked
    BY <1>2 DEF Tracked
<1>4. KnowsInv'
    BY <1>1, <1>3, KnowsKept DEF SightInv
<1>5. ASSUME aborts = 0, NEW c \in SpendDue(blocks, tip) \cap Tracked, c \notin SpentRows(coins)
      PROVE  c \in FoundSpent'
    <2>1. c \in DOMAIN updated.spending
        BY <1>2, <1>5 DEF SightInv, ShownInv
    <2> DEFINE u == updated.spending[c]
               p == <<c, u>>
    <2>2. p \in SpendingPairs
        BY <2>1 DEF SpendingPairs, NewSpends
    <2>3. c \in Ins[u]
        BY <2>1 DEF SightInv, SpendsInv
    <2>4. ValidInv /\ KnownOnwards /\ TxOf[c] \in known
        BY <1>5 DEF SightInv, KnowsInv
    <2>5. PICK v : v \in ConfirmedSpenders(c, u)
        BY <2>3, <2>4, SpenderFound
    <2>6. p[1] = c /\ p[2] = u
        OBVIOUS
    <2> HIDE DEF u, p
    <2>7. [coin |-> p[1], tx |-> v, height |-> HeightOn(v, best)] \in SpentCoins(SpendingPairs)
        BY <2>2, <2>5, <2>6 DEF SpentCoins
    <2>8. QED BY <1>2, <2>6, <2>7 DEF FoundSpent
<1>6. ShownInv'
    <2>1. aborts' = 0 => SpendDue(blocks, tip) \cap Tracked
                            \subseteq SpentRows(coins) \cup FoundSpent'
        BY <1>1, <1>5
    <2>2. QED BY <1>1, <1>2, <1>3, <2>1
              DEF SightInv, ShownInv, BeforeInsert, BeforeConfirmSpend
<1>7. QED BY <1>4, <1>6

\* The coins that are inserted are not spent up to the recorded tip.
LEMMA InsertShown ==
    ASSUME TypedInv, PromiseInv, SightInv, PollStep, InsertReceived
    PROVE  KnowsInv' /\ ShownInv'
<1>1. /\ UNCHANGED <<blocks, known, aborts>>
      /\ UNCHANGED <<dbTip, tip, updated>>
      /\ pc = "Insert"
    <2>1. UNCHANGED <<dbTip, tip, updated>> /\ pc = "Insert"
        BY DEF InsertReceived, Write
    <2>2. QED BY <2>1, PollStays
<1>2. ASSUME pc' = "Panicked", coins' = coins PROVE KnowsInv' /\ ShownInv'
    BY <1>1, <1>2, SightKept DEF BeforeInsert, BeforeConfirmSpend
<1>3. ASSUME pc' = "Remove",
             DOMAIN coins' = DOMAIN coins \cup DOMAIN updated.received,
             \A c \in DOMAIN coins : coins'[c] = coins[c]
      PROVE  KnowsInv' /\ ShownInv'
    <2>1. Tracked' = Tracked /\ FoundSpent' = FoundSpent
        BY <1>1, <1>3 DEF Tracked, FoundSpent
    <2>2. KnowsInv'
        BY <1>1, <2>1, KnowsKept DEF SightInv
    <2>3. SpentRows(coins) \subseteq SpentRows(coins')
        BY <1>3 DEF SpentRows
    <2>4. aborts' = 0 => SpendDue(blocks, dbTip) \cap DOMAIN coins' \subseteq SpentRows(coins')
        BY <1>1, <1>3, <2>3 DEF SightInv, ShownInv, BeforeInsert
    <2>5. aborts' = 0 => SpendDue(blocks, tip) \cap DOMAIN coins'
                            \subseteq SpentRows(coins') \cup FoundSpent
        BY <1>1, <1>3, <2>3 DEF SightInv, ShownInv, Tracked
    <2>6. ShownInv'
        BY <1>1, <1>3, <2>1, <2>4, <2>5 DEF ShownInv, BeforeInsert, BeforeConfirmSpend
    <2>7. QED BY <2>2, <2>6
<1>4. QED BY <1>2, <1>3, InsertedRows

\* The writes between the coins and the tip forget no confirmed spend, and record
\* those that were found.
LEMMA WriteShown ==
    ASSUME TypedInv, PromiseInv, SightInv, PollStep,
           \/ RemoveExpired \/ ConfirmCoins \/ UnspendExpired
           \/ SpendCoins \/ ConfirmSpend \/ UpdateFromSelf
    PROVE  KnowsInv' /\ ShownInv'
<1>1. /\ UNCHANGED <<blocks, known, aborts>>
      /\ UNCHANGED <<dbTip, tip, updated>>
      /\ TablesInv /\ SpendsInv
    <2>1. UNCHANGED <<dbTip, tip, updated>>
        BY DEF RemoveExpired, ConfirmCoins, UnspendExpired, SpendCoins, ConfirmSpend,
               UpdateFromSelf, Write
    <2>2. QED BY <2>1, PollStays DEF TypedInv, SightInv
<1>2. ASSUME pc' = "Panicked", coins' = coins PROVE KnowsInv' /\ ShownInv'
    BY <1>1, <1>2, SightKept DEF BeforeInsert, BeforeConfirmSpend
<1>3. CASE RemoveExpired \/ ConfirmCoins \/ UpdateFromSelf
    <2>1. /\ DOMAIN coins' \subseteq DOMAIN coins
          /\ \A c \in DOMAIN coins' : coins'[c].spendHeight = coins[c].spendHeight
        BY <1>1, <1>3, SameSpends
    <2>2. SpentRows(coins) \cap DOMAIN coins' \subseteq SpentRows(coins')
        BY <2>1 DEF SpentRows
    <2>3. \/ pc \in BeforeConfirmSpend /\ pc' \in BeforeConfirmSpend
          \/ pc = "FromSelf" /\ pc' = "SetTip"
        BY <1>3 DEF RemoveExpired, ConfirmCoins, UpdateFromSelf, Write, GoTo, BeforeConfirmSpend
    <2>4. QED BY <1>1, <2>1, <2>2, <2>3, RowsShown
<1>4. CASE UnspendExpired
    <2>1. /\ pc' = "Spend" /\ DOMAIN coins' = DOMAIN coins
          /\ \A c \in DOMAIN coins \ updated.expiredSpending : coins'[c] = coins[c]
        BY <1>1, <1>4, UnspentRows
    <2>2. pc = "Unspend"
        BY <1>4 DEF UnspendExpired
    <2>3. updated.expiredSpending \cap SpentRows(coins) = {}
        BY <1>1, <2>2 DEF SpendsInv, BeforeUnspend
    <2>4. SpentRows(coins) \subseteq SpentRows(coins')
        BY <2>1, <2>3 DEF SpentRows
    <2>5. QED BY <1>1, <2>1, <2>2, <2>4, RowsShown DEF BeforeConfirmSpend
<1>5. CASE SpendCoins
    <2>1. ASSUME pc' = "ConfirmSpend", DOMAIN coins' = DOMAIN coins,
                 \A c \in DOMAIN coins : coins'[c].spendHeight = coins[c].spendHeight
          PROVE  KnowsInv' /\ ShownInv'
        <3>1. SpentRows(coins) \subseteq SpentRows(coins')
            BY <2>1 DEF SpentRows
        <3>2. pc = "Spend"
            BY <1>5 DEF SpendCoins
        <3>3. QED BY <1>1, <2>1, <3>1, <3>2, RowsShown DEF BeforeConfirmSpend
    <2>2. QED BY <1>1, <1>2, <1>5, <2>1, SpendingRows
<1>6. CASE ConfirmSpend
    <2>1. ASSUME pc' = "FromSelf", DOMAIN coins' = DOMAIN coins,
                 \A c \in DOMAIN coins :
                    \/ \E s \in updated.spent : /\ s.coin = c /\ coins'[c].spendTx = s.tx
                                                /\ coins'[c].spendHeight = s.height
                    \/ (\A s \in updated.spent : s.coin # c) /\ coins'[c] = coins[c]
          PROVE  KnowsInv' /\ ShownInv'
        <3>1. \A s \in updated.spent : s.height # NoHeight
            BY <1>1 DEF SpendsInv, SpentAt, TablesInv, ChainInv, NoHeight
        <3>2. FoundSpent \cap DOMAIN coins' \subseteq SpentRows(coins')
            BY <2>1, <3>1 DEF FoundSpent, SpentRows
        <3>3. SpentRows(coins) \subseteq SpentRows(coins')
            BY <2>1, <3>1 DEF SpentRows
        <3>4. pc = "ConfirmSpend"
            BY <1>6 DEF ConfirmSpend
        <3>5. QED BY <1>1, <2>1, <3>2, <3>3, <3>4, RowsShown
    <2>2. QED BY <1>1, <1>2, <1>6, <2>1, ConfirmedSpends
<1>7. QED BY <1>3, <1>4, <1>5, <1>6

\* The tip is recorded once the spends up to it are.
LEMMA SetTipShown ==
    ASSUME TypedInv, PromiseInv, SightInv, PollStep, SetTip
    PROVE  KnowsInv' /\ ShownInv'
<1>1. UNCHANGED <<blocks, known, aborts>>
    BY PollStays
<1>2. /\ pc = "SetTip" /\ pc' = "Polled" /\ dbTip' = tip /\ UNCHANGED coins
      /\ updated' = NothingUpdated
    BY DEF SetTip, GoTo
<1>3. Tracked' \subseteq Tracked
    BY <1>2 DEF Tracked, NothingUpdated, None
<1>4. KnowsInv'
    BY <1>1, <1>3, KnowsKept DEF SightInv
<1>5. aborts' = 0 => SpendDue(blocks, tip) \cap DOMAIN coins \subseteq SpentRows(coins)
    BY <1>1, <1>2 DEF SightInv, ShownInv
<1>6. ShownInv'
    BY <1>1, <1>2, <1>5 DEF ShownInv, BeforeInsert, BeforeConfirmSpend
<1>7. QED BY <1>4, <1>6

-----------------------------------------------------------------------------
(* So do the steps around it. *)

\* A block that arrives is above the tips.
LEMMA NodeShown ==
    ASSUME TypedInv, PromiseInv, SightInv, Node, UNCHANGED rescanVars, reorgs' = 0
    PROVE  ValidInv' /\ KnowsInv' /\ ShownInv'
<1>1. UNCHANGED <<pc, dbTip, coins, tip, updated, aborts>>
    BY DEF Node, pollerVars, dbVars, rescanVars
<1>2. ChainInv /\ LinearInv /\ ValidInv /\ {dbTip, tip} \subseteq DOMAIN blocks
    BY DEF TypedInv, TablesInv, PromiseInv, SightInv
<1>3. ChainInv' /\ Grows
    BY <1>2, NodeKeeps DEF Node
<1>4. LinearInv' /\ ValidInv'
    BY <1>2, NodeLinear, NodeValid DEF Node
<1>5. best \in Nat /\ best' \in Nat
    <2>1. best \in DOMAIN blocks
        BY <1>2 DEF ChainInv, ChainTypeOK
    <2>2. best' \in DOMAIN blocks' /\ DOMAIN blocks' \subseteq 0 .. MaxBlocks - 1
        BY <1>3 DEF ChainInv, ChainTypeOK
    <2>3. QED BY <1>2, <2>1, <2>2, LinearChain
<1>6. /\ SpendDue(blocks', dbTip) = SpendDue(blocks, dbTip)
      /\ SpendDue(blocks', tip) = SpendDue(blocks, tip)
    BY <1>2, <1>3, <1>4, <1>5, SpendDueStays
<1>7. Tracked' = Tracked /\ FoundSpent' = FoundSpent
    BY <1>1 DEF Tracked, FoundSpent
<1>8. KnowsInv'
    BY <1>1, <1>2, <1>7, NodeKnows DEF SightInv, KnowsInv, Node
<1>9. ShownInv'
    BY <1>1, <1>6, <1>7 DEF SightInv, ShownInv
<1>10. QED BY <1>4, <1>8, <1>9

\* A scan that ends has told the wallet of every block from the first on that it found
\* something in.
LEMMA ScanShown ==
    ASSUME TypedInv, PromiseInv, SightInv, FinishScan \/ AbortScan
    PROVE  KnowsInv' /\ ShownInv'
<1>1. /\ UNCHANGED <<blocks, best, pc, dbTip, coins, tip, updated>>
      /\ known \subseteq known'
    BY DEF FinishScan, AbortScan, Backend, pollerVars, dbVars
<1>2. aborts' = 0 => aborts = 0 /\ FinishScan
    BY RescanAssumption DEF FinishScan, AbortScan, TypedInv, RescanTypes
<1>3. Tracked' = Tracked /\ FoundSpent' = FoundSpent
    BY <1>1 DEF Tracked, FoundSpent
<1>4. ASSUME FinishScan, KnownOnwards PROVE KnownOnwards'
    <2>1. /\ ChainInv /\ LinearInv /\ best \in DOMAIN blocks /\ best \in 0 .. best
          /\ best \in Nat /\ DOMAIN blocks = 0 .. best /\ Height(best) = best
        BY LinearChain DEF TypedInv, TablesInv, PromiseInv, ChainInv, ChainTypeOK, LinearInv
    <2>2. known' = known \cup {t \in TxsOn(best) : HeightOn(t, best) \in scanning .. best}
        BY <1>4, <2>1 DEF FinishScan, ScannedUpTo
    <2>3. scanning \in Int
        <3>1. scanning \in Time \cup {NoTime}
            BY DEF TypedInv, RescanTypes
        <3>2. QED BY <3>1, RescanAssumption DEF NoTime
    <2>4. \A b \in DOMAIN blocks : \A t \in blocks[b].txs :
              t \in TxsOn(best) /\ HeightOn(t, best) = b
        BY <2>1, LinearHeight
    <2>5. ASSUME NEW a \in DOMAIN blocks, NEW b \in DOMAIN blocks, a <= b,
                 NEW t \in blocks[a].txs, t \in known'
          PROVE  blocks[b].txs \subseteq known'
        <3>1. CASE t \in known
            BY <1>1, <2>5, <3>1, <1>4 DEF KnownOnwards
        <3>2. CASE t \notin known
            <4>1. scanning <= a
                BY <2>1, <2>2, <2>3, <2>4, <2>5, <3>2
            <4>2. b \in scanning .. best
                BY <2>1, <2>3, <2>5, <4>1
            <4>3. QED BY <2>2, <2>4, <4>2
        <3>3. QED BY <3>1, <3>2
    <2>6. QED BY <1>1, <2>5 DEF KnownOnwards
<1>5. KnowsInv'
    BY <1>1, <1>2, <1>3, <1>4 DEF SightInv, KnowsInv
<1>6. ShownInv'
    BY <1>1, <1>2, <1>3 DEF SightInv, ShownInv
<1>7. QED BY <1>5, <1>6

\* The spends up to the block that the wallet goes back to stay recorded.
LEMMA BackShown ==
    ASSUME TypedInv, PromiseInv, SightInv, RescanRollback
    PROVE  KnowsInv' /\ ShownInv'
<1>1. /\ UNCHANGED <<blocks, best, known, tip, updated, aborts>>
      /\ pc = "RescanRollback" /\ pc' = "Complete" /\ dbTip' = tip
      /\ RollbackTip(tip)
    BY DEF RescanRollback, RollbackTip, Step, GoTo, chainVars
<1>2. /\ TablesInv /\ ChainInv /\ CoinsInv /\ LinearInv /\ ValidInv /\ SpendsInv
      /\ {tip, dbTip} \subseteq DOMAIN blocks
    BY DEF TypedInv, TablesInv, PromiseInv, SightInv
<1>3. tip \in Nat /\ dbTip \in Nat /\ best \in Nat /\ Height(tip) = tip /\ tip <= dbTip
    BY <1>1, <1>2, LinearChain DEF PromiseInv, PlaceInv
<1>4. /\ DOMAIN coins' = DOMAIN coins
      /\ \A c \in DOMAIN coins :
            ~ (coins[c].height > Height(tip)) /\ ~ (coins[c].spendHeight > Height(tip))
               => coins'[c].spendHeight = coins[c].spendHeight
    BY <1>1, <1>2, RolledRows
<1>5. Tracked' = Tracked
    BY <1>1, <1>4 DEF Tracked
<1>6. KnowsInv'
    BY <1>1, <1>5, KnowsKept DEF SightInv
<1>7. ASSUME aborts = 0, NEW c \in SpendDue(blocks, tip), c \in DOMAIN coins
      PROVE  c \in SpentRows(coins')
    <2>1. PICK a, b \in DOMAIN blocks : /\ a <= b /\ b <= tip /\ TxOf[c] \in blocks[a].txs
                                        /\ \E t \in blocks[b].txs : c \in Ins[t]
        BY <1>2, SpendOf
    <2>2. PICK t \in blocks[b].txs : c \in Ins[t]
        BY <2>1
    <2>3. c \in SpentRows(coins)
        BY <1>2, <1>3, <1>7, SpendDueUpTo DEF SightInv, ShownInv
    <2>4. coins[c].spendHeight = b
        BY <1>2, <2>2, <2>3, SpendRecorded
    <2>5. coins[c].height = a \/ coins[c].height = NoHeight
        BY <1>2, <1>7, <2>1, RowHeight DEF ConfirmedRows
    <2>6. a \in Nat /\ b \in Nat
        BY <1>2, <1>3 DEF LinearInv
    <2>7. ~ (coins[c].height > Height(tip)) /\ ~ (coins[c].spendHeight > Height(tip))
        BY <1>3, <2>1, <2>4, <2>5, <2>6 DEF NoHeight
    <2>8. coins'[c].spendHeight = coins[c].spendHeight
        BY <1>4, <1>7, <2>7
    <2>9. QED BY <1>4, <1>7, <2>3, <2>8 DEF SpentRows
<1>8. ShownInv'
    BY <1>1, <1>4, <1>7 DEF ShownInv, BeforeInsert, BeforeConfirmSpend
<1>9. QED BY <1>6, <1>8

\* Nor do the commands, the reads of rescan_check() and a restart change what the
\* tables and the node have.
LEMMA OthersShown ==
    ASSUME TypedInv, SightInv,
           \/ \E r \in Client : StartRescan(r)
           \/ ReadTimestamp \/ ReadProgress \/ FindBlockBefore \/ CompleteRescan
           \/ Restart \/ UNCHANGED allVars
    PROVE  ValidInv' /\ KnowsInv' /\ ShownInv'
<1>1. ASSUME UNCHANGED blocks PROVE ValidInv'
    BY <1>1 DEF SightInv, ValidInv
<1>2. CASE (\E r \in Client : StartRescan(r)) \/ UNCHANGED allVars
    <2>1. UNCHANGED <<vars, aborts>>
        BY <1>2, CommandSteps DEF TypedInv, allVars, rescanVars
    <2>2. UNCHANGED <<blocks, known, dbTip, coins, aborts, pc, tip, updated>>
        BY <2>1 DEF vars, chainVars, pollerVars, dbVars
    <2>3. QED BY <1>1, <2>2, SightKept
<1>3. CASE ReadTimestamp \/ ReadProgress \/ FindBlockBefore \/ CompleteRescan
    <2>1. UNCHANGED <<blocks, known, dbTip, coins, aborts, updated>>
        BY <1>3 DEF ReadTimestamp, ReadProgress, FindBlockBefore, CompleteRescan, Step, StayOn,
                    chainVars, dbVars
    <2>2. pc' \notin BeforeInsert \cup BeforeConfirmSpend \cup {"FromSelf", "SetTip"}
        BY <1>3 DEF ReadTimestamp, ReadProgress, FindBlockBefore, CompleteRescan, Step, GoTo,
                    BeforeInsert, BeforeConfirmSpend
    <2>3. QED BY <1>1, <2>1, <2>2, SightKept
<1>4. CASE Restart
    <2>1. /\ UNCHANGED <<blocks, known, dbTip, coins, aborts>>
          /\ updated' = NothingUpdated /\ pc' = "Idle"
        BY <1>4 DEF Restart, GoTo, chainVars, dbVars
    <2>2. DOMAIN updated'.received \subseteq DOMAIN updated.received
        BY <2>1 DEF NothingUpdated, None
    <2>3. pc' \notin BeforeInsert \cup BeforeConfirmSpend \cup {"FromSelf", "SetTip"}
        BY <2>1 DEF BeforeInsert, BeforeConfirmSpend
    <2>4. QED BY <1>1, <2>1, <2>2, <2>3, SightKept
<1>5. QED BY <1>2, <1>3, <1>4

\* Every step keeps what is seen of the spends.
LEMMA SightNext ==
    ASSUME TypedInv, PromiseInv, SightInv, [RescanNext]_allVars, reorgs' = 0
    PROVE  SightInv'
<1>1. SpendsInv'
    BY SpendsNext DEF SightInv
<1>2. CASE PollStep
    <2>1. ValidInv'
        BY <1>2, PollStays DEF SightInv, ValidInv
    <2>2. KnowsInv' /\ ShownInv'
        BY <1>2, TipShown, ReceivedShown, ConfirmedShown, SpendingShown, SpentShown,
           InsertShown, WriteShown, SetTipShown DEF PollStep, Queries, Writes
    <2>3. QED BY <1>1, <2>1, <2>2 DEF SightInv
<1>3. CASE FinishScan \/ AbortScan \/ RescanRollback
    <2>1. UNCHANGED blocks
        BY <1>3 DEF FinishScan, AbortScan, Backend, RescanRollback, RollbackTip, chainVars
    <2>2. ValidInv'
        BY <2>1 DEF SightInv, ValidInv
    <2>3. QED BY <1>1, <1>3, <2>2, ScanShown, BackShown DEF SightInv
<1>4. CASE Node /\ UNCHANGED rescanVars
    BY <1>1, <1>4, NodeShown DEF SightInv
<1>5. CASE \/ \E r \in Client : StartRescan(r)
           \/ ReadTimestamp \/ ReadProgress \/ FindBlockBefore \/ CompleteRescan
           \/ Restart \/ UNCHANGED allVars
    BY <1>1, <1>5, OthersShown DEF SightInv
<1>6. QED BY <1>2, <1>3, <1>4, <1>5 DEF RescanNext, RescanCheck

\* Initially the wallet has no coin.
LEMMA SightInit == RescanInit => SightInv
<1> SUFFICES ASSUME RescanInit PROVE SightInv
    OBVIOUS
<1>1. SpendsInv /\ ValidInv
    BY SpendsInit, ValidInit
<1>2. known = {} /\ coins = None /\ updated = NothingUpdated /\ pc = "Idle"
    BY DEF RescanInit
<1>3. KnowsInv
    BY <1>2 DEF KnowsInv, KnownOnwards, Tracked, None, NothingUpdated
<1>4. ShownInv
    BY <1>2 DEF ShownInv, None, BeforeInsert, BeforeConfirmSpend
<1>5. QED BY <1>1, <1>3, <1>4 DEF SightInv

\* What is spent up to the recorded tip is recorded where the chain has it.
LEMMA SightHolds == TypedInv /\ PromiseInv /\ SightInv => (aborts = 0 => SpendsSeen)
<1> SUFFICES ASSUME TypedInv, PromiseInv, SightInv, aborts = 0,
                    NEW c \in DOMAIN coins, NEW t \in TxsOn(dbTip), c \in Ins[t]
             PROVE  coins[c].spendTx = t /\ coins[c].spendHeight = HeightOn(t, dbTip)
    BY DEF SpendsSeen
<1>1. ChainInv /\ CoinsInv /\ LinearInv /\ ValidInv /\ SpendsInv /\ dbTip \in DOMAIN blocks
    BY DEF TypedInv, TablesInv, PromiseInv, SightInv
<1>2. Chain(dbTip) = 0 .. dbTip /\ dbTip \in Nat
    BY <1>1, LinearChain
<1>3. PICK b \in 0 .. dbTip : t \in blocks[b].txs
    BY <1>2 DEF TxsOn
<1>4. HeightOn(t, dbTip) = b
    BY <1>1, <1>3, LinearHeight
<1>5. b \in DOMAIN blocks /\ c \in Coin
    BY <1>1, <1>2, Chains DEF CoinsInv, Maps
<1>6. c \in SpendDue(blocks, dbTip)
    BY <1>3, <1>5 DEF SpendDue
<1>7. c \in SpentRows(coins)
    BY <1>6 DEF SightInv, ShownInv
<1>8. QED BY <1>1, <1>3, <1>4, <1>5, <1>7, SpendRecorded

\* "We guarantee to have seen all information related to our descriptor(s) that occurred
\* after this date": up to the recorded tip, the coins since the wallet's date are there,
\* with their height once they are mature, and so is what spent the coins that are
\* there, in whatever order the steps of start_rescan, of the node's scan, of rescan_check and of the polls
\* follow each other, blocks arrive and lianad is restarted; until bitcoind aborts a
\* scan or reorganizes the chain.
THEOREM Seen ==
    ASSUME Undisturbed
    PROVE  RescanSpec => [](reorgs = 0 => SeenUnlessAborted)
<1> DEFINE Promised == PromiseInv /\ SightInv
           Inv == TypedInv /\ (reorgs = 0 => LinearInv) /\ (reorgs = 0 => Promised)
<1>1. RescanInit => Inv
    BY RescanInitTypes, LinearInit, PromiseInit, SightInit DEF TypedInv
<1>2. Inv /\ [RescanNext]_allVars => Inv'
    <2> SUFFICES ASSUME Inv, [RescanNext]_allVars PROVE Inv'
        OBVIOUS
    <2>1. TypedInv'
        BY RescanKeepsTypes DEF TypedInv
    <2>2. (reorgs' = 0 => reorgs = 0) /\ (reorgs' = 0 => LinearInv')
        BY LinearNext
    <2>3. ASSUME reorgs' = 0 PROVE PromiseInv' /\ SightInv'
        <3>1. PromiseInv /\ SightInv
            BY <2>2, <2>3
        <3>2. PromiseInv'
            BY <2>3, <3>1, PromiseKept
        <3>3. SightInv'
            BY <2>3, <3>1, SightNext
        <3>4. QED BY <3>2, <3>3
    <2>4. QED BY <2>1, <2>2, <2>3
<1>3. Inv => (reorgs = 0 => SeenUnlessAborted)
    BY PromiseHolds, SightHolds DEF SeenUnlessAborted, SeenSinceTimestamp
<1>4. QED BY <1>1, <1>2, <1>3, PTL DEF RescanSpec
=============================================================================
