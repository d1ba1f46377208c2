------------------------------- MODULE Poller -------------------------------
(***************************************************************************)
(* The poller thread of lianad with a bitcoind backend                    *)
(* (lianad/src/bitcoin/poller/looper.rs) and the tables it keeps           *)
(* (lianad/src/database/sqlite/mod.rs): the chain tip, the coins and the   *)
(* transactions.                                                           *)
(*                                                                         *)
(* A poll asks the backend one question at a time, and the node may change *)
(* between two of them.  It then records the answers with one database     *)
(* transaction per kind of update, and the process may die between two of  *)
(* those.  `pc` is the next thing the thread does:                         *)
(*                                                                         *)
(*  Idle -> Tip -> InChain -> Received -> Confirmed -> Spending -> Spent    *)
(*    ^      ^        |                                              |      *)
(*    |      +- Rollback <- Ancestor                               Check    *)
(*    |      +------------------ (the tip changed) ------------------+      *)
(*    |                                                              |      *)
(*    |             Unspend <- Confirm <- Remove <- Insert <- AddTxs <-+      *)
(*    |                v                                                    *)
(*    |             Spend -> ConfirmSpend -> FromSelf -> SetTip             *)
(*    +---------------------- Polled <-----------------------+              *)
(*                                                                         *)
(* A failed assertion or foreign key panics the thread: pc = "Panicked".   *)
(***************************************************************************)
EXTENDS Bitcoind

CONSTANT MaxCrashes \* bound: how often the process dies in the middle of a poll

ASSUME CrashesAssumption == MaxCrashes \in Nat

VARIABLES
    pc,
    dbTip,     \* table tip
    coins,     \* table coins: the rows, by outpoint
    savedTxs,  \* table transactions
    tip,       \* updates(): latest_tip, or the common ancestor to go back to
    updated,   \* updates(): the UpdatedCoins collected so far
    crashes

dbVars == <<dbTip, coins, savedTxs>>
pollerVars == <<pc, dbVars, tip, updated, crashes>>
vars == <<chainVars, pollerVars>>

Heights == 0 .. MaxBlocks - 1

Row == [height : Heights \cup {NoHeight}, spendTx : Tx \cup {NoTx},
        spendHeight : Heights \cup {NoHeight}, fromSelf : BOOLEAN,
        immature : BOOLEAN]

Spend == [coin : Coin, tx : Tx, height : Heights]

None == [c \in {} |-> FALSE]

\* struct UpdatedCoins.  `received` maps a coin to its immature flag, `confirmed`
\* to its height, `spending` to the txid of its spender.
NothingUpdated == [received |-> None, confirmed |-> None, expired |-> {},
                   spending |-> None, spent |-> {}, expiredSpending |-> {}]

QueryStates == {"Tip", "InChain", "Ancestor", "Rollback", "Received", "Confirmed",
                "Spending", "Spent", "Check"}
WriteStates == {"AddTxs", "Insert", "Remove", "Confirm", "Unspend", "Spend",
                "ConfirmSpend", "FromSelf", "SetTip"}

Maps(f, R) == DOMAIN f \subseteq Coin /\ f \in [DOMAIN f -> R]

UpdatedTypeOK ==
    /\ updated = [received |-> updated.received, confirmed |-> updated.confirmed,
                  expired |-> updated.expired, spending |-> updated.spending,
                  spent |-> updated.spent,
                  expiredSpending |-> updated.expiredSpending]
    /\ Maps(updated.received, BOOLEAN)
    /\ Maps(updated.confirmed, Heights)
    /\ Maps(updated.spending, Tx)
    /\ updated.spent \subseteq Spend
    /\ updated.expired \cup updated.expiredSpending \subseteq Coin

TypeOK ==
    /\ ChainTypeOK
    /\ pc \in {"Idle", "Polled", "Panicked"} \cup QueryStates \cup WriteStates
    /\ dbTip \in DOMAIN blocks
    /\ Maps(coins, Row)
    /\ savedTxs \subseteq Tx
    /\ tip \in DOMAIN blocks
    /\ UpdatedTypeOK
    /\ crashes \in 0 .. MaxCrashes

\* maybe_initialize_tip: the first startup records the genesis block.
Init ==
    /\ ChainInit
    /\ pc = "Idle"
    /\ dbTip = 0
    /\ coins = None
    /\ savedTxs = {}
    /\ tip = 0
    /\ updated = NothingUpdated
    /\ crashes = 0

-----------------------------------------------------------------------------
(* Reading the backend. *)

GoTo(label) == pc' = label

Read(label) == UNCHANGED <<chainVars, dbVars, crashes>> /\ GoTo(label)

StartPoll ==
    /\ pc = "Idle"
    /\ Read("Tip")
    /\ UNCHANGED <<tip, updated>>

\* new_tip(): chain_tip().
FetchTip ==
    /\ pc = "Tip"
    /\ tip' = best
    /\ updated' = NothingUpdated
    /\ \/ best = dbTip /\ Read("Received")
       \/ best # dbTip /\ Height(best) > Height(dbTip) /\ Read("InChain")
       \/ best # dbTip /\ Height(best) <= Height(dbTip) /\ Read("Ancestor")

\* new_tip(): is_in_chain().
CheckInChain ==
    /\ pc = "InChain"
    /\ Read(IF IsInChain(dbTip) THEN "Received" ELSE "Ancestor")
    /\ UNCHANGED <<tip, updated>>

\* new_tip(): common_ancestor().
FindAncestor ==
    /\ pc = "Ancestor"
    /\ tip' = CommonAncestor(dbTip)
    /\ Read("Rollback")
    /\ UNCHANGED updated

\* A bug: the spends of the coins that stay confirmed are forgotten.
RolledBackReceived(r, h) ==
    LET gone == r.height > h
    IN  [r EXCEPT !.height = IF gone THEN NoHeight ELSE @,
                  !.spendHeight = IF gone THEN NoHeight ELSE @,
                  !.fromSelf = @ /\ ~gone /\ r.height # NoHeight]

RolledBack(r, h) ==
    LET gone == r.height > h
    IN  [r EXCEPT !.height = IF gone THEN NoHeight ELSE @,
                  !.spendHeight = IF gone \/ @ > h THEN NoHeight ELSE @,
                  !.fromSelf = @ /\ ~gone /\ r.height # NoHeight]

\* rollback_tip().  spend_txid is kept, and coins are not removed: the next
\* confirmed_coins and spent_coins decide.
RollbackTip(block) ==
    /\ coins' = [c \in DOMAIN coins |-> RolledBack(coins[c], Height(block))]
    /\ dbTip' = block
    /\ UNCHANGED <<chainVars, savedTxs, tip, updated, crashes>>

\* The chain was reorganized: updates() starts over from the common ancestor.
Rollback ==
    /\ pc = "Rollback"
    /\ RollbackTip(tip)
    /\ GoTo("Tip")

\* A bug: update_coins() is given latest_tip.
ReceivedSinceLatest == ReceivedCoins(tip)

Received == ReceivedCoins(dbTip)

NewlyReceived == DOMAIN Received \ DOMAIN coins

\* update_coins(): the coins the wallet did not have.  The table only changes in
\* this thread, so that `coins` is the snapshot curr_coins.
ReadReceived ==
    /\ pc = "Received"
    /\ updated' = [updated EXCEPT !.received = [c \in NewlyReceived |-> Received[c]]]
    /\ Read("Confirmed")
    /\ UNCHANGED tip

Unconfirmed == {c \in DOMAIN coins : coins[c].height = NoHeight}

ToBeConfirmed == Unconfirmed \cup DOMAIN updated.received

ReadConfirmed ==
    /\ pc = "Confirmed"
    /\ updated' = [updated EXCEPT !.confirmed = ConfirmedCoins(ToBeConfirmed),
                                  !.expired = ExpiredCoins(ToBeConfirmed)]
    /\ Read("Spending")
    /\ UNCHANGED tip

ReadSpending ==
    LET settled == {c \in DOMAIN coins : /\ coins[c].spendTx # NoTx
                                         /\ coins[c].spendHeight # NoHeight}
        toBeSpent == (DOMAIN coins \cup DOMAIN updated.received)
                        \ (settled \cup updated.expired)
    IN  /\ pc = "Spending"
        /\ \E spending \in SpendingCoins(toBeSpent) :
              updated' = [updated EXCEPT !.spending = spending]
        /\ Read("Spent")
        /\ UNCHANGED tip

\* list_spending_coins(): spent by a transaction that is still unconfirmed.
ListSpendingCoins ==
    {c \in DOMAIN coins : coins[c].spendTx # NoTx /\ coins[c].spendHeight = NoHeight}

NewSpends == {<<c, updated.spending[c]>> : c \in DOMAIN updated.spending}

SpendingPairs == {<<c, coins[c].spendTx>> : c \in ListSpendingCoins} \cup NewSpends

ReadSpent ==
    /\ pc = "Spent"
    /\ updated' = [updated EXCEPT !.spent = SpentCoins(SpendingPairs),
                                  !.expiredSpending = ExpiredSpends(SpendingPairs)]
    /\ Read("Check")
    /\ UNCHANGED tip

\* "If the tip changed while we were polling our Bitcoin interface, start over."
CheckTip ==
    /\ pc = "Check"
    /\ Read(IF best = tip THEN "AddTxs" ELSE "Tip")
    /\ UNCHANGED <<tip, updated>>

-----------------------------------------------------------------------------
(* Recording the updates: one database transaction each, in this order. *)

\* A transaction that breaks a constraint is rolled back and the thread panics.
Write(ok, rows, label) ==
    /\ IF ok THEN coins' = rows /\ GoTo(label)
             ELSE UNCHANGED coins /\ GoTo("Panicked")
    /\ UNCHANGED <<chainVars, dbTip, savedTxs, tip, updated, crashes>>

\* UPDATE coins: rows that are not there are not affected.
UpdatedRows(set, New(_, _)) ==
    [c \in DOMAIN coins |-> IF c \in set THEN New(c, coins[c]) ELSE coins[c]]

DepositTxs == {TxOf[c] : c \in DOMAIN updated.received}

NeededTxs == DepositTxs \cup {updated.spending[c] : c \in DOMAIN updated.spending}

\* add_txs_to_db(): the wallet must still know every new transaction.
AddTxs ==
    /\ pc = "AddTxs"
    /\ IF NeededTxs \subseteq known \cup savedTxs
       THEN savedTxs' = savedTxs \cup NeededTxs /\ GoTo("Insert")
       ELSE UNCHANGED savedTxs /\ GoTo("Panicked")
    /\ UNCHANGED <<chainVars, dbTip, coins, tip, updated, crashes>>

\* new_unspent_coins(): panics on a coin that is already there.
InsertReceived ==
    LET new == DOMAIN updated.received
        ok == /\ new \cap DOMAIN coins = {}
              /\ \A c \in new : TxOf[c] \in savedTxs
        NewRow(c) == [height |-> NoHeight, spendTx |-> NoTx,
                      spendHeight |-> NoHeight, fromSelf |-> FALSE,
                      immature |-> updated.received[c]]
    IN  /\ pc = "Insert"
        /\ Write(ok, [c \in DOMAIN coins \cup new |->
                         IF c \in new THEN NewRow(c) ELSE coins[c]], "Remove")

\* remove_coins()
RemoveExpired ==
    /\ pc = "Remove"
    /\ Write(TRUE, [c \in DOMAIN coins \ updated.expired |-> coins[c]], "Confirm")

\* A bug: a coin is confirmed at the height of the tip.
ConfirmedAtTip(c, r) == [r EXCEPT !.height = Height(tip), !.immature = FALSE]

ConfirmedRow(c, r) == [r EXCEPT !.height = updated.confirmed[c], !.immature = FALSE]

\* confirm_coins()
ConfirmCoins ==
    /\ pc = "Confirm"
    /\ Write(TRUE, UpdatedRows(DOMAIN updated.confirmed, ConfirmedRow), "Unspend")

\* unspend_coins()
UnspendExpired ==
    LET New(c, r) == [r EXCEPT !.spendTx = NoTx, !.spendHeight = NoHeight]
    IN  /\ pc = "Unspend"
        /\ Write(TRUE, UpdatedRows(updated.expiredSpending, New), "Spend")

\* spend_coins(): spend_txid references the table of transactions.
SpendCoins ==
    LET New(c, r) == [r EXCEPT !.spendTx = updated.spending[c]]
        ok == \A c \in DOMAIN updated.spending \cap DOMAIN coins :
                 updated.spending[c] \in savedTxs
    IN  /\ pc = "Spend"
        /\ Write(ok, UpdatedRows(DOMAIN updated.spending, New), "ConfirmSpend")

\* confirm_spend(): likewise.
ConfirmSpend ==
    LET spender(c) == CHOOSE s \in updated.spent : s.coin = c
        New(c, r) == [r EXCEPT !.spendTx = spender(c).tx,
                               !.spendHeight = spender(c).height]
        ok == \A s \in updated.spent : s.coin \in DOMAIN coins => s.tx \in savedTxs
    IN  /\ pc = "ConfirmSpend"
        /\ Write(ok, UpdatedRows({s.coin : s \in updated.spent}, New), "FromSelf")

\* A bug: every input of the wallet counts.
AllInputs(t, ours) == {c \in DOMAIN coins : coins[c].spendTx = t}

\* The inputs of t that count in update_coins_from_self: coins of the wallet that
\* are confirmed, or from self themselves.
CountedInputs(t, ours) ==
    {c \in DOMAIN coins :
        /\ coins[c].spendTx = t
        /\ coins[c].spendHeight = NoHeight \/ coins[c].spendHeight > Height(dbTip)
        /\ coins[c].height # NoHeight \/ c \in ours}

\* update_coins_from_self(): sets the flag until no row changes, hence on the least
\* set of coins that holds those flagged already and is closed under the query.
FromSelfCoins ==
    LET flagged == {c \in DOMAIN coins : coins[c].fromSelf}
        Set(c, ours) ==
            /\ coins[c].height = NoHeight \/ coins[c].height > Height(dbTip)
            /\ CountedInputs(TxOf[c], ours) # {}
            /\ Cardinality(CountedInputs(TxOf[c], ours)) = Cardinality(Ins[TxOf[c]])
        Closed(ours) == \A c \in DOMAIN coins : Set(c, ours) => c \in ours
    IN  {c \in DOMAIN coins : \A ours \in SUBSET DOMAIN coins :
            flagged \subseteq ours /\ Closed(ours) => c \in ours}

UpdateFromSelf ==
    LET New(c, r) == [r EXCEPT !.fromSelf = TRUE]
    IN  /\ pc = "FromSelf"
        /\ Write(TRUE, UpdatedRows(FromSelfCoins, New), "SetTip")

\* update_tip(), when it changed: updates() returns.
SetTip ==
    /\ pc = "SetTip"
    /\ dbTip' = tip
    /\ updated' = NothingUpdated
    /\ GoTo("Polled")
    /\ UNCHANGED <<chainVars, coins, savedTxs, tip, crashes>>

\* poll(): no rescan was asked for (module Rescan has the others), and the time of
\* the poll is recorded.
FinishPoll ==
    /\ pc = "Polled"
    /\ Read("Idle")
    /\ UNCHANGED <<tip, updated>>

-----------------------------------------------------------------------------
\* The process dies and is started again: what the thread held in memory is lost.
Crash ==
    /\ pc # "Idle"
    /\ crashes < MaxCrashes
    /\ crashes' = crashes + 1
    /\ tip' = dbTip
    /\ updated' = NothingUpdated
    /\ GoTo("Idle")
    /\ UNCHANGED <<chainVars, dbVars>>

Queries == \/ FetchTip \/ CheckInChain \/ FindAncestor \/ ReadReceived
           \/ ReadConfirmed \/ ReadSpending \/ ReadSpent \/ CheckTip

Writes == \/ Rollback \/ AddTxs \/ InsertReceived \/ RemoveExpired \/ ConfirmCoins
          \/ UnspendExpired \/ SpendCoins \/ ConfirmSpend \/ UpdateFromSelf \/ SetTip

Node == ChainNext /\ UNCHANGED pollerVars

Poll == StartPoll \/ Queries \/ Writes \/ FinishPoll

Next == Node \/ Poll \/ Crash

\* The thread keeps polling, and a poll that started keeps going.
Fairness == WF_vars(Poll)

Spec == Init /\ [][Next]_vars
FairSpec == Spec /\ Fairness

-----------------------------------------------------------------------------
\* "Having the tip in database means that, as far as the chain is concerned, we've
\* got all updates up to this block.  But not more." (looper.rs)

\* Not more: what the table says confirmed up to the tip is in the tip's chain.
NotMore ==
    \A c \in DOMAIN coins :
        /\ coins[c].height \in 0 .. Height(dbTip) =>
              HeightOn(TxOf[c], dbTip) = coins[c].height
        /\ coins[c].spendHeight \in 0 .. Height(dbTip) =>
              /\ c \in Ins[coins[c].spendTx]
              /\ HeightOn(coins[c].spendTx, dbTip) = coins[c].spendHeight

\* A coinbase coin counts once it is mature.
MatureOn(t, b) == t \in Coinbase => Height(b) - HeightOn(t, b) + 1 >= Maturity

\* All updates: the coins and the spends of the tip's chain are in the table.
AllUpdates ==
    \A c \in Coin, t \in TxsOn(dbTip) :
        /\ t = TxOf[c] /\ MatureOn(t, dbTip)
              => c \in DOMAIN coins /\ coins[c].height = HeightOn(t, dbTip)
        /\ c \in Ins[t]
              => /\ c \in DOMAIN coins
                 /\ coins[c].spendTx = t
                 /\ coins[c].spendHeight = HeightOn(t, dbTip)

\* Both, as long as no poll was cut short: what a poll wrote before it died is there
\* above the tip, and may be wrong by the time the tip gets there.
NotMoreUnlessCrashed == crashes = 0 => NotMore
AllUpdatesUnlessCrashed == crashes = 0 => AllUpdates

\* The poller never panics: the database constraints hold whatever the node does
\* between two queries.
NeverPanics == pc # "Panicked"

\* An unconfirmed coin is from self only when all its unconfirmed ancestors spend
\* coins of the wallet alone (the coin selection relies on it).
FromSelfSound ==
    LET recorded == IF pc \in WriteStates THEN tip ELSE dbTip
    IN  \A c \in DOMAIN coins :
            coins[c].fromSelf /\ coins[c].height = NoHeight =>
                \A t \in Lineage[TxOf[c]] \ TxsOn(recorded) : Ins[t] # {} /\ Ins[t] \subseteq Coin

\* A row is only deleted when its transaction is not in the chain being recorded.
OnlyExpiredRemoved ==
    [][\A c \in DOMAIN coins \ DOMAIN coins' :
          coins[c].height = NoHeight /\ TxOf[c] \notin TxsOn(tip)]_coins

-----------------------------------------------------------------------------
\* Crashes or not, the wallet has every coin of the tip's chain, and a poll that ends
\* has marked the mature ones as confirmed.  (In the middle of a poll they need not be
\* marked: a rollback clears the height of a block that a crash left above the tip,
\* also if the chain it goes back to has the coin in a lower block.)
NothingLost ==
    \A c \in Coin : TxOf[c] \in TxsOn(dbTip) =>
        /\ c \in DOMAIN coins
        /\ pc = "Polled" /\ MatureOn(TxOf[c], dbTip) => coins[c].height # NoHeight

\* A confirmation is never invented: some block at that height holds the
\* transaction, in the active chain or in an abandoned one.
ConfirmedSomewhere ==
    \A c \in DOMAIN coins : coins[c].height # NoHeight =>
        \E b \in DOMAIN blocks :
            Height(b) = coins[c].height /\ TxOf[c] \in blocks[b].txs

\* The table says what the node says, of the chain and of the mempool (a spend is not
\* found on a chain that has only the genesis block).
InSync ==
    LET live == TxsOn(best) \cup mempool
    IN  /\ dbTip = best
        /\ DOMAIN coins = {c \in Coin : TxOf[c] \in live}
        /\ \A c \in DOMAIN coins :
              LET spenders == {t \in live : c \in Ins[t]}
              IN  /\ coins[c].height = HeightOn(TxOf[c], best)
                  /\ IF spenders = {} \/ Height(best) = 0
                     THEN coins[c].spendTx = NoTx
                     ELSE coins[c].spendTx \in spenders
                  /\ coins[c].spendHeight =
                        IF coins[c].spendTx \in Tx THEN HeightOn(coins[c].spendTx, best)
                                                   ELSE NoHeight

\* Once the node is quiet the wallet catches up with it, and stays so between polls.
CatchesUp ==
    <>[][FALSE]_chainVars => <>[](pc = "Idle" => InSync)

\* The wallet's confirmed history, as the readers of the tables see it: what is
\* recorded above the tip is not there yet.
Ledger == INSTANCE WalletLedger WITH
    ledgerTip <- dbTip,
    received <- [c \in Coin |->
        IF c \in DOMAIN coins /\ coins[c].height <= Height(dbTip)
        THEN coins[c].height ELSE NoHeight],
    spent <- [c \in Coin |->
        IF /\ c \in DOMAIN coins
           /\ coins[c].spendHeight \in 0 .. Height(dbTip)
        THEN [tx |-> coins[c].spendTx, height |-> coins[c].spendHeight]
        ELSE [tx |-> NoTx, height |-> NoHeight]]

\* The poller implements the ledger.
ImplementsLedger == Ledger!LedgerSpec
=============================================================================
