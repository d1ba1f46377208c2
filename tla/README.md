# Liana in TLA+

Specifications of the parts of this repository that several threads, a node and
a database change together, model-checked with TLC and, for what matters most,
proved with TLAPS. The reference is the Rust source; the repository's own words
("we've got all updates up to this block. But not more.") are what the
properties state.

## 1. The system

Liana is a Bitcoin wallet. `lianad` is its daemon: it keeps a SQLite database in
step with a Bitcoin node and answers commands over JSONRPC or, embedded in
`liana-gui`, over Rust calls.

| Component | Where | State | Operations | Hard because |
|---|---|---|---|---|
| Poller | `lianad/src/bitcoin/poller` | thread-local results of a poll | `poll`, `updates`, `update_coins`, `rescan_check`, `poll_forever` | the chain moves between two queries; the results are recorded in ten database transactions; the process may die between them |
| bitcoind backend | `lianad/src/bitcoin/mod.rs`, `bitcoin/d` | none; the node's | the queries of `BitcoinInterface` | conflicts, replacements, evictions, reorganisations, coinbase maturity |
| Electrum backend | `lianad/src/bitcoin/electrum` | a BDK wallet | the same queries, `sync_wallet` | the same, with a second copy of the wallet |
| Database | `lianad/src/database/sqlite` | tip, coins, transactions, wallet row, addresses, spends, labels | one transaction per call | foreign keys, derived flags (`is_from_self`), rollback |
| Commands | `lianad/src/commands` | none | addresses, rescan, spends, labels, lists | each takes several database accesses, and connections run them at the same time |
| Threads | `lianad/src/lib.rs`, `jsonrpc/server`, `bin/daemon.rs` | flag, channel of one message, connection counter | start, accept, handle, stop | they wait for each other; any may panic |
| liana | `liana/src` | none | descriptors, coin selection, signing | pure, over miniscript and amounts |
| Business installer | `liana-business`, `liana-connect` | WebSocket sessions, pending requests, caches, connect.json | login, logout, connect, request, retry, ping, close | four threads for each session, of which one may outlive its successor; timeouts, retries, late answers |
| GUI | `liana-gui`, `liana-ui` | views | messages of iced | starting and stopping the daemon and bitcoind |

How they interact: the poller and every command open their own connection to
the database; the node is behind one mutex, taken for each query; a command
that broadcasts a transaction sends the poller a message with a rendezvous
channel in it and waits for the answer; the main thread watches the poller and
the accept loop and stops both when one ends; a rescan is started by a command,
executed by the node and completed by the poller; a spend is made from the
poller's table of coins and from what the node says of its mempool, read one
transaction at a time. The business client shares nothing with lianad: its GUI
writes requests into a channel and reads caches and a channel of notifications
which the threads of the session fill.

What makes each correct:

- *Poller and database*: the confirmed coins and spends are exactly those of the
  chain of the recorded tip; no coin is lost to a reorganisation or a crash; no
  confirmation is invented; the database's constraints hold; the wallet catches
  up with a quiet node.
- *Rescan*: the wallet's date is a promise that everything since was seen.
- *Addresses*: whatever is handed out or seen on the chain is watched, and the
  indexes only grow.
- *Threads*: no command waits for ever, slots are given back, `stop` stops.
- *Drafts*: a signature that was accepted is not lost.
- *Spending*: a replacement satisfies the rules of the node it is to be sent to,
  whatever moved while it was computed; a spend pays for its ancestors too.
- *Search for a date*: it stays within the chain and finds the last block before
  the date, though times are not ordered and the chain moves.
- *Business client*: caches belong to the account of the session and are never set
  back; edits arrive in order; a lost connection is noticed; retries end.

`PROJECT.json` lists the hazards, each with its line and its properties.

## 2. Modules

| Module | Models | Uses |
|---|---|---|
| `Bitcoind` | the node (external) and the queries of `impl BitcoinInterface for d::BitcoinD` | |
| `WalletLedger` | abstract: what the poller promises about confirmations | `Bitcoind` |
| `Poller` | one poll, step by step, and the tables it writes | `Bitcoind`, `WalletLedger` |
| `PollerProofs` | proofs about `Poller`: what holds crash or not | `Poller` |
| `PollerLedgerProofs` | proofs about `Poller`: what the tables say of the chain of their tip, and that it implements `WalletLedger` | `PollerProofs` |
| `Rescan` | `startrescan`, the node's scan and `rescan_check` around `Poller` | `Poller` |
| `RescanProofs` | proofs about `Rescan` | `Rescan`, `PollerProofs` |
| `DerivIndex` | the derivation indexes and the watched addresses | |
| `DerivIndexProofs` | proofs about `DerivIndex` | `DerivIndex` |
| `Daemon` | the threads of lianad | |
| `DaemonProofs` | proofs about `Daemon` | `Daemon` |
| `SpendStore` | `updatespend` and `deletespend` over the table of drafts | |
| `BlockBefore` | `block_before_date` over a chain that moves | |
| `BlockBeforeProofs` | proofs about `BlockBefore` | `BlockBefore` |
| `Spending` | `createspend` and `rbfpsbt` | |
| `SpendProofs` | proofs about `SpendStore` and `Spending` | `SpendStore`, `Spending` |
| `WsClient` | the client of the business installer | |
| `WsClientProofs` | proofs about `WsClient` | `WsClient` |
| `MCPoller`, `MCPollerWorlds`, `MCRescan`, `MCComponents`, `MCWsClient` | instances for TLC | |

`MCComponents` puts the five modules of lianad that share no variable side by
side (`Daemon`, `DerivIndex`, `SpendStore`, `BlockBefore`, `Spending`): the variable
`part` says which of them moves, so that one run checks the sum of their states
and not the product. This loses nothing, since none reads what another writes; what
they share in the code (the derivation indexes of a spend's addresses, the table of
coins) is an input of the module that reads it.

### Bitcoind
Blocks are numbered as they arrive and carry their height and the set `anc` of
their ancestors, so that a chain is a set and "is b in the active chain" is
membership. `Mine` extends the active chain or replaces it by a branch with a
new tip; `Accept` replaces conflicting transactions of the mempool; `Evict`
drops one with its descendants. The wallet of the node (`known`) forgets
nothing. A query is an operator on one state of the node. The code makes
several RPCs for some queries; this is an abstraction: a query is
answered at one moment, and the node moves between queries only. Amounts,
addresses and block times are left out. Two details of the code that matter are
kept: `get_spender_txid` lists from one block below the coin's, which finds
nothing at height zero, and discards only spenders with exactly zero
confirmations, so that one with a negative number passes; the order of the list is
arbitrary, so `SpendingCoins` is a set of possible answers.

### Poller
`pc` names the next query or database transaction; the diagram is in the module.
`updated` is `UpdatedCoins`, `tip` is `latest_tip` or the common ancestor to go
back to, and `dbTip`, `coins`, `savedTxs` are the tables. Each query is an
action, each `db_exec` is an action, and the node acts between any two of them.
`AddTxs`, `InsertReceived`, `SpendCoins` and `ConfirmSpend` check the assertion or foreign key
of the code and panic the thread (`pc = "Panicked"`) when it fails. `Crash`
loses what the thread held and starts over from the tables.
`update_coins_from_self` loops until no row changes; `FromSelfCoins` is the
least set closed under its query, which is what the loop computes, since the
query is monotone. The lookup of an address that is not watched, which skips the
coin, is the subject of `DerivIndex` and does not happen here.

### Rescan
Adds to `Poller` the threads of the clients that ask for a rescan (one step per
access of the database or the node), the node's scan, which may be aborted, and
`rescan_check`. The wallet starts on a chain with a `History` that the node's
wallet did not watch. Heights stand for dates. A scan tells the wallet of the
transactions from its date up to the tip; one that is aborted, of those up to some
height, and nothing marks it as incomplete. `SeenSinceTimestamp` is the promise of
the wallet's date: the coins since then, confirmed once they are mature (`CoinsSeen`),
and what spent the coins that are there (`SpendsSeen`).

### DerivIndex
Each thread runs `getnewaddress`, `updatederivationindexes`, or sees an address
(the poller and the spend commands), with the read of an index and the write of it as
separate steps. `lookup` is the table of addresses.

### Daemon
The main thread, the poller, the accept loop and one handler per connection,
with the channel of one message between them. A poll is one step with a
beginning and an end. `unseen` and `looking` are history variables: the
broadcasts that no finished poll has seen. When main returns or panics the
process ends and all threads with it.

### SpendStore
One row at most for each draft. `update_spend` is asked, reads and merges, checks
the coins of a draft that is new, and stores: one step for each access of the
database. `raced` is a history variable: the drafts which a thread wrote while
another one was between its reading and its storing. The code loses signatures
there and says "best effort", so the properties leave those drafts out.

### BlockBefore
`times` are the times of the active chain's blocks; a block may follow if it is
later than the median of the last `Window`, as for bitcoind (11). Each turn of
the loop is a step, with the call to the node in it, and the chain grows or
loses its last block between two of them. The code reads the hash and then the
time of a block; that is one step here. When a height or a block that is asked for is gone
the code returns nothing, and `SearchInRange` says that it is never for want of
height.

### Spending
The state is the node (what is in blocks, what in the mempool), the table as the
last poll left it, and one command. The steps of a command are its accesses of the database
and its calls of `mempool_entry()` and `gettxspendingprevout`, and node and poller move between any two. Sizes
are virtual bytes; a spend's size is a base, its inputs and its outputs. Of
`select_coins_for_spend` the module has the weights of the candidates with what
their ancestors lack, the target, the change policy and the condition to stop;
the selection may be any set of candidates that meets these, because that is
what is known of the solver. In `bdk_coin_select` the least change depends on the
feerate and the long-term feerate; here it is a constant above the dust limit.
What the command was told of ancestors and descendants is kept in it for the
properties. Once a command has all it needs the others stand still
(`HasRead`), since nothing it does later depends on them.

### WsClient
`sess` holds the sessions, of which the client refers to the last. A session has
its thread (`th`: taking the token, the handshake, the loop), the request channel
(`queue`), the requests waiting for an answer (`sent`), the messages on their way
(`up`, `down`), the message in hand, its ping thread and the requests its timeout
checker found stale. Messages have identities as in the code; an identifier is
the least one not in use, which for random ones is the same up to renaming. Of
the notifications the module keeps the four the GUI acts on, and of the stream
that carries them whether it is going to be polled (`awake`): `send_notif` wakes it,
the bare send in the checker of pings does not. The server is external:
it carries out requests in order, pushes, refuses, answers oddly or not at all,
and closes. `strayed`, `resent` and `lost` are history variables that say when
a session strayed, a request was sent again, and the server denied an answer. A
session strays when it is left behind without being told, and also when one is
opened over caches that are not empty (`Remains`): only `logout()` clears them, so
after a session that ended by itself a login without a logout shows the data of the
account before. The run's budgets do not reach that login; it was found when
`OwnData` was to be proved, and nothing is promised after it.

## 3. Runs

Every bound is a constant in the `.cfg`. "Blocks" counts the genesis block, so
that three blocks allow one reorganisation and four allow two.

| Run | Instance | Shows |
|---|---|---|
| `PollerWorlds` | one of three worlds. *pair*: a deposit and its spend with change, 4 blocks, 2 reorganisations. *mature*: two conflicting deposits and a coinbase of maturity 2, 3 blocks, one reorganisation. *chained*: a deposit, its spend, and a spend of the change with somebody else's input (the only one evicted from the mempool), 3 blocks, one reorganisation | `Poller` implements `WalletLedger`: the visible ledger moves from one tip to an ancestor or a descendant of it, and is exactly that chain's; `AllUpdates` at the maturity boundary; a row is only deleted if its transaction is not in the chain being recorded; `is_from_self` is sound through two unconfirmed generations |
| `PollerSpend` | a deposit and two conflicting spends with change; 3 blocks, one reorganisation, one crash | `NothingLost` (the wallet has every coin of the tip's chain, confirmed when a poll ends), `ConfirmedSomewhere` and no failed constraint, crash or not; `NotMore` and `AllUpdates` as long as there was no crash |
| `PollerLive` | a deposit and two conflicting spends; 3 blocks, one reorganisation | once the node is quiet the tables agree with it between polls |
| `Rescan` | a chain of two blocks before the wallet, with a deposit and its spend, and two blocks to come, with a coinbase coin of maturity 2; one client, two dates, one restart, one abort | the date of the wallet is honest, of coins and of spends, unless a scan was aborted; a recorded rescan is completed |
| `Components` | *daemon*: three clients, two slots, three broadcasts, one panic. *indexes*: two threads, look-ahead 3, indexes to 4. *drafts*: two threads, one draft, two signers. *search*: up to seven blocks with six times, a median of three, one reorganisation. *spending*: a deposit of three coins, a payment of two with change, a child of the change, a conflicting payment | slots are counted, a broadcast that returns was seen by a poll, a command that waits returns, `stop` ends the process; the window of watched addresses has no hole, and the indexes grow; signatures are kept; the search ends, within the chain, at the last block before the date, and skips only outliers; a replacement pays more than what it evicts and at a better rate, and conflicts with what it replaces; a spend pays for the ancestors of each of its coins |
| `WsClient` | two accounts, two organisations, one wallet; eight budgets of what the environment may do (in `MCWsClient`), each about one question: edits sent again, a request given up, foreign edits and refusals, a lost connection, logouts and logins | caches hold what the session's account may see and are not set back; what they lack is asked for; edits are applied in order; a request waits only for an answer that is coming; a close by the server ends the session and reaches the GUI |

Six runs end in a violation, each a disagreement of the code with its own
comments, told in `findings`:

| Run | Against |
|---|---|
| `PollerPanic` | a confirmed spend that replaced the one found first is not among the saved transactions: a foreign key fails and the poller panics |
| `PollerStale` | a crash between `confirm_coins` and `update_tip`, then a reorganisation, leaves a confirmation that nothing undoes |
| `RescanRace` | two `startrescan` at once: the recorded date is not the scanned one |
| `DerivIndexNew` | two `getnewaddress` at once return one address |
| `RbfFee` | a transaction that spends two coins is replaced: its fee and those of its descendants count twice |
| `WsRetries` | a request that times out becomes two entries, each with its own count of retries, and is put on the wire more than four times |

Why these bounds: with three blocks a branch of one block is replaced by another,
whatever was read or written in between; with four the common ancestor need
not be the genesis block, so that a rollback keeps something, and the wallet may
see three branches. Two conflicting transactions are needed for a
replacement, three related ones for a chain of unconfirmed parents. One crash
is enough for any inconsistent state a crash can leave, since the recovery is
an ordinary poll; a second one would add crashes during recovery, which has the
same steps. Two threads show every race on a read-then-write of one
row. Three clients on two slots make the accept loop wait, and with the main
thread make two senders wait for a channel that is full.
Seven blocks make the bisection turn three times, and a median of three admits a block
that is earlier than its parent. The sizes, fees and feerates of *spending* are
chosen so that each rule decides somewhere: the replaced fees or the feerate, change
or none, ancestors that pay too little or enough, a cancellation that fails at
first. In `WsClient` one round of the timeout checker finds one request stale
(`MaxStale`); rounds that find several differ in that a later one of them may be
answered while the first is sent again, and are left to the proofs, which hold for any
`MaxStale`. `MaxRetries` is 1 where
nothing depends on it and 3 in `WsRetries`.

`PollerPanic` needs a spend without change: with one, the conflicting spend's own
coin brings its transaction into the table, which is why `PollerSpend` does not panic.

Four behaviours found with the same modules and not kept as runs: a
reorganisation between `updates()` and `rescan_check()` of one poll violates
`NotMore` (`Rescan` with one deposit, no `History`, `MaxBlocks = 5`, `MaxReorgs = 1`
and `Time = {2}`); blocks that arrive between the two make the block before the date
one ahead of the recorded tip, and the "rollback" to it skips the blocks in between,
whose coins are never looked for: `SeenUnlessAborted` fails with no `History`,
`MaxBlocks = 4` and `Time = {2}`, which is why the dates of the run `Rescan` are not
later than the wallet's first one; an aborted scan violates
`SeenSinceTimestamp`, which the comment at `looper.rs:350` admits; after a panic of
the poller, `stop()` panics as well instead of returning the error
(`main = "panicked"` is reachable in `Daemon`), and a handler that panics
neither stops the daemon nor gives its slot back.

One property had to be weakened while it was proved. That a coin of the tip's chain
has a height at every moment, and not only when a poll ends, holds in `PollerSpend` and
fails with six blocks, two reorganisations and one crash: the crash leaves the height
of a block above the recorded tip, and the next poll's rollback clears it although the
chain it goes back to has the transaction in a lower block. The poll that clears it
records it again before it records its tip, which is what `NothingLost` now says.

Checking of deadlocks is off in `Components`, where the process of `Daemon` really
ends, and in `WsClient`, where the budget of the environment runs out.
`Poller` and `Rescan` never stop in the runs that pass: a poll can always start.
`PartsTypeOK` of `MCComponents` is the conjunction of the five type invariants.

### Fairness
- `Poller!Fairness`: the thread goes on (`poll_forever` never returns but on
  shutdown). The node owes nothing: `CatchesUp` assumes that it stops moving.
- `RescanFairness`: the poller, the steps of a command that has begun, and the
  end of the node's scan (bitcoind ends or aborts it). Clients need not ask.
- `Daemon`: weak fairness for the poller and each handler (`CommandFairness`), that is an
  operating system which schedules them and a backend which answers the poller.
  `StopStops` supposes it of the main thread and the accept loop too, as its premise, and that
  nothing panics. Clients need not send,
  close or connect. Which of several blocked senders gets the channel is not
  fair in the model; the number of broadcasts is bounded instead, so starvation
  of one sender by an endless supply of others is not covered.
- `BlockBefore!SearchFairness`: the thread goes on. Nothing is asked of the chain,
  which may grow meanwhile: `endHeight` does not.
- `WsFairness`: the thread of each session and its timers run, the server carries out
  what it received, and the executor polls the stream of notifications once it was
  woken. Weak fairness is enough, as these threads block on nothing but
  themselves. Nothing is asked of the user, nor of what goes wrong. The thread
  prefers requests to messages (`select!` with `default`), which is a guard, not
  fairness.

## 4. Proofs

Everything here holds for any sets of transactions, threads, accounts and any values of the
bounds that satisfy the named assumptions (`WalletAssumption`, `CrashesAssumption`,
`RescanAssumption`, `HistoryAssumption`, `DerivAssumption`, `DaemonAssumption`, `BlockBeforeAssumption`,
`WsClientAssumption`, `SpendStoreAssumption`, `SpendingAssumption`, `FeesAssumption`),
which TLC evaluates in the runs of the modules that declare them. Six of them say
more than types. `WalletAssumption` asks that a transaction has finitely many inputs
and spends no output of its own, as its identifier is a hash of its inputs;
`RescanAssumption` that no transaction is in two blocks of the `History`, and
`HistoryAssumption` that no two of its transactions spend the same output and that each
comes after what it spends, both rules of consensus;
`WsClientAssumption` that users and wallets are finitely many, as a handler asks for
each it misses; `SpendingAssumption` that transactions and coins are finitely many and that
one that signals for RBF has an input, as `is_explicitly_rbf()` looks at their sequences;
`FeesAssumption` that no transaction makes more than it spends, a rule of consensus. Each invariant below was checked by TLC on the instance of its run
before it was proved.

`DerivIndexProofs`: `Typed`, `Covered`, `NoPanic`, `Watched`, `Grow`.
The invariant is the conjunction of the type invariant, of `Coverage` (the table
holds exactly the addresses up to the highest index plus the look-ahead), of the fact
that no thread has panicked and that one about to return an address holds an
index, and of the fact that every index handed out is below the current one.
The parts need each other: that an insertion does not collide follows from
`Coverage`, and `Coverage` is only preserved if it does not. That the window is
computed from the indexes as they are in the transaction, and never from what the
thread read before, is what makes the proof go through with any number of
threads. `Grow` is an action property and follows from the guard of the write.

`PollerProofs`: `Typed` and `Confirmed` (`ConfirmedSomewhere`). The
invariant `IInv` has four parts: `ChainInv`, about the tree of blocks (ancestors
are blocks, a block is its own ancestor, numbers are below `MaxBlocks`);
`ControlInv`, the types of the thread's control; `CoinsInv`, that each recorded
confirmation is backed by a block; and `UpdatedInv`, that each confirmation which is only in
`updated` is backed by one as well. `UpdatedInv` is needed because the query and the
write are separate steps and the node moves in between: the block that was on
the active chain when it was read may be abandoned when it is written, which is
why the property speaks of some block and not of the active chain. Blocks are
never forgotten, so both survive the node's steps.

`PollerLedgerProofs`: `NoMore` (`NotMoreUnlessCrashed`), `AllThere`
(`AllUpdatesUnlessCrashed`), `AllThereWithoutCrash` (`AllUpdates`), `FromSelf`
(`FromSelfSound`), `NoneLost` (`NothingLost`), `OnlyExpiredGo` (`OnlyExpiredRemoved`,
an action property), `Implements` (`ImplementsLedger`, the refinement) and `NoPanic`. A poll is
a dozen queries and ten writes, with the node moving in between, so the invariant
`PollInv` relates every label of `pc` to a chain. It rests on these:

- *A node never returns to a tip it left.* Blocks are numbered as they arrive and
  the best one only grows. `updates()` reads the tip before it reads anything else and
  again at the end; if both are the same block, all that was read in between is of
  one chain (`TreeInv`: chains are nested, a transaction is on a chain once, after its
  parents and with no conflicting one, so that an output has one spender there).
  Until the second reading the invariant only says what `updated` holds *if* the node
  is still at that tip.
- *Writing.* The chain written is a continuation of the recorded one (otherwise the
  poll rolled back first), so up to the recorded height nothing is disturbed, and each
  write establishes its part of what the chain says above it. The rollback is the
  converse: what is above the common ancestor goes, and nothing else.
- *Coins from self.* The marked coins are the least set closed under the query.
  An unconfirmed coin outside of the sound ones gives a smaller closed set, hence a
  contradiction: the induction over generations is not needed.
- *After a crash* the table may hold heights above its tip. What survives is that
  each coin of the tip's chain has a row and each row that is confirmed below the tip is
  found again; that is `NothingLost`.

`NoPanic` (`NeverPanics`) supposes `LeavesChange`: whatever spends a coin of the wallet has
an output of the wallet, as in the instance of `PollerSpend` and not in that of
`PollerPanic`. `SavedInv` says that the transactions the rows refer to are saved, and that
what a poll found is known to the node until it is saved. It is not enough for
`confirm_spend`, whose transaction may be none of those found: with `LeavesChange` it
has a coin in the chain that was read, which by `ReceivedInv` has a row by then, and so
it is saved. No crash matters, since `ReceivedInv` does not depend on one.

`AllUpdates`, `FromSelfSound` and the refinement are proved for `MaxCrashes = 0`, as
they are run: `PollerStale` shows what a crash breaks. `NotMoreUnlessCrashed` and
`AllUpdatesUnlessCrashed` say the same up to the first crash, for any `MaxCrashes`.

`RescanProofs`: `RescanTyped` (`RescanTypeOK`), `RescanConfirmed` (`ConfirmedSomewhere`),
`RescanDateSet`, `RescanNotMore` and `Seen` (`SeenUnlessAborted`). The
labels of `rescan_check` are not the poller's, so that the invariant of `PollerProofs`
is split: `TablesInv` is what it says of the chain and the tables, at any label; a step
of a poll keeps it by the lemmas there, and the other steps by those of this module.

The first three hold without a condition: for any number of clients, restarts, aborts
and reorganisations. `RescanConfirmed`: the second `updates()` of a rescan records no
confirmation that no block has. `RescanDateSet`: `complete_wallet_rescan`, which says that
it panics without a date, always has one (`DateInv`), as `rescan_check` alone
removes it; it need not be the date that was read (`RescanRace`).

`RescanNotMore` is `NotMore` until the first reorganisation (section 3 tells what one may
break), for any number of clients, aborts and restarts. Coins come from `TablesInv` and
`LinearInv` (block b is at height b, and no two blocks share a transaction: an assumption
on `History` and a fact on later blocks, `ValidOn`). Spends need `SpendsInv`: a spend that is
recorded or about to be is in a block at its height, and no write replaces or forgets a
confirmed one, since only coins without one are asked about.

`Seen` holds until the first reorganisation too, and supposes `Undisturbed`: one client
(`RescanRace`) and no date after the wallet's first (the behaviours of section 3).
Restarts, aborts, blocks, coinbase coins and the history are as many as one likes.
`SeenUnlessAborted` relates the date, the tip and the rows;
`PromiseInv` says how the coins get there, `SightInv` how the spends do:

- `ScanInv`: the node knows all since the wallet's date, and a date is recorded only once
  the node is scanning from it or has done so. `rescan_check` therefore finds the scan
  over and the date still there.
- `PlaceInv`: the tip of a poll is not behind the recorded one; the rollback of a rescan
  goes back, to a block before its date.
- `SeenInv`: what is due up to the recorded tip is among the rows, and what is mature
  there (`Ripe`) confirmed; what is due up to the poll's tip is first found, then among
  the rows and not to be removed, then confirmed if it is mature, and only then is the
  tip recorded.
- `ValidInv`: the blocks of the chain are valid as a whole, so that a coin comes no later
  than its spend, and there is one.
- `KnowsInv`: the node knows the coins that the wallet has, and with something of a block all
  that comes after it, since a scan ends at the tip. So it knows the spends of the coins that
  the wallet has, also those before the wallet's date. An aborted scan breaks this, not only
  what is before the date.
- `ShownInv`: a spend up to the poll's tip is first found, maybe as a spend by a
  transaction that was replaced, then found confirmed by the one of the chain
  (`SpenderFound`), then recorded. A coin that is inserted is not spent up to the
  recorded tip, and a rollback forgets only what is above the block it goes back to.

`DaemonProofs`: `Typed`, `Slots` (`SlotsCounted`) and `Recorded`
(`BroadcastRecorded`, an action property). The invariant `IInv` says that the
connections with a handler are finitely many and the counter is their number, that the
connection held by the accept loop has no handler yet, and that a poller about to
reply answers a connection; without the last two a slot could be taken twice or
given back for no one. `AskInv`, used for `Recorded` only, says where a request can be: a
connection whose request is in the channel or being served waits for the answer, the
request is in one of those places and not in both, and the poll that serves it
began after the broadcast. It is what excludes an answer from a poll that had already looked.

`SpendProofs`, of the drafts: `Typed`, `Kept` (`SignaturesKept`) and `KeySigStays`
(`KeySigKept`, an action property). `SignaturesKept` is not inductive: that a thread
may store what it merged depends on nobody having written the draft since it
read. The invariant says so: as long as a draft is not raced, a thread that
found no row is still right, and one that is about to store holds all
the row has; and no thread forgets what it was given.

`SpendProofs`, of the commands: `SpendingTyped`, `Pays` (`ReplacementPays`), `Beats`
(`BeatsFeerate`), `Conflicts` (`Conflicting`) and `PaysForAncestors` (`PackagePays`),
for any transactions, sizes and feerates. They are about a transaction that was made, so
that the invariant (`CommandInv`) has to say what is known of the answers it is made from:

- `AncestorsPaid`: at the feerate asked for, what a coin adds to the size pays for what the
  fees of its ancestors do not; the division in `Extra` rounds the right way.
- `ReplacedCounted`: the fees that are added up are at least those of all that is
  evicted. A transaction with two inputs of the replaced one counts twice (`RbfFee`), which
  is too much and never too little: what is in both of two sets counts once in the sum
  over their union (`TotalUnion`). Here fees must not be negative. And the least
  feerate, the whole part of an entry's feerate and one, is above each of them.
- `PrevSelected`: the coins of the transaction to be replaced are all mandatory, or they are
  the only candidates, and a selection that meets its target is not empty.

The fee of what is made covers the fee asked for, for the outputs it really has, change or
not (`SpendPays`), and the four properties follow. What holds of sums over finite sets is
shown by a least counterexample among their subsets (`LeastSubset`), which the provers can
do, where an induction would need an operator as a parameter.

`BlockBeforeProofs`: `Typed`, `InRange` (`SearchInRange`), `Last` (`FoundLast`) and `Few`
(`SkippedAreFew`). Nothing is known of the blocks the search did not look at. The
invariant (`EndsKnown`) says what it knows of its two ends: the lower one is
before the date, or the first block; and above the upper one there is a block that
is not, or the upper one is the tip it began with and later than the date. It holds
while the chain grows, and as long as no block was lost. `Few` is what justifies the
comment in the code. A block is later than the median of the window before it
(`EachPastMedian`, which a reorganisation keeps). So when most of a window is not before
the date, neither is the next block: two majorities meet (`LateStaysLate`). Then most of the
next window is not before the date either, and so on up to the block that was found; but that
one is before it.

`WsClientProofs`: all safety properties of `WsClient`, for any number of sessions and
of retries, and for rounds of the timeout checker that find several requests stale.

- `SessionsGood`, the ground of the others: every session, live or over, is typed and
  `Good`. Before its loop it has nothing; a message is in hand in the loop only; an
  identifier on its way to the server is that of the request filed under it; what comes
  back with it answers that request, or denies it, as `lost` records; and one that is
  filed is on its way or its answer is. `TypesOK` (`WsTypeOK`) and `WaitsForWhatComes`
  (`SentIsOwed`) follow.
- `NeverOlder` (`CacheNotOlder`, an action property): messages of a session come in
  the order of revisions (`Ordered`), none is newer than what the server has, and
  none that a live session has still to handle is older than the cache (`RevInv`).
  The last needs that one session lives at a time (`LastLives`): two would race for
  the cache.
- `CachesAreOwn` (`OwnData`): a session asks for and hears of what its account may see.
  The hard case is the logout, which clears the caches while the thread runs on:
  nothing is in hand, or the run strays, and the request to close is in the queue,
  which the thread empties before it reads another message (`Closing`).
- `InOrder` (`EditsInOrder`, an action property): edits are numbered as they are made,
  the queue and the wire hold them in that order, all above what the server has
  applied (`Lined`).
- `NothingForgotten` (`MissingAreFetched`): that a missing user or wallet is asked for is not
  inductive, since a request is given up in the end. `FetchInv` says that it is in
  the queue, or filed with a retry left: a retry puts a copy in the queue which starts
  its own count, so that a request is given up only when a later copy of it is there.
  This is the other side of `WsRetries`.

Only model-checked: the liveness properties (`CatchesUp`, `RescanCompletes`,
`CommandsReturn`, `StopStops`, `SearchEnds`, `ServerCloseTold`), which are out of the
prover's reach; and `PartsTypeOK` as such, the conjunction of five type invariants that
are each proved in their modules. The least fixpoints of `FromSelfCoins` and `Ancestry` are
written as intersections of closed sets, without recursion.

## 5. What is left out, and why

- Amounts and fees outside `Spending`, addresses outside `DerivIndex`, and scripts:
  no property there distinguishes them.
- Errors of SQLite and of the RPC connection: the code panics or retries.
- The `electrum` path of `updates()`, and so `sync_wallet`, and the list of spenders
  of that client, which has no duplicates.
- `bitcoind` start-up, descriptor import and version checks: sequential.
- The finalisation of a draft to be broadcast, `create_recovery`, labels and list
  commands: single queries, or the same coin selection with other candidates.
- Which selection branch-and-bound takes, and descriptors, derivation and signing
  in the crate `liana`: pure functions over miniscript.
- JSONRPC framing and the embedded controller of the GUI.
- Of the business client: the thread that refreshes tokens and the file connect.json
  it shares with other processes; `edit_xpub` and `device_registered`, which go the
  way of `edit_wallet`; the last editors of users and organisations, which are
  fetched like those of wallets; the editor and its conflicts with what others edit.
- The GUI: most of the repository's lines are views and messages of iced whose
  state is one window's. They are not shared between threads, and a model of them
  would restate assignments.

## 6. Plan

Done: `Bitcoind`, `WalletLedger`, `Poller`, `Rescan`, `DerivIndex`, `Daemon`,
`SpendStore`, `BlockBefore`, `Spending`, `WsClient`, and the proofs of section 4.
What is left, in order:

1. `Electrum`: the poller with `sync_wallet`, against the same `WalletLedger`.
2. `TokenCache`: the refresh thread, the logins and the file connect.json.
3. `Editor`: the template the user edits against the one the server pushes
   (`check_modal_conflicts`).
4. `create_recovery` and the finalisation of `broadcastspend` in `Spending`.
5. `RpcFraming`: `read_command` over a stream cut anywhere.
6. Proofs: `NoPanic` under rescans, which repeat the updates of a poll.
