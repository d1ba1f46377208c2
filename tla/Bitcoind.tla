------------------------------ MODULE Bitcoind ------------------------------
(***************************************************************************)
(* The Bitcoin backend as lianad's bitcoind implementation of             *)
(* BitcoinInterface sees it: the tree of blocks, the active chain, the     *)
(* mempool and the transactions the watch-only wallet knows.               *)
(*                                                                         *)
(* The node is external: its actions are what any Bitcoin node may do (a   *)
(* block extends or replaces the active chain, a transaction enters the    *)
(* mempool by replacing those it conflicts with, one is dropped).  The     *)
(* queries are lianad's: lianad/src/bitcoin/mod.rs, `impl BitcoinInterface *)
(* for d::BitcoinD`, with the RPC helpers of bitcoin/d/mod.rs inlined.     *)
(*                                                                         *)
(* A transaction is a model value with the outpoints it spends; a coin is  *)
(* an outpoint of the wallet.  Amounts, addresses and block times are left *)
(* out.                                                                    *)
(***************************************************************************)
EXTENDS Integers, FiniteSets

CONSTANTS
    Tx,        \* transactions the wallet may come to know
    Outpoint,  \* transaction outputs, the wallet's and others'
    Coin,      \* the outpoints that belong to the wallet
    Ins,       \* Ins[t]: the outpoints transaction t spends
    TxOf,      \* TxOf[c]: the transaction that creates coin c
    Coinbase,  \* the coinbase transactions
    Maturity,  \* COINBASE_MATURITY
    MaxBlocks, \* bound: the blocks ever mined, the genesis block included
    MaxReorgs, \* bound: how often the tip is replaced by a block of another branch
    NoTx       \* Option::<Txid>::None

NoHeight == -1 \* Option::<BlockInfo>::None

ASSUME WalletAssumption ==
    /\ Coin \subseteq Outpoint
    /\ Ins \in [Tx -> SUBSET Outpoint]
    /\ TxOf \in [Coin -> Tx]
    /\ \A t \in Tx : IsFiniteSet(Ins[t])
    /\ \A c \in Coin : c \notin Ins[TxOf[c]] \* its id is a hash of its inputs
    /\ Coinbase \subseteq Tx
    /\ \A t \in Coinbase : Ins[t] = {}
    /\ NoTx \notin Tx
    /\ Maturity \in Nat
    /\ MaxBlocks \in Nat \ {0}
    /\ MaxReorgs \in Nat

VARIABLES
    blocks,  \* every block ever mined, numbered in the order they arrive
    best,    \* the tip of the active chain
    mempool, \* the transactions of the mempool
    known,   \* the transactions of the watch-only wallet: it forgets none
    reorgs

chainVars == <<blocks, best, mempool, known, reorgs>>

Block == [height : Nat, anc : SUBSET Nat, txs : SUBSET Tx]

ChainTypeOK ==
    /\ blocks \in [DOMAIN blocks -> Block]
    /\ DOMAIN blocks \subseteq 0 .. MaxBlocks - 1
    /\ best \in DOMAIN blocks
    /\ mempool \subseteq Tx
    /\ known \subseteq Tx
    /\ reorgs \in 0 .. MaxReorgs

-----------------------------------------------------------------------------
(* Chains.  `anc` holds a block and all its ancestors, so that a chain is   *)
(* the `anc` of its tip.                                                    *)

Chain(b) == blocks[b].anc
Height(b) == blocks[b].height
TxsOn(b) == UNION {blocks[a].txs : a \in Chain(b)}

\* The height at which the chain of b holds t.
HeightOn(t, b) ==
    IF t \in TxsOn(b)
    THEN Height(CHOOSE a \in Chain(b) : t \in blocks[a].txs)
    ELSE NoHeight

\* The last block two chains share.
ForkPoint(a, b) ==
    CHOOSE f \in Chain(a) \cap Chain(b) :
        \A g \in Chain(a) \cap Chain(b) : Height(g) <= Height(f)

Conflicts(t, u) == t # u /\ Ins[t] \cap Ins[u] # {}

Parents(t) == {TxOf[c] : c \in Ins[t] \cap Coin}

\* t and every wallet transaction it descends from.
Lineage == [t \in Tx |->
    {u \in Tx : \A S \in SUBSET Tx :
        (t \in S /\ \A v \in S : Parents(v) \subseteq S) => u \in S}]

\* S may be mined on top of b, or wait in the mempool of a node at b.
ValidOn(S, b) ==
    /\ S \cap TxsOn(b) = {}
    /\ \A t \in S, u \in S \cup TxsOn(b) : ~Conflicts(t, u)
    /\ \A t \in S : \A p \in Parents(t) :
          \/ p \in (S \cup TxsOn(b)) \ Coinbase
          \/ /\ p \in TxsOn(b)
             /\ Height(b) + 1 - HeightOn(p, b) >= Maturity

\* The largest valid mempool among the candidates.
Settled(candidates, b) ==
    UNION {S \in SUBSET (candidates \ Coinbase) : ValidOn(S, b)}

-----------------------------------------------------------------------------
ChainInit ==
    /\ blocks = [b \in {0} |-> [height |-> 0, anc |-> {0}, txs |-> {}]]
    /\ best = 0
    /\ mempool = {}
    /\ known = {}
    /\ reorgs = 0

\* A new block becomes the tip: it extends the active chain (parent = best) or
\* another branch.  A tip is always new, because a node only leaves a chain for
\* one with more work.  Transactions of the abandoned blocks go back to the
\* mempool when they are still valid.
Mine(parent, txs) ==
    LET new == Cardinality(DOMAIN blocks)
        block == [height |-> Height(parent) + 1,
                  anc    |-> Chain(parent) \cup {new},
                  txs    |-> txs]
    IN  /\ new < MaxBlocks
        /\ parent \in DOMAIN blocks
        /\ parent = best \/ reorgs < MaxReorgs
        /\ best' = new
        /\ blocks' = [b \in DOMAIN blocks \cup {new} |->
                         IF b = new THEN block ELSE blocks[b]]
        /\ Cardinality(txs \cap Coinbase) <= 1
        /\ txs \cap Coinbase \cap known = {}
        /\ ValidOn(txs, parent)
        /\ \E candidates \in {mempool \cup TxsOn(best)} :
              mempool' = Settled(candidates, best)'
        /\ known' = known \cup txs \cup mempool'
        /\ reorgs' = IF parent = best THEN reorgs ELSE reorgs + 1

\* t enters the mempool; the transactions it conflicts with, and what descends
\* from them, leave it.
Accept(t) ==
    LET kept == Settled({u \in mempool : ~Conflicts(t, u)}, best)
    IN  /\ UNCHANGED <<blocks, best, reorgs>>
        /\ t \notin Coinbase \cup mempool
        /\ known' = known \cup {t}
        /\ ValidOn(kept \cup {t}, best)
        /\ mempool' = kept \cup {t}

\* t and its descendants are dropped from the mempool (expired, or evicted).
Evict(t) ==
    /\ t \in mempool
    /\ mempool' = Settled(mempool \ {t}, best)
    /\ UNCHANGED <<blocks, best, known, reorgs>>

ChainNext ==
    \/ \E parent \in DOMAIN blocks, txs \in SUBSET Tx : Mine(parent, txs)
    \/ \E t \in Tx : Accept(t) \/ Evict(t)

-----------------------------------------------------------------------------
(* The queries of BitcoinInterface, each answered from one state of the node. *)

IsInChain(b) == b \in Chain(best)
CommonAncestor(b) == ForkPoint(b, best)

\* t conflicts, itself or through an ancestor, with a block at or below h.
ConflictedBelow(t, h) ==
    \E a \in Lineage[t], u \in TxsOn(best) :
        Conflicts(a, u) /\ HeightOn(u, best) <= h

Confirmations(t) == Height(best) - HeightOn(t, best) + 1

\* `listsinceblock`: what confirmed above height h, what is unconfirmed, in the
\* mempool or not, and what a block above h conflicts with.
ListedSince(h) ==
    {t \in known : IF t \in TxsOn(best) THEN HeightOn(t, best) > h
                                        ELSE ~ConflictedBelow(t, h)}

\* received_coins(tip): with the "immature" category of each coin.
ReceivedCoins(tip) ==
    LET listed == {c \in Coin :
            /\ TxOf[c] \in ListedSince(Height(ForkPoint(tip, best)))
            /\ TxOf[c] \in Coinbase => TxOf[c] \in TxsOn(best)}
    IN  [c \in listed |->
            TxOf[c] \in Coinbase /\ Confirmations(TxOf[c]) <= Maturity]

\* A bug: COINBASE_MATURITY confirmations are one too few.
MaturedLate(t) == t \in Coinbase => Confirmations(t) > Maturity

Matured(t) == t \in Coinbase => Confirmations(t) >= Maturity

\* Bugs: the height is one too high; only the mempool is looked at.
ConfirmedAbove(coins) ==
    [c \in {c \in coins : TxOf[c] \in TxsOn(best)} |-> HeightOn(TxOf[c], best) + 1]
NotInMempool(coins) == {c \in coins : TxOf[c] \in known \ mempool}

\* confirmed_coins(outpoints): an immature coinbase coin is in neither result.
ConfirmedCoins(coins) ==
    [c \in {c \in coins : TxOf[c] \in TxsOn(best) /\ Matured(TxOf[c])} |->
        HeightOn(TxOf[c], best)]

ExpiredCoins(coins) ==
    {c \in coins : TxOf[c] \in known \ (TxsOn(best) \cup mempool)}

\* is_spent: `gettxout` finds no unspent output, mempool included.
IsSpent(c) ==
    \/ TxOf[c] \notin TxsOn(best) \cup mempool
    \/ \E u \in TxsOn(best) \cup mempool : c \in Ins[u]

\* get_spender_txid: the first listed transaction that spends c.  An unconfirmed
\* one with wallet conflicts must be in the mempool; one that a block conflicts
\* with has a negative number of confirmations, which passes the check.  There is
\* no block to list from below the genesis block.  The order of the list is
\* arbitrary: all the answers it may give.
Spenders(c) ==
    LET since == IF TxOf[c] \in TxsOn(best) THEN HeightOn(TxOf[c], best) - 1
                                            ELSE Height(best) - 1
        Unconfirmed(u) == u \notin TxsOn(best) /\ ~ConflictedBelow(u, Height(best))
        Replaced(u) == /\ Unconfirmed(u)
                       /\ \E v \in known : Conflicts(u, v)
                       /\ u \notin mempool
    IN  {u \in ListedSince(since) \ {TxOf[c]} :
            since >= 0 /\ c \in Ins[u] /\ ~Replaced(u)}

\* spending_coins(outpoints): a coin whose spender is not found is left out.
SpendingCoins(coins) ==
    LET found == {c \in coins : IsSpent(c) /\ Spenders(c) # {}}
    IN  {f \in [found -> Tx] : \A c \in found : f[c] \in Spenders(c)}

\* The confirmed spender of c that spent_coins finds for the pair <<c, u>>: u, or
\* a conflicting transaction of the wallet that spends c as well.
ConfirmedSpenders(c, u) ==
    IF u \in TxsOn(best) THEN {u}
    ELSE {v \in known \cap TxsOn(best) : Conflicts(u, v) /\ c \in Ins[v]}

\* spent_coins(pairs): the confirmed spends, with their height.
SpentCoins(pairs) ==
    UNION {{[coin |-> p[1], tx |-> v, height |-> HeightOn(v, best)] :
               v \in ConfirmedSpenders(p[1], p[2])} : p \in pairs}

ExpiredSpends(pairs) ==
    {p[1] : p \in {q \in pairs : /\ ConfirmedSpenders(q[1], q[2]) = {}
                                 /\ q[2] \notin mempool}}
=============================================================================
