-------------------------- MODULE PollerLedgerProofs --------------------------
(***************************************************************************)
(* That the tables say exactly what the chain of their tip says, for any     *)
(* set of transactions and coins, any maturity and any number of blocks and   *)
(* reorganizations; and that the database constraints hold if every spend     *)
(* leaves the wallet a coin.                                                 *)
(*                                                                         *)
(* The argument: a node never returns to a tip it left, so if its tip is the *)
(* same when a poll begins and ends to read, it was the same throughout,     *)
(* and all that was read is of one chain, which does not change any more.    *)
(* What is written while the tip of the table still is the old one belongs   *)
(* to a chain that continues the old one, so the blocks up to the old tip    *)
(* stay as they were.                                                       *)
(***************************************************************************)
EXTENDS PollerProofs

\* Chain b holds t at height h.
At(t, h, b) == \E a \in Chain(b) : Height(a) = h /\ t \in blocks[a].txs

\* The tree of blocks once more: chains are nested, heights differ on a chain, a
\* transaction is on a chain once, after its parents, and conflicts with none there.
\* The node knows all of them.
TreeInv ==
    /\ blocks[0].height = 0 /\ blocks[0].txs = {}
    /\ \A b \in DOMAIN blocks :
          /\ \A a \in Chain(b) : Chain(a) = {x \in Chain(b) : Height(x) <= Height(a)}
          /\ \A x, y \in Chain(b) :
                x # y => Height(x) # Height(y) /\ blocks[x].txs \cap blocks[y].txs = {}
          /\ \A t, u \in TxsOn(b) : ~Conflicts(t, u)
          /\ \A t \in blocks[b].txs : Parents(t) \subseteq TxsOn(b)
          /\ blocks[b].txs \subseteq known

-----------------------------------------------------------------------------
(* Chains. *)

\* Blocks are numbered, have heights, and are on chains of blocks.
LEMMA BlocksTyped ==
    ASSUME ChainInv, NEW b \in DOMAIN blocks
    PROVE  /\ {0, b} \subseteq Chain(b) /\ Chain(b) \subseteq DOMAIN blocks
           /\ Height(b) \in Heights /\ Height(b) \in Nat
           /\ blocks[b].txs \subseteq Tx
           /\ b \in Nat
<1>1. Chain(b) \subseteq DOMAIN blocks /\ Height(b) \in Heights
    BY Chains
<1>2. {0, b} \subseteq Chain(b)
    BY DEF ChainInv, Chain
<1>3. blocks[b].txs \subseteq Tx /\ b \in Nat
    BY WalletAssumption DEF ChainInv, ChainTypeOK, Block
<1>4. Height(b) \in Nat
    BY <1>1, WalletAssumption DEF Heights
<1>5. QED BY <1>1, <1>2, <1>3, <1>4

\* The chain of a block on chain b is the part of chain b up to it.
LEMMA ChainBelow ==
    ASSUME ChainInv, TreeInv, NEW b \in DOMAIN blocks, NEW a \in Chain(b)
    PROVE  /\ a \in DOMAIN blocks
           /\ Height(a) <= Height(b)
           /\ Chain(a) \subseteq Chain(b)
           /\ TxsOn(a) \subseteq TxsOn(b)
           /\ \A t, h : At(t, h, a) <=> At(t, h, b) /\ h <= Height(a)
<1>1. a \in DOMAIN blocks
    BY BlocksTyped
<1>2. /\ Chain(a) = {x \in Chain(b) : Height(x) <= Height(a)}
      /\ Chain(b) = {x \in Chain(b) : Height(x) <= Height(b)}
    BY BlocksTyped DEF TreeInv
<1>3. TxsOn(a) \subseteq TxsOn(b)
    BY <1>2 DEF TxsOn
<1>4. \A t, h : At(t, h, a) <=> At(t, h, b) /\ h <= Height(a)
    BY <1>2 DEF At
<1>5. QED BY <1>1, <1>2, <1>3, <1>4

\* A transaction of a chain has one height, which is positive.
LEMMA AtOn ==
    ASSUME ChainInv, TreeInv, NEW b \in DOMAIN blocks, NEW t
    PROVE  /\ t \in TxsOn(b) <=> \E h \in Heights : At(t, h, b)
           /\ \A h : At(t, h, b) => /\ h \in Heights /\ h \in Nat /\ 1 <= h
                                    /\ h <= Height(b)
                                    /\ t \in TxsOn(b) /\ t \in Tx
                                    /\ HeightOn(t, b) = h
<1>1. ASSUME NEW h, At(t, h, b)
      PROVE  /\ h \in Heights /\ h \in Nat /\ 1 <= h /\ h <= Height(b)
             /\ t \in TxsOn(b) /\ t \in Tx /\ HeightOn(t, b) = h
    <2>1. PICK a \in Chain(b) : Height(a) = h /\ t \in blocks[a].txs
        BY <1>1 DEF At
    <2>2. a \in DOMAIN blocks /\ 0 \in Chain(b) /\ h \in Heights /\ h \in Nat /\ t \in Tx
        BY <2>1, BlocksTyped
    <2>3. a # 0 /\ Height(0) = 0
        BY <2>1 DEF TreeInv, Height
    <2>4. h # 0
        BY <2>1, <2>2, <2>3 DEF TreeInv
    <2>5. t \in TxsOn(b)
        BY <2>1 DEF TxsOn
    <2>6. \A x \in Chain(b) : t \in blocks[x].txs => x = a
        BY <2>1 DEF TreeInv
    <2>7. HeightOn(t, b) = h
        BY <2>1, <2>5, <2>6 DEF HeightOn
    <2>8. h <= Height(b)
        BY <2>1, ChainBelow
    <2>9. QED BY <2>2, <2>4, <2>5, <2>7, <2>8
<1>2. ASSUME t \in TxsOn(b) PROVE \E h \in Heights : At(t, h, b)
    <2>1. PICK a \in Chain(b) : t \in blocks[a].txs
        BY <1>2 DEF TxsOn
    <2>2. At(t, Height(a), b)
        BY <2>1 DEF At
    <2>3. QED BY <1>1, <2>2
<1>3. QED BY <1>1, <1>2

\* Transactions on a chain are transactions.
LEMMA TxsOnTyped ==
    ASSUME ChainInv, NEW b \in DOMAIN blocks
    PROVE  TxsOn(b) \subseteq Tx
<1>1. \A a \in Chain(b) : blocks[a].txs \subseteq Tx
    BY BlocksTyped
<1>2. QED BY <1>1 DEF TxsOn

\* The parents of a transaction are on its chain, not above it.
LEMMA ParentsOn ==
    ASSUME ChainInv, TreeInv, NEW b \in DOMAIN blocks, NEW t, NEW h, At(t, h, b),
           NEW p \in Parents(t)
    PROVE  p \in TxsOn(b) /\ \E k \in Heights : k <= h /\ At(p, k, b)
<1>1. PICK a \in Chain(b) : Height(a) = h /\ t \in blocks[a].txs
    BY DEF At
<1>2. a \in DOMAIN blocks
    BY ChainBelow
<1>3. p \in TxsOn(a)
    BY <1>1, <1>2 DEF TreeInv
<1>4. PICK k \in Heights : At(p, k, a)
    BY <1>2, <1>3, AtOn
<1>5. QED BY <1>1, <1>3, <1>4, ChainBelow

\* A chain that has a spend has what it spends.
LEMMA SpentOn ==
    ASSUME ChainInv, TreeInv, NEW b \in DOMAIN blocks, NEW t \in TxsOn(b),
           NEW c \in Coin, c \in Ins[t]
    PROVE  TxOf[c] \in TxsOn(b)
<1>1. PICK h \in Heights : At(t, h, b)
    BY AtOn
<1>2. TxOf[c] \in Parents(t)
    BY DEF Parents
<1>3. QED BY <1>1, <1>2, ParentsOn

\* No chain spends an output twice.
LEMMA OneSpender ==
    ASSUME TreeInv, NEW b \in DOMAIN blocks, NEW t \in TxsOn(b), NEW u \in TxsOn(b),
           NEW c, c \in Ins[t], c \in Ins[u]
    PROVE  t = u
<1>1. ~Conflicts(t, u)
    BY DEF TreeInv
<1>2. QED BY <1>1 DEF Conflicts

\* Two chains fork at a block of both.
LEMMA ForkOn ==
    ASSUME ChainInv, NEW a \in DOMAIN blocks, NEW b \in DOMAIN blocks
    PROVE  ForkPoint(a, b) \in Chain(a) \cap Chain(b)
<1> DEFINE S == Chain(a) \cap Chain(b)
<1>1. S # {} /\ S \subseteq DOMAIN blocks
    BY BlocksTyped
<1>2. \A x \in S : Height(x) \in 0 .. MaxBlocks - 1
    BY <1>1, BlocksTyped DEF Heights
<1>3. \E f \in S : \A g \in S : Height(g) <= Height(f)
    <2>1. MaxBlocks - 1 \in Nat
        BY WalletAssumption
    <2> HIDE DEF S
    <2>2. QED BY <1>1, <1>2, <2>1, HighestExists
<1>4. QED BY <1>3 DEF ForkPoint

-----------------------------------------------------------------------------
(* The node. *)

\* Blocks arrive; the chains there are stay as they are.
LEMMA ChainsStay ==
    ASSUME ChainInv, Grows, NEW b \in DOMAIN blocks
    PROVE  /\ b \in DOMAIN blocks'
           /\ Chain(b)' = Chain(b) /\ Height(b)' = Height(b)
           /\ TxsOn(b)' = TxsOn(b)
           /\ \A t, h : At(t, h, b)' <=> At(t, h, b)
<1>1. b \in DOMAIN blocks' /\ Chain(b)' = Chain(b) /\ Height(b)' = Height(b)
    BY DEF Grows, Chain, Height
<1>2. \A a \in Chain(b) : blocks'[a] = blocks[a]
    BY BlocksTyped DEF Grows
<1>3. TxsOn(b)' = TxsOn(b)
    BY <1>1, <1>2 DEF TxsOn
<1>4. \A t, h : At(t, h, b)' <=> At(t, h, b)
    BY <1>1, <1>2 DEF At, Height
<1>5. QED BY <1>1, <1>3, <1>4

\* A mined block is new, and keeps the tree of blocks.
LEMMA MineKeepsTree ==
    ASSUME ChainInv, TreeInv, NEW parent \in DOMAIN blocks,
           NEW txs \in SUBSET Tx, Mine(parent, txs)
    PROVE  TreeInv' /\ best' \notin DOMAIN blocks
<1>1. PICK n \in 1 .. MaxBlocks : DOMAIN blocks = 0 .. n - 1
    BY DEF ChainInv
<1>2. n \in Nat /\ Cardinality(DOMAIN blocks) = n
    BY <1>1, WalletAssumption, FS_Interval
<1> DEFINE block == [height |-> Height(parent) + 1, anc |-> Chain(parent) \cup {n},
                     txs |-> txs]
<1>3. /\ best' = n /\ n \notin DOMAIN blocks /\ 0 \in DOMAIN blocks /\ n # 0
      /\ DOMAIN blocks' = DOMAIN blocks \cup {n}
      /\ blocks'[n] = block
      /\ ValidOn(txs, parent) /\ txs \subseteq known' /\ known \subseteq known'
    <2>1. /\ best' = n
          /\ blocks' = [b \in DOMAIN blocks \cup {n} |-> IF b = n THEN block ELSE blocks[b]]
          /\ ValidOn(txs, parent)
          /\ known' = known \cup txs \cup mempool'
        BY <1>2 DEF Mine
    <2>2. n \notin DOMAIN blocks /\ 0 \in DOMAIN blocks /\ n # 0
        BY <1>1, <1>2
    <2> HIDE DEF block
    <2>3. QED BY <2>1, <2>2
<1>4. Grows /\ blocks'[0] = blocks[0]
    BY <1>3, MineKeeps DEF Grows
<1>5. /\ Chain(n)' = Chain(parent) \cup {n}
      /\ Height(n)' = Height(parent) + 1
    BY <1>3 DEF Chain, Height
<1>6. \A a \in Chain(parent) : /\ a \in DOMAIN blocks /\ a # n
                               /\ blocks'[a] = blocks[a]
                               /\ Chain(a)' = Chain(a)
                               /\ Height(a)' = Height(a)
                               /\ Height(a)' < Height(n)'
    <2> TAKE a \in Chain(parent)
    <2>1. a \in DOMAIN blocks /\ Height(a) <= Height(parent)
        BY ChainBelow
    <2>2. Height(a) \in Nat /\ Height(parent) \in Nat
        BY <2>1, BlocksTyped
    <2>3. QED BY <1>3, <1>4, <1>5, <2>1, <2>2, ChainsStay DEF Grows
<1>7. TxsOn(n)' = TxsOn(parent) \cup txs
    <2>1. TxsOn(n)' = UNION {blocks'[a].txs : a \in Chain(parent) \cup {n}}
        BY <1>5 DEF TxsOn
    <2>2. QED BY <1>3, <1>6, <2>1 DEF TxsOn
<1>8. parent \in Chain(parent)
    BY BlocksTyped
<1> DEFINE Good(b) ==
        /\ \A a \in Chain(b) : Chain(a) = {x \in Chain(b) : Height(x) <= Height(a)}
        /\ \A x, y \in Chain(b) :
              x # y => Height(x) # Height(y) /\ blocks[x].txs \cap blocks[y].txs = {}
        /\ \A t, u \in TxsOn(b) : ~Conflicts(t, u)
        /\ \A t \in blocks[b].txs : Parents(t) \subseteq TxsOn(b)
        /\ blocks[b].txs \subseteq known
<1>9. ASSUME NEW b \in DOMAIN blocks PROVE Good(b)'
    <2>1. Good(b)
        BY DEF TreeInv
    <2>2. /\ Chain(b)' = Chain(b) /\ TxsOn(b)' = TxsOn(b)
          /\ blocks'[b] = blocks[b]
        BY <1>4, ChainsStay DEF Grows
    <2>3. \A a \in Chain(b) : /\ Chain(a)' = Chain(a) /\ Height(a)' = Height(a)
                              /\ blocks'[a] = blocks[a]
        BY <1>4, BlocksTyped, ChainsStay DEF Grows
    <2>4. QED BY <1>3, <2>1, <2>2, <2>3
<1>10. Good(n)'
    <2>1. \A a \in Chain(n)' : Chain(a)' = {x \in Chain(n)' : Height(x)' <= Height(a)'}
        <3>1. Chain(n)' = {x \in Chain(n)' : Height(x)' <= Height(n)'}
            <4>1. Height(n)' <= Height(n)'
                BY <1>5, <1>8, BlocksTyped
            <4>2. \A x \in Chain(parent) : Height(x)' <= Height(n)'
                BY <1>5, <1>6, BlocksTyped
            <4>3. QED BY <1>5, <4>1, <4>2
        <3>2. ASSUME NEW a \in Chain(parent)
              PROVE  Chain(a)' = {x \in Chain(n)' : Height(x)' <= Height(a)'}
            <4>1. Chain(a) = {x \in Chain(parent) : Height(x) <= Height(a)}
                BY DEF TreeInv
            <4>2. Height(a) \in Nat /\ Height(parent) \in Nat
                BY <1>6, BlocksTyped
            <4>3. ~(Height(n)' <= Height(a)')
                BY <1>5, <1>6, <4>2
            <4>4. QED BY <1>5, <1>6, <4>1, <4>3
        <3>3. QED BY <1>5, <3>1, <3>2
    <2>2. txs \cap TxsOn(parent) = {}
        BY <1>3 DEF ValidOn
    <2>3. \A x \in Chain(parent) : /\ Height(x)' # Height(n)'
                                   /\ blocks'[x].txs \cap blocks'[n].txs = {}
        <3> TAKE x \in Chain(parent)
        <3>1. blocks'[x].txs \subseteq TxsOn(parent)
            BY <1>6 DEF TxsOn
        <3>2. Height(x) \in Nat /\ Height(parent) \in Nat
            BY <1>6, BlocksTyped
        <3>3. QED BY <1>3, <1>5, <1>6, <2>2, <3>1, <3>2
    <2>4. \A x, y \in Chain(n)' :
              x # y => /\ Height(x)' # Height(y)'
                       /\ blocks'[x].txs \cap blocks'[y].txs = {}
        <3>1. \A x, y \in Chain(parent) :
                  x # y => /\ Height(x)' # Height(y)'
                           /\ blocks'[x].txs \cap blocks'[y].txs = {}
            BY <1>6 DEF TreeInv
        <3>2. QED BY <1>5, <2>3, <3>1
    <2>5. \A t, u \in TxsOn(n)' : ~Conflicts(t, u)
        <3>1. \A t, u \in TxsOn(parent) : ~Conflicts(t, u)
            BY DEF TreeInv
        <3>2. \A t \in txs, u \in txs \cup TxsOn(parent) : ~Conflicts(t, u)
            BY <1>3 DEF ValidOn
        <3>3. QED BY <1>7, <3>1, <3>2 DEF Conflicts
    <2>6. \A t \in blocks'[n].txs : Parents(t) \subseteq TxsOn(n)'
        <3>1. \A t \in txs : \A p \in Parents(t) : p \in txs \cup TxsOn(parent)
            BY <1>3 DEF ValidOn
        <3>2. QED BY <1>3, <1>7, <3>1
    <2>7. blocks'[n].txs \subseteq known'
        BY <1>3
    <2>8. QED BY <2>1, <2>4, <2>5, <2>6, <2>7 DEF Conflicts, Parents
<1>11. \A b \in DOMAIN blocks' : Good(b)'
    BY <1>3, <1>9, <1>10
<1>12. QED BY <1>3, <1>4, <1>11 DEF TreeInv

\* Where no block is added and no transaction is forgotten, the tree is as it was.
LEMMA TreeStays ==
    ASSUME TreeInv, blocks' = blocks, known \subseteq known'
    PROVE  TreeInv'
<1>1. \A b : Chain(b)' = Chain(b) /\ Height(b)' = Height(b)
    BY DEF Chain, Height
<1>2. \A b : TxsOn(b)' = TxsOn(b)
    BY <1>1 DEF TxsOn
<1>3. blocks'[0].height = 0 /\ blocks'[0].txs = {} /\ DOMAIN blocks' = DOMAIN blocks
    BY DEF TreeInv
<1>4. ASSUME NEW b \in DOMAIN blocks
      PROVE  \A a \in Chain(b)' : Chain(a)' = {x \in Chain(b)' : Height(x)' <= Height(a)'}
    <2>1. \A a \in Chain(b) : Chain(a) = {x \in Chain(b) : Height(x) <= Height(a)}
        BY DEF TreeInv
    <2>2. QED BY <1>1, <2>1
<1>5. ASSUME NEW b \in DOMAIN blocks
      PROVE  \A x, y \in Chain(b)' :
                x # y => /\ Height(x)' # Height(y)'
                         /\ blocks'[x].txs \cap blocks'[y].txs = {}
    <2>1. \A x, y \in Chain(b) :
              x # y => Height(x) # Height(y) /\ blocks[x].txs \cap blocks[y].txs = {}
        BY DEF TreeInv
    <2>2. QED BY <1>1, <2>1
<1>6. ASSUME NEW b \in DOMAIN blocks
      PROVE  \A t, u \in TxsOn(b)' : ~Conflicts(t, u)
    <2>1. \A t, u \in TxsOn(b) : ~Conflicts(t, u)
        BY DEF TreeInv
    <2>2. QED BY <1>2, <2>1
<1>7. ASSUME NEW b \in DOMAIN blocks
      PROVE  \A t \in blocks'[b].txs : Parents(t) \subseteq TxsOn(b)'
    <2>1. \A t \in blocks[b].txs : Parents(t) \subseteq TxsOn(b)
        BY DEF TreeInv
    <2>2. QED BY <1>2, <2>1
<1>8. ASSUME NEW b \in DOMAIN blocks PROVE blocks'[b].txs \subseteq known'
    BY DEF TreeInv
<1>9. QED BY <1>3, <1>4, <1>5, <1>6, <1>7, <1>8 DEF TreeInv, Conflicts, Parents

\* The node moves on or stays, and forgets nothing.
LEMMA NodeKeepsTree ==
    ASSUME ChainInv, TreeInv, ChainNext
    PROVE  TreeInv' /\ (best' = best \/ best' \notin DOMAIN blocks)
<1>1. CASE \E parent \in DOMAIN blocks, txs \in SUBSET Tx : Mine(parent, txs)
    BY <1>1, MineKeepsTree
<1>2. CASE \E t \in Tx : Accept(t) \/ Evict(t)
    <2>1. /\ blocks' = blocks /\ best' = best
          /\ known \subseteq known'
        BY <1>2 DEF Accept, Evict
    <2>2. TreeInv'
        BY <2>1, TreeStays
    <2>3. QED BY <2>1, <2>2
<1>3. QED BY <1>1, <1>2 DEF ChainNext

-----------------------------------------------------------------------------
(* The invariant. *)

\* The confirmations of the table are those of chain b ...
RowsOn(b) ==
    \A c \in DOMAIN coins :
        /\ coins[c].height # NoHeight => At(TxOf[c], coins[c].height, b)
        /\ coins[c].spendHeight # NoHeight => At(coins[c].spendTx, coins[c].spendHeight, b)

\* ... and the table has those of chain b: its coins, ...
Present(b) == \A c \in Coin : TxOf[c] \in TxsOn(b) => c \in DOMAIN coins

\* ... the mature ones as confirmed, ...
MatureAt(t, h, b) == At(t, h, b) /\ (t \in Coinbase => Height(b) - h + 1 >= Maturity)

HasConfirmed(b) ==
    \A c \in Coin, h \in Heights :
        MatureAt(TxOf[c], h, b) =>
            c \in DOMAIN coins /\ coins[c].height = h

\* ... and their spends.
HasSpent(b) ==
    \A c \in Coin, t \in Tx, h \in Heights :
        At(t, h, b) /\ c \in Ins[t] =>
            c \in DOMAIN coins /\ coins[c].spendTx = t /\ coins[c].spendHeight = h

\* A coin is spent by a transaction that spends it.
LinkedInv ==
    \A c \in DOMAIN coins :
        /\ coins[c].spendTx # NoTx => c \in Ins[coins[c].spendTx]
        /\ coins[c].spendHeight # NoHeight => coins[c].spendTx # NoTx

-----------------------------------------------------------------------------
\* Stretches of a poll.
ToInsert == {"Confirmed", "Spending", "Spent", "Check", "AddTxs", "Insert"}
ToSetTip == ToInsert \cup WriteStates
ToRemove == (ToInsert \ {"Confirmed"}) \cup {"Remove"}
ToConfirm == ToRemove \cup {"Confirm"}
ToSpend == (ToConfirm \ {"Spending"}) \cup {"Unspend", "Spend"}
ToConfirmSpend == (ToSpend \ {"Spent"}) \cup {"ConfirmSpend"}
Recording == WriteStates \cup {"Panicked"}

\* What was read is of the chain of `tip`: the node is still there, or it was when
\* the poll ended to read.
Sound == best = tip \/ pc \in WriteStates

\* Where the tip of the table is relative to the one of the poll.
PlaceInv ==
    /\ pc = "Rollback" => tip \in Chain(dbTip)
    /\ pc \in {"Received"} \cup ToSetTip /\ Sound => dbTip \in Chain(tip)
    /\ pc = "Panicked" => dbTip \in Chain(tip)

\* What has been read and not yet written.
ReceivedInv ==
    /\ pc \in ToInsert => DOMAIN updated.received \cap DOMAIN coins = {}
    /\ pc \in ToSetTip /\ Sound =>
          \A c \in Coin : TxOf[c] \in TxsOn(tip) =>
              c \in DOMAIN coins \/ (pc \in ToInsert /\ c \in DOMAIN updated.received)

ConfirmedInv ==
    /\ pc \in ToRemove => \A c \in updated.expired \cap DOMAIN coins : coins[c].height = NoHeight
    /\ pc \in ToRemove /\ Sound => \A c \in updated.expired : TxOf[c] \notin TxsOn(tip)
    /\ pc \in ToConfirm /\ Sound =>
          \A c \in DOMAIN updated.confirmed : At(TxOf[c], updated.confirmed[c], tip)
    /\ pc \in ToSetTip \ {"Confirmed"} /\ Sound =>
          \A c \in Coin, h \in Heights : MatureAt(TxOf[c], h, tip) =>
              \/ pc \in ToConfirm /\ c \in DOMAIN updated.confirmed
              \/ c \in DOMAIN coins /\ coins[c].height # NoHeight

SpendingInv ==
    pc \in ToSpend =>
        \A c \in DOMAIN updated.spending :
            /\ c \in Ins[updated.spending[c]]
            /\ c \in DOMAIN coins => coins[c].spendHeight = NoHeight

SpentInv ==
    /\ pc \in ToConfirmSpend /\ Sound =>
          \A s \in updated.spent : s.coin \in Ins[s.tx] /\ At(s.tx, s.height, tip)
    /\ pc \in ToConfirmSpend \ {"Spend", "ConfirmSpend"} /\ Sound =>
          \A c \in updated.expiredSpending, t \in TxsOn(tip) : c \notin Ins[t]
    /\ pc \in {"Spent", "FromSelf", "SetTip"} \cup ToConfirmSpend /\ Sound =>
          \A c \in Coin, t \in TxsOn(tip) : c \in Ins[t] =>
              \/ pc = "Spent" /\ c \in DOMAIN updated.spending
              \/ pc \in ToConfirmSpend /\ \E s \in updated.spent : s.coin = c
              \/ c \in DOMAIN coins /\ coins[c].spendHeight # NoHeight

\* The table without crashes: exactly the chain of its tip, and what is being recorded
\* of the next.
LedgerInv ==
    crashes = 0 =>
        /\ RowsOn(IF pc \in Recording THEN tip ELSE dbTip)
        /\ HasConfirmed(dbTip)
        /\ HasSpent(dbTip)

\* At the end of a poll, crashes or not.
EndInv ==
    pc = "Polled" =>
        \A c \in Coin, h \in Heights : MatureAt(TxOf[c], h, dbTip) =>
            c \in DOMAIN coins /\ coins[c].height # NoHeight

\* A coin whose unconfirmed ancestors, as far as chain b does not hold them, spend
\* coins of the wallet alone.
OwnLineage(c, b) ==
    \A t \in Lineage[TxOf[c]] \ TxsOn(b) : Ins[t] # {} /\ Ins[t] \subseteq Coin

FromSelfInv ==
    crashes = 0 =>
        \A c \in DOMAIN coins : coins[c].fromSelf /\ coins[c].height = NoHeight =>
            OwnLineage(c, IF pc = "SetTip" THEN tip ELSE dbTip)

TableInv == /\ TreeInv /\ LinkedInv /\ Present(dbTip)
            /\ LedgerInv /\ EndInv /\ FromSelfInv

ReadInv == PlaceInv /\ ReceivedInv /\ ConfirmedInv /\ SpendingInv /\ SpentInv

PollInv == TableInv /\ ReadInv

-----------------------------------------------------------------------------
(* Steps that leave the table alone. *)

\* What the invariants say of the types.
LEMMA InvTypes ==
    ASSUME IInv, TreeInv
    PROVE  /\ ChainInv /\ Maps(coins, Row) /\ DOMAIN coins \subseteq Coin /\ UpdatedTypeOK
           /\ {dbTip, tip, best} \subseteq DOMAIN blocks
           /\ pc \in Labels /\ crashes \in 0 .. MaxCrashes
BY DEF IInv, ChainInv, ChainTypeOK, ControlInv, CoinsInv, UpdatedInv, Maps, Labels

\* What is said of the tips remains true.
LEMMA TipsStay ==
    ASSUME ChainInv, Grows, {dbTip, tip} \subseteq DOMAIN blocks,
           NEW b \in {dbTip, tip}
    PROVE  /\ Chain(b)' = Chain(b)
           /\ TxsOn(b)' = TxsOn(b)
           /\ \A t, h : At(t, h, b)' <=> At(t, h, b)
           /\ \A t, h : MatureAt(t, h, b)' <=> MatureAt(t, h, b)
BY ChainsStay DEF MatureAt

\* The node's steps keep the invariant of a poll.
LEMMA NodeStep ==
    ASSUME IInv, PollInv, Node
    PROVE  PollInv'
<1>1. TreeInv' /\ (best' = best \/ best' \notin DOMAIN blocks) /\ Grows
    BY NodeKeepsTree, NodeKeeps DEF Node, PollInv, TableInv, IInv
<1>2. UNCHANGED <<pc, dbTip, coins, savedTxs, tip, updated, crashes>>
    BY DEF Node, pollerVars, dbVars
<1>3. \A b \in {dbTip, tip} : /\ Chain(b)' = Chain(b)
                              /\ TxsOn(b)' = TxsOn(b)
                              /\ \A t, h : At(t, h, b)' <=> At(t, h, b)
                              /\ \A t, h : MatureAt(t, h, b)' <=> MatureAt(t, h, b)
    BY <1>1, TipsStay, InvTypes DEF PollInv, TableInv
<1>4. Sound' => Sound
    BY <1>1, <1>2, InvTypes DEF Sound, PollInv, TableInv
<1>5. LinkedInv' /\ Present(dbTip)'
    BY <1>2, <1>3 DEF PollInv, TableInv, LinkedInv, Present
<1>6. LedgerInv' /\ EndInv'
    BY <1>2, <1>3 DEF PollInv, TableInv, LedgerInv, EndInv, RowsOn, HasConfirmed, HasSpent
<1>7. FromSelfInv'
    BY <1>2, <1>3 DEF PollInv, TableInv, FromSelfInv, OwnLineage
<1>8. PlaceInv' /\ ReceivedInv'
    BY <1>2, <1>3, <1>4 DEF PollInv, ReadInv, PlaceInv, ReceivedInv
<1>9. ConfirmedInv' /\ SpendingInv'
    BY <1>2, <1>3, <1>4 DEF PollInv, ReadInv, ConfirmedInv, SpendingInv
<1>10. SpentInv'
    BY <1>2, <1>3, <1>4 DEF PollInv, ReadInv, SpentInv
<1>11. QED BY <1>1, <1>5, <1>6, <1>7, <1>8, <1>9, <1>10 DEF PollInv, TableInv, ReadInv

\* A crash: what was read is gone, and so is what the tables promised without one.
LEMMA CrashStep ==
    ASSUME IInv, PollInv, Crash
    PROVE  PollInv'
<1>1. /\ UNCHANGED <<blocks, best, mempool, known, reorgs, dbTip, coins, savedTxs>>
      /\ pc' = "Idle" /\ crashes' = crashes + 1
    BY DEF Crash, GoTo, chainVars, dbVars
<1>2. crashes' # 0
    BY <1>1, InvTypes, CrashesAssumption DEF PollInv, TableInv
<1>3. TreeInv' /\ LinkedInv' /\ Present(dbTip)'
    BY <1>1 DEF PollInv, TableInv, TreeInv, LinkedInv, Present, TxsOn, Chain, Height,
                Conflicts, Parents
<1>4. LedgerInv' /\ EndInv' /\ FromSelfInv'
    BY <1>1, <1>2 DEF LedgerInv, EndInv, FromSelfInv
<1>5. ReadInv'
    BY <1>1 DEF ReadInv, PlaceInv, ReceivedInv, ConfirmedInv, SpendingInv, SpentInv,
                ToInsert, ToSetTip, ToRemove, ToConfirm, ToSpend, ToConfirmSpend, WriteStates
<1>6. QED BY <1>3, <1>4, <1>5 DEF PollInv, TableInv

\* A query says nothing new of the table.
LEMMA ReadTable ==
    ASSUME IInv, PollInv, NEW label \in Labels \ (Recording \cup {"Polled"}), Read(label),
           pc \notin Recording
    PROVE  TableInv'
<1>1. /\ UNCHANGED <<blocks, best, mempool, known, reorgs, dbTip, coins, savedTxs, crashes>>
      /\ pc' = label
    BY DEF Read, GoTo, chainVars, dbVars
<1>2. pc # "SetTip" /\ pc' # "SetTip" /\ pc' \notin Recording /\ pc' # "Polled"
    BY <1>1 DEF Recording, WriteStates
<1>3. TreeInv' /\ LinkedInv' /\ Present(dbTip)'
    BY <1>1 DEF PollInv, TableInv, TreeInv, LinkedInv, Present, TxsOn, Chain, Height,
                Conflicts, Parents
<1>4. LedgerInv' /\ EndInv'
    BY <1>1, <1>2 DEF PollInv, TableInv, LedgerInv, EndInv, RowsOn, HasConfirmed, HasSpent,
                      At, MatureAt, Chain, Height
<1>5. FromSelfInv'
    BY <1>1, <1>2 DEF PollInv, TableInv, FromSelfInv, OwnLineage, TxsOn, Chain
<1>6. QED BY <1>3, <1>4, <1>5 DEF TableInv

\* The node stands still.
LEMMA ReadStays ==
    ASSUME NEW label, Read(label)
    PROVE  /\ UNCHANGED <<blocks, best, mempool, known, reorgs, dbTip, coins, savedTxs, crashes>>
           /\ pc' = label
           /\ \A b : /\ Chain(b)' = Chain(b) /\ TxsOn(b)' = TxsOn(b)
                     /\ \A t, h : At(t, h, b)' <=> At(t, h, b)
                     /\ \A t, h : MatureAt(t, h, b)' <=> MatureAt(t, h, b)
<1>1. /\ UNCHANGED <<blocks, best, mempool, known, reorgs, dbTip, coins, savedTxs, crashes>>
      /\ pc' = label
    BY DEF Read, GoTo, chainVars, dbVars
<1>2. QED BY <1>1 DEF TxsOn, Chain, Height, At, MatureAt

\* Nothing has been read yet, or all of it is written.
LEMMA NothingRead ==
    ASSUME pc' \in {"Idle", "Tip", "InChain", "Ancestor", "Polled"}
    PROVE  ReadInv'
BY DEF ReadInv, PlaceInv, ReceivedInv, ConfirmedInv, SpendingInv, SpentInv,
       ToInsert, ToSetTip, ToRemove, ToConfirm, ToSpend, ToConfirmSpend, WriteStates

\* The wallet knows the transactions on any chain.
LEMMA ChainKnown ==
    ASSUME ChainInv, TreeInv, NEW b \in DOMAIN blocks
    PROVE  TxsOn(b) \subseteq known
<1>1. \A a \in Chain(b) : blocks[a].txs \subseteq known
    BY BlocksTyped DEF TreeInv
<1>2. QED BY <1>1 DEF TxsOn

-----------------------------------------------------------------------------
(* The queries: what they answer while the node is at the tip of the poll. *)

\* The start of a poll keeps the invariant.
LEMMA StartPollStep ==
    ASSUME IInv, PollInv, StartPoll
    PROVE  PollInv'
<1>1. pc = "Idle" /\ Read("Tip")
    BY DEF StartPoll
<1>2. TableInv'
    BY <1>1, ReadTable DEF Recording, WriteStates, Labels, QueryStates
<1>3. QED BY <1>1, <1>2, NothingRead, ReadStays DEF PollInv

\* Fetching the tip keeps the invariant.
LEMMA FetchTipStep ==
    ASSUME IInv, PollInv, FetchTip
    PROVE  PollInv'
<1>1. /\ pc = "Tip" /\ tip' = best
      /\ \/ best = dbTip /\ Read("Received")
         \/ Read("InChain") \/ Read("Ancestor")
    BY DEF FetchTip
<1>2. TableInv'
    BY <1>1, ReadTable DEF Recording, WriteStates, Labels, QueryStates
<1>3. CASE Read("InChain") \/ Read("Ancestor")
    BY <1>2, <1>3, NothingRead, ReadStays DEF PollInv
<1>4. CASE best = dbTip /\ Read("Received")
    <2>1. best \in Chain(best)
        BY InvTypes, BlocksTyped DEF PollInv, TableInv
    <2>2. dbTip' \in Chain(tip)' /\ pc' = "Received"
        BY <1>1, <1>4, <2>1, ReadStays
    <2>3. ReadInv'
        BY <2>2 DEF ReadInv, PlaceInv, ReceivedInv, ConfirmedInv, SpendingInv, SpentInv,
                    ToInsert, ToSetTip, ToRemove, ToConfirm, ToSpend, ToConfirmSpend,
                    WriteStates
    <2>4. QED BY <1>2, <2>3 DEF PollInv
<1>5. QED BY <1>1, <1>3, <1>4

\* Asking whether the last tip is still there keeps the invariant.
LEMMA CheckInChainStep ==
    ASSUME IInv, PollInv, CheckInChain
    PROVE  PollInv'
<1>1. /\ pc = "InChain" /\ tip' = tip
      /\ \/ dbTip \in Chain(best) /\ Read("Received")
         \/ Read("Ancestor")
    BY DEF CheckInChain, IsInChain
<1>2. TableInv'
    BY <1>1, ReadTable DEF Recording, WriteStates, Labels, QueryStates
<1>3. CASE Read("Ancestor")
    BY <1>2, <1>3, NothingRead, ReadStays DEF PollInv
<1>4. CASE dbTip \in Chain(best) /\ Read("Received")
    <2>1. dbTip' \in Chain(best)' /\ pc' = "Received"
        BY <1>1, <1>4, ReadStays
    <2>2. ReadInv'
        BY <2>1 DEF ReadInv, PlaceInv, ReceivedInv, ConfirmedInv, SpendingInv, SpentInv, Sound,
                    ToInsert, ToSetTip, ToRemove, ToConfirm, ToSpend, ToConfirmSpend,
                    WriteStates
    <2>3. QED BY <1>2, <2>2 DEF PollInv
<1>5. QED BY <1>1, <1>3, <1>4

\* Looking for the common ancestor keeps the invariant.
LEMMA FindAncestorStep ==
    ASSUME IInv, PollInv, FindAncestor
    PROVE  PollInv'
<1>1. pc = "Ancestor" /\ tip' = ForkPoint(dbTip, best) /\ Read("Rollback")
    BY DEF FindAncestor, CommonAncestor
<1>2. TableInv'
    BY <1>1, ReadTable DEF Recording, WriteStates, Labels, QueryStates
<1>3. ForkPoint(dbTip, best) \in Chain(dbTip)
    BY InvTypes, ForkOn DEF PollInv, TableInv
<1>4. tip' \in Chain(dbTip)' /\ pc' = "Rollback"
    BY <1>1, <1>3, ReadStays
<1>5. ReadInv'
    BY <1>4 DEF ReadInv, PlaceInv, ReceivedInv, ConfirmedInv, SpendingInv, SpentInv,
                ToInsert, ToSetTip, ToRemove, ToConfirm, ToSpend, ToConfirmSpend, WriteStates
<1>6. QED BY <1>2, <1>5 DEF PollInv

\* received_coins(): what the chain of the node holds and the table lacks is listed.
LEMMA ReadReceivedStep ==
    ASSUME IInv, PollInv, ReadReceived
    PROVE  PollInv'
<1>1. /\ pc = "Received" /\ Read("Confirmed") /\ tip' = tip
      /\ DOMAIN updated'.received = NewlyReceived
    BY InvTypes DEF ReadReceived, PollInv, TableInv, UpdatedTypeOK
<1>2. TableInv'
    BY <1>1, ReadTable DEF Recording, WriteStates, Labels, QueryStates
<1>3. pc' = "Confirmed" /\ UNCHANGED <<best, dbTip, coins>>
    BY <1>1, ReadStays
<1>4. ASSUME NEW c \in Coin, TxOf[c] \in TxsOn(best), c \notin DOMAIN coins
      PROVE  c \in NewlyReceived
    <2> DEFINE t == TxOf[c]
               f == ForkPoint(dbTip, best)
    <2>1. /\ ChainInv /\ TreeInv /\ {dbTip, best} \subseteq DOMAIN blocks
          /\ Present(dbTip)
        BY InvTypes DEF PollInv, TableInv
    <2>2. PICK h \in Heights : At(t, h, best)
        BY <1>4, <2>1, AtOn
    <2>3. HeightOn(t, best) = h /\ h \in Nat
        BY <2>1, <2>2, AtOn
    <2>4. f \in Chain(dbTip) \cap Chain(best)
        BY <2>1, ForkOn
    <2>5. f \in DOMAIN blocks
        BY <2>1, <2>4, BlocksTyped
    <2>6. Height(f) \in Nat
        BY <2>1, <2>5, BlocksTyped
    <2> HIDE DEF f
    <2>7. CASE h <= Height(f)
        <3>1. At(t, h, f)
            BY <2>1, <2>2, <2>4, <2>7, ChainBelow
        <3>2. At(t, h, dbTip)
            BY <2>1, <2>4, <3>1, ChainBelow
        <3>3. t \in TxsOn(dbTip)
            BY <2>1, <3>2, AtOn
        <3>4. QED BY <1>4, <2>1, <3>3 DEF Present
    <2>8. CASE h > Height(f)
        <3>1. t \in known
            BY <1>4, <2>1, ChainKnown
        <3>2. t \in ListedSince(Height(f))
            BY <1>4, <2>3, <2>8, <3>1 DEF ListedSince
        <3>3. c \in DOMAIN ReceivedCoins(dbTip)
            BY <1>4, <3>2 DEF ReceivedCoins, f
        <3>4. QED BY <1>4, <3>3 DEF NewlyReceived, Received
    <2>9. QED BY <2>3, <2>6, <2>7, <2>8
<1>5. Sound' <=> best = tip
    BY <1>1, <1>3 DEF Sound, WriteStates
<1>6. PlaceInv'
    BY <1>1, <1>3, <1>5, ReadStays DEF PollInv, ReadInv, PlaceInv, Sound
<1>7. ReceivedInv'
    <2>1. NewlyReceived \cap DOMAIN coins = {}
        BY DEF NewlyReceived
    <2>2. Sound' => \A c \in Coin : TxOf[c] \in TxsOn(tip)' =>
                        c \in DOMAIN coins \/ c \in NewlyReceived
        BY <1>1, <1>3, <1>4, <1>5, ReadStays
    <2>3. QED BY <1>1, <1>3, <2>1, <2>2 DEF ReceivedInv, ToInsert
<1>8. ConfirmedInv' /\ SpendingInv' /\ SpentInv'
    BY <1>3 DEF ConfirmedInv, SpendingInv, SpentInv,
                ToInsert, ToSetTip, ToRemove, ToConfirm, ToSpend, ToConfirmSpend, WriteStates
<1>9. QED BY <1>2, <1>6, <1>7, <1>8 DEF PollInv, ReadInv

\* confirmed_coins(): the heights on the chain of the node, of every mature coin of it.
LEMMA ReadConfirmedStep ==
    ASSUME IInv, PollInv, ReadConfirmed
    PROVE  PollInv'
<1>1. /\ pc = "Confirmed" /\ Read("Spending") /\ tip' = tip
      /\ updated'.received = updated.received
      /\ updated'.confirmed = ConfirmedCoins(ToBeConfirmed)
      /\ updated'.expired = ExpiredCoins(ToBeConfirmed)
    BY InvTypes DEF ReadConfirmed, PollInv, TableInv, UpdatedTypeOK
<1>2. TableInv'
    BY <1>1, ReadTable DEF Recording, WriteStates, Labels, QueryStates
<1>3. pc' = "Spending" /\ UNCHANGED <<best, dbTip, coins>>
    BY <1>1, ReadStays
<1>4. /\ ChainInv /\ TreeInv /\ best \in DOMAIN blocks
      /\ DOMAIN coins \subseteq Coin /\ DOMAIN updated.received \subseteq Coin
    BY InvTypes DEF PollInv, TableInv, UpdatedTypeOK, Maps
<1>5. (Sound <=> best = tip) /\ (Sound' <=> best = tip)
    BY <1>1, <1>3 DEF Sound, WriteStates
<1>6. PlaceInv'
    BY <1>1, <1>3, <1>5, ReadStays DEF PollInv, ReadInv, PlaceInv, ToSetTip, ToInsert
<1>7. ReceivedInv'
    BY <1>1, <1>3, <1>5, ReadStays DEF PollInv, ReadInv, ReceivedInv, ToInsert, ToSetTip
<1>8. ConfirmedInv'
    <2> DEFINE confirmed == ConfirmedCoins(ToBeConfirmed)
               expired == ExpiredCoins(ToBeConfirmed)
    <2>1. \A c \in expired \cap DOMAIN coins : coins[c].height = NoHeight
        <3>1. DOMAIN updated.received \cap DOMAIN coins = {}
            BY <1>1 DEF PollInv, ReadInv, ReceivedInv, ToInsert
        <3>2. QED BY <3>1 DEF ExpiredCoins, ToBeConfirmed, Unconfirmed
    <2>2. \A c \in expired : TxOf[c] \notin TxsOn(best)
        BY DEF ExpiredCoins
    <2>3. \A c \in DOMAIN confirmed : At(TxOf[c], confirmed[c], best)
        BY <1>4, AtOn DEF ConfirmedCoins
    <2>4. ASSUME best = tip, NEW c \in Coin, NEW h \in Heights, MatureAt(TxOf[c], h, best)
          PROVE  \/ c \in DOMAIN confirmed
                 \/ c \in DOMAIN coins /\ coins[c].height # NoHeight
        <3>1. At(TxOf[c], h, best)
            BY <2>4 DEF MatureAt
        <3>2. TxOf[c] \in TxsOn(best) /\ HeightOn(TxOf[c], best) = h
            BY <1>4, <3>1, AtOn
        <3>3. Matured(TxOf[c])
            BY <2>4, <3>2 DEF MatureAt, Matured, Confirmations
        <3>4. c \in DOMAIN coins \/ c \in DOMAIN updated.received
            BY <1>1, <1>5, <2>4, <3>2 DEF PollInv, ReadInv, ReceivedInv, ToInsert, ToSetTip
        <3>5. QED BY <3>2, <3>3, <3>4 DEF ConfirmedCoins, ToBeConfirmed, Unconfirmed
    <2> HIDE DEF confirmed, expired
    <2>5. /\ updated'.confirmed = confirmed /\ updated'.expired = expired
        BY <1>1 DEF confirmed, expired
    <2>6. QED
        BY <1>1, <1>3, <1>5, <2>1, <2>2, <2>3, <2>4, <2>5, ReadStays
        DEF ConfirmedInv, ToConfirm, ToRemove, ToInsert, ToSetTip
<1>9. SpendingInv' /\ SpentInv'
    BY <1>3 DEF SpendingInv, SpentInv, ToSpend, ToConfirm, ToRemove, ToInsert, ToConfirmSpend
<1>10. QED BY <1>2, <1>6, <1>7, <1>8, <1>9 DEF PollInv, ReadInv

\* spending_coins(): a coin that the chain of the node spends is seen to be spent, and
\* its spender is listed.
LEMMA SpenderListed ==
    ASSUME ChainInv, TreeInv, best \in DOMAIN blocks, NEW c \in Coin,
           NEW t \in TxsOn(best), c \in Ins[t]
    PROVE  IsSpent(c) /\ t \in Spenders(c)
<1>1. PICK h \in Heights : At(t, h, best)
    BY AtOn
<1>2. TxOf[c] \in Parents(t)
    BY DEF Parents
<1>3. PICK k \in Heights : k <= h /\ At(TxOf[c], k, best)
    BY <1>1, <1>2, ParentsOn
<1>4. /\ HeightOn(t, best) = h /\ HeightOn(TxOf[c], best) = k /\ h \in Nat /\ k \in Nat
      /\ 1 <= k /\ TxOf[c] \in TxsOn(best)
    BY <1>1, <1>3, AtOn
<1>5. t \in known
    BY ChainKnown
<1>6. t # TxOf[c]
    BY WalletAssumption
<1>7. t \in ListedSince(k - 1)
    BY <1>3, <1>4, <1>5 DEF ListedSince
<1>8. t \in Spenders(c)
    BY <1>4, <1>6, <1>7 DEF Spenders
<1>9. QED BY <1>8 DEF IsSpent

\* Reading the spends keeps the invariant.
LEMMA ReadSpendingStep ==
    ASSUME IInv, PollInv, ReadSpending
    PROVE  PollInv'
<1> DEFINE settled == {c \in DOMAIN coins : /\ coins[c].spendTx # NoTx
                                            /\ coins[c].spendHeight # NoHeight}
           toBeSpent == (DOMAIN coins \cup DOMAIN updated.received)
                            \ (settled \cup updated.expired)
<1>1. PICK spending \in SpendingCoins(toBeSpent) :
          updated' = [updated EXCEPT !.spending = spending]
    BY DEF ReadSpending
<1>2. /\ pc = "Spending" /\ Read("Spent") /\ tip' = tip
      /\ updated'.received = updated.received
      /\ updated'.confirmed = updated.confirmed
      /\ updated'.expired = updated.expired
      /\ updated'.spending = spending
    BY <1>1, InvTypes DEF ReadSpending, PollInv, TableInv, UpdatedTypeOK
<1>3. TableInv'
    BY <1>2, ReadTable DEF Recording, WriteStates, Labels, QueryStates
<1>4. pc' = "Spent" /\ UNCHANGED <<best, dbTip, coins>>
    BY <1>2, ReadStays
<1>5. /\ ChainInv /\ TreeInv /\ best \in DOMAIN blocks /\ LinkedInv
      /\ DOMAIN coins \subseteq Coin /\ DOMAIN updated.received \subseteq Coin
    BY InvTypes DEF PollInv, TableInv, UpdatedTypeOK, Maps
<1>6. (Sound <=> best = tip) /\ (Sound' <=> best = tip)
    BY <1>2, <1>4 DEF Sound, WriteStates
<1>7. PlaceInv'
    BY <1>2, <1>4, <1>6, ReadStays DEF PollInv, ReadInv, PlaceInv, ToSetTip, ToInsert
<1>8. ReceivedInv'
    BY <1>2, <1>4, <1>6, ReadStays DEF PollInv, ReadInv, ReceivedInv, ToInsert, ToSetTip
<1>9. ConfirmedInv'
    BY <1>2, <1>4, <1>6, ReadStays DEF PollInv, ReadInv, ConfirmedInv, ToInsert, ToSetTip,
                                       ToRemove, ToConfirm
<1>10. SpendingInv'
    <2>1. /\ DOMAIN spending \subseteq toBeSpent
          /\ \A c \in DOMAIN spending : c \in Ins[spending[c]]
        BY DEF SpendingCoins, Spenders
    <2>2. \A c \in DOMAIN spending \cap DOMAIN coins : coins[c].spendHeight = NoHeight
        BY <1>5, <2>1 DEF LinkedInv
    <2>3. QED BY <1>2, <1>4, <2>1, <2>2 DEF SpendingInv
<1>11. SpentInv'
    <2>1. ASSUME best = tip, NEW c \in Coin, NEW t \in TxsOn(tip), c \in Ins[t]
          PROVE  \/ c \in DOMAIN spending
                 \/ c \in DOMAIN coins /\ coins[c].spendHeight # NoHeight
        <3>1. TxOf[c] \in TxsOn(tip)
            BY <1>5, <2>1, SpentOn
        <3>2. c \in DOMAIN coins \cup DOMAIN updated.received
            BY <1>2, <1>6, <2>1, <3>1
            DEF PollInv, ReadInv, ReceivedInv, ToInsert, ToSetTip
        <3>3. c \notin updated.expired
            BY <1>2, <1>6, <2>1, <3>1 DEF PollInv, ReadInv, ConfirmedInv, ToRemove, ToInsert
        <3>4. IsSpent(c) /\ Spenders(c) # {}
            BY <1>5, <2>1, SpenderListed
        <3>5. CASE c \in settled
            BY <3>5
        <3>6. CASE c \notin settled
            <4>1. c \in toBeSpent
                BY <3>2, <3>3, <3>6
            <4> HIDE DEF toBeSpent
            <4>2. QED BY <3>4, <4>1 DEF SpendingCoins
        <3>7. QED BY <3>5, <3>6
    <2>2. QED
        BY <1>2, <1>4, <1>6, <2>1, ReadStays
        DEF SpentInv, ToConfirmSpend, ToSpend, ToConfirm, ToRemove, ToInsert
<1>12. QED BY <1>3, <1>7, <1>8, <1>9, <1>10, <1>11 DEF PollInv, ReadInv

\* spent_coins(): the spends of the chain of the node, with their height.
LEMMA ReadSpentStep ==
    ASSUME IInv, PollInv, ReadSpent
    PROVE  PollInv'
<1> DEFINE spent == SpentCoins(SpendingPairs)
           expired == ExpiredSpends(SpendingPairs)
<1>1. /\ pc = "Spent" /\ Read("Check") /\ tip' = tip
      /\ updated'.received = updated.received
      /\ updated'.confirmed = updated.confirmed
      /\ updated'.expired = updated.expired
      /\ updated'.spending = updated.spending
      /\ updated'.spent = spent
      /\ updated'.expiredSpending = expired
    BY InvTypes DEF ReadSpent, PollInv, TableInv, UpdatedTypeOK
<1>2. TableInv'
    BY <1>1, ReadTable DEF Recording, WriteStates, Labels, QueryStates
<1>3. pc' = "Check" /\ UNCHANGED <<best, dbTip, coins>>
    BY <1>1, ReadStays
<1>4. /\ ChainInv /\ TreeInv /\ best \in DOMAIN blocks /\ LinkedInv
      /\ DOMAIN coins \subseteq Coin /\ DOMAIN updated.spending \subseteq Coin
    BY InvTypes DEF PollInv, TableInv, UpdatedTypeOK, Maps
<1>5. (Sound <=> best = tip) /\ (Sound' <=> best = tip)
    BY <1>1, <1>3 DEF Sound, WriteStates
<1>6. PlaceInv'
    BY <1>1, <1>3, <1>5, ReadStays DEF PollInv, ReadInv, PlaceInv, ToSetTip, ToInsert
<1>7. ReceivedInv'
    BY <1>1, <1>3, <1>5, ReadStays DEF PollInv, ReadInv, ReceivedInv, ToInsert, ToSetTip
<1>8. ConfirmedInv'
    BY <1>1, <1>3, <1>5, ReadStays DEF PollInv, ReadInv, ConfirmedInv, ToInsert, ToSetTip,
                                       ToRemove, ToConfirm
<1>9. SpendingInv'
    BY <1>1, <1>3 DEF PollInv, ReadInv, SpendingInv, ToSpend, ToConfirm, ToRemove, ToInsert
<1>10. \A p \in SpendingPairs : p[1] \in Coin /\ p[1] \in Ins[p[2]]
    <2>1. \A c \in DOMAIN updated.spending : c \in Ins[updated.spending[c]]
        BY <1>1 DEF PollInv, ReadInv, SpendingInv, ToSpend, ToConfirm, ToRemove, ToInsert
    <2>2. QED BY <1>4, <2>1 DEF SpendingPairs, ListSpendingCoins, NewSpends, LinkedInv
<1>11. ASSUME NEW p \in SpendingPairs
       PROVE  /\ \A v \in ConfirmedSpenders(p[1], p[2]) :
                     v \in TxsOn(best) /\ p[1] \in Ins[v]
              /\ \A t \in TxsOn(best) :
                     p[1] \in Ins[t] => ConfirmedSpenders(p[1], p[2]) # {}
    <2>1. TxsOn(best) \subseteq known
        BY <1>4, ChainKnown
    <2>2. QED BY <1>10, <2>1 DEF ConfirmedSpenders, Conflicts
<1>12. ASSUME NEW s \in spent
       PROVE  s.coin \in Ins[s.tx] /\ At(s.tx, s.height, best)
    <2>1. PICK p \in SpendingPairs : \E v \in ConfirmedSpenders(p[1], p[2]) :
              s = [coin |-> p[1], tx |-> v, height |-> HeightOn(v, best)]
        BY DEF SpentCoins
    <2>2. QED BY <1>4, <1>11, <2>1, AtOn
<1>13. ASSUME NEW c \in expired, NEW t \in TxsOn(best)
       PROVE  c \notin Ins[t]
    <2>1. PICK p \in SpendingPairs : p[1] = c /\ ConfirmedSpenders(p[1], p[2]) = {}
        BY DEF ExpiredSpends
    <2>2. QED BY <1>11, <2>1
<1>14. ASSUME best = tip, NEW c \in Coin, NEW t \in TxsOn(tip), c \in Ins[t]
       PROVE  \/ \E s \in spent : s.coin = c
              \/ c \in DOMAIN coins /\ coins[c].spendHeight # NoHeight
    <2>1. \/ c \in DOMAIN updated.spending
          \/ c \in DOMAIN coins /\ coins[c].spendHeight # NoHeight
        BY <1>1, <1>5, <1>14 DEF PollInv, ReadInv, SpentInv, ToConfirmSpend, ToSpend
    <2>2. CASE c \in DOMAIN updated.spending
        <3>1. <<c, updated.spending[c]>> \in SpendingPairs
            BY <2>2 DEF SpendingPairs, NewSpends
        <3> DEFINE u == updated.spending[c]
        <3>2. PICK v : v \in ConfirmedSpenders(<<c, u>>[1], <<c, u>>[2])
            BY <1>11, <1>14, <3>1
        <3>3. [coin |-> c, tx |-> v, height |-> HeightOn(v, best)] \in spent
            BY <3>1, <3>2 DEF SpentCoins
        <3>4. QED BY <3>3
    <2>3. QED BY <2>1, <2>2
<1>15. SpentInv'
    <2> HIDE DEF spent, expired
    <2>1. QED
        BY <1>1, <1>3, <1>5, <1>12, <1>13, <1>14, ReadStays
        DEF SpentInv, ToConfirmSpend, ToSpend, ToConfirm, ToRemove, ToInsert
<1>16. QED BY <1>2, <1>6, <1>7, <1>8, <1>9, <1>15 DEF PollInv, ReadInv

\* The tip did not change while the poll read: what was read is of the chain of `tip`.
LEMMA CheckTipStep ==
    ASSUME IInv, PollInv, CheckTip
    PROVE  PollInv'
<1>1. /\ pc = "Check" /\ UNCHANGED <<tip, updated>>
      /\ \/ best = tip /\ Read("AddTxs")
         \/ Read("Tip")
    BY DEF CheckTip
<1>2. CASE Read("Tip")
    <2>1. TableInv'
        BY <1>1, <1>2, ReadTable DEF Recording, WriteStates, Labels, QueryStates
    <2>2. QED BY <1>2, <2>1, NothingRead, ReadStays DEF PollInv
<1>3. CASE best = tip /\ Read("AddTxs")
    <2>1. /\ UNCHANGED <<blocks, best, mempool, known, reorgs, dbTip, coins, savedTxs, crashes>>
          /\ pc' = "AddTxs"
          /\ \A b : /\ Chain(b)' = Chain(b) /\ TxsOn(b)' = TxsOn(b)
                    /\ \A t, h : At(t, h, b)' <=> At(t, h, b)
                    /\ \A t, h : MatureAt(t, h, b)' <=> MatureAt(t, h, b)
        BY <1>3, ReadStays
    <2>2. Sound
        BY <1>3 DEF Sound
    <2>3. dbTip \in Chain(tip)
        BY <1>1, <2>2 DEF PollInv, ReadInv, PlaceInv, ToSetTip, ToInsert
    <2>4. TreeInv' /\ LinkedInv' /\ Present(dbTip)' /\ EndInv'
        <3>1. TreeInv'
            BY <2>1, TreeStays DEF PollInv, TableInv
        <3>2. LinkedInv' /\ Present(dbTip)'
            BY <2>1 DEF PollInv, TableInv, LinkedInv, Present
        <3>3. EndInv'
            BY <2>1 DEF EndInv
        <3>4. QED BY <3>1, <3>2, <3>3
    <2>5. LedgerInv'
        <3>1. ASSUME crashes = 0
              PROVE  RowsOn(dbTip) /\ HasConfirmed(dbTip) /\ HasSpent(dbTip)
            BY <1>1, <3>1 DEF PollInv, TableInv, LedgerInv, Recording, WriteStates
        <3>2. \A t, h : At(t, h, dbTip) => At(t, h, tip)
            BY <2>3, InvTypes, ChainBelow DEF PollInv, TableInv
        <3>3. crashes = 0 => RowsOn(tip)
            BY <3>1, <3>2 DEF RowsOn
        <3>4. QED
            BY <1>1, <2>1, <3>1, <3>3
            DEF LedgerInv, RowsOn, HasConfirmed, HasSpent, Recording, WriteStates
    <2>6. FromSelfInv'
        BY <1>1, <2>1 DEF PollInv, TableInv, FromSelfInv, OwnLineage
    <2>7. PlaceInv' /\ ReceivedInv' /\ ConfirmedInv'
        BY <1>1, <2>1, <2>2
        DEF PollInv, ReadInv, PlaceInv, ReceivedInv, ConfirmedInv, ToInsert, ToSetTip, ToRemove,
            ToConfirm
    <2>8. SpendingInv' /\ SpentInv'
        BY <1>1, <2>1, <2>2
        DEF PollInv, ReadInv, SpendingInv, SpentInv, ToInsert, ToRemove, ToConfirm, ToSpend,
            ToConfirmSpend
    <2>9. QED BY <2>4, <2>5, <2>6, <2>7, <2>8 DEF PollInv, TableInv, ReadInv
<1>4. QED BY <1>1, <1>2, <1>3

\* The end of a poll keeps the invariant.
LEMMA FinishPollStep ==
    ASSUME IInv, PollInv, FinishPoll
    PROVE  PollInv'
<1>1. pc = "Polled" /\ Read("Idle")
    BY DEF FinishPoll
<1>2. TableInv'
    BY <1>1, ReadTable DEF Recording, WriteStates, Labels, QueryStates
<1>3. QED BY <1>1, <1>2, NothingRead, ReadStays DEF PollInv

-----------------------------------------------------------------------------
(* The writes. *)

\* What each write finds: all that was read is of the chain of `tip`, which continues
\* that of dbTip.
LEMMA WriteState ==
    ASSUME IInv, PollInv, pc \in WriteStates
    PROVE  /\ ChainInv /\ TreeInv /\ LinkedInv /\ {dbTip, tip} \subseteq DOMAIN blocks
           /\ Present(dbTip)
           /\ Maps(coins, Row) /\ DOMAIN coins \subseteq Coin /\ UpdatedTypeOK
           /\ Sound /\ dbTip \in Chain(tip)
           /\ \A t, h : At(t, h, dbTip) => At(t, h, tip)
           /\ \A t, h : At(t, h, tip) => h # NoHeight /\ t \in TxsOn(tip)
           /\ TxsOn(dbTip) \subseteq TxsOn(tip)
           /\ crashes = 0 => RowsOn(tip) /\ HasConfirmed(dbTip) /\ HasSpent(dbTip)
<1>1. /\ ChainInv /\ TreeInv /\ LinkedInv /\ {dbTip, tip} \subseteq DOMAIN blocks
      /\ Present(dbTip)
      /\ Maps(coins, Row) /\ DOMAIN coins \subseteq Coin /\ UpdatedTypeOK
    BY InvTypes DEF PollInv, TableInv
<1>2. Sound /\ dbTip \in Chain(tip)
    BY DEF PollInv, ReadInv, PlaceInv, Sound, ToSetTip
<1>3. /\ \A t, h : At(t, h, dbTip) => At(t, h, tip)
      /\ TxsOn(dbTip) \subseteq TxsOn(tip)
    BY <1>1, <1>2, ChainBelow
<1>4. \A t, h : At(t, h, tip) => h # NoHeight /\ t \in TxsOn(tip)
    BY <1>1, AtOn DEF NoHeight
<1>5. crashes = 0 => RowsOn(tip) /\ HasConfirmed(dbTip) /\ HasSpent(dbTip)
    BY DEF PollInv, TableInv, LedgerInv, Recording
<1>6. QED BY <1>1, <1>2, <1>3, <1>4, <1>5

\* The next state of a write that commits, given what it does to the rows.
LEMMA WriteStays ==
    ASSUME IInv, PollInv, pc \in WriteStates \ {"SetTip"}, pc' \in Recording,
           UNCHANGED <<blocks, best, mempool, known, reorgs, dbTip, tip, updated, crashes>>
    PROVE  /\ \A b : /\ Chain(b)' = Chain(b) /\ TxsOn(b)' = TxsOn(b)
                     /\ \A t, h : At(t, h, b)' <=> At(t, h, b)
                     /\ \A t, h : MatureAt(t, h, b)' <=> MatureAt(t, h, b)
           /\ TreeInv' /\ PlaceInv'
           /\ EndInv'
<1>1. \A b : /\ Chain(b)' = Chain(b) /\ TxsOn(b)' = TxsOn(b)
             /\ \A t, h : At(t, h, b)' <=> At(t, h, b)
             /\ \A t, h : MatureAt(t, h, b)' <=> MatureAt(t, h, b)
    BY DEF TxsOn, Chain, Height, At, MatureAt
<1>2. TreeInv'
    BY WriteState, TreeStays
<1>3. dbTip' \in Chain(tip)'
    BY <1>1, WriteState
<1>4. PlaceInv' /\ EndInv'
    BY <1>3 DEF PlaceInv, EndInv, Recording, WriteStates
<1>5. QED BY <1>1, <1>2, <1>4

\* A constraint that fails leaves the table as it was.
LEMMA PanicStep ==
    ASSUME IInv, PollInv, pc \in WriteStates \ {"SetTip"}, pc' = "Panicked",
           UNCHANGED <<blocks, best, mempool, known, reorgs, dbTip, coins, tip, updated, crashes>>
    PROVE  PollInv'
<1>1. /\ \A b : /\ TxsOn(b)' = TxsOn(b)
                /\ \A t, h : At(t, h, b)' <=> At(t, h, b)
                /\ \A t, h : MatureAt(t, h, b)' <=> MatureAt(t, h, b)
      /\ TreeInv' /\ PlaceInv' /\ EndInv'
    BY WriteStays DEF Recording
<1>2. LinkedInv' /\ Present(dbTip)'
    BY <1>1, WriteState DEF LinkedInv, Present
<1>3. LedgerInv'
    BY <1>1, WriteState DEF LedgerInv, RowsOn, HasConfirmed, HasSpent, Recording
<1>4. FromSelfInv'
    BY <1>1 DEF PollInv, TableInv, FromSelfInv, OwnLineage
<1>5. ReceivedInv' /\ ConfirmedInv' /\ SpendingInv' /\ SpentInv'
    BY DEF ReceivedInv, ConfirmedInv, SpendingInv, SpentInv, ToInsert, ToSetTip, ToRemove,
           ToConfirm, ToSpend, ToConfirmSpend, WriteStates
<1>6. QED BY <1>1, <1>2, <1>3, <1>4, <1>5 DEF PollInv, TableInv, ReadInv

\* Storing the transactions keeps the invariant.
LEMMA AddTxsStep ==
    ASSUME IInv, PollInv, AddTxs
    PROVE  PollInv'
<1>1. /\ pc = "AddTxs" /\ pc' \in {"Insert", "Panicked"}
      /\ UNCHANGED <<blocks, best, mempool, known, reorgs, dbTip, coins, tip, updated, crashes>>
    BY DEF AddTxs, GoTo, chainVars
<1>2. CASE pc' = "Panicked"
    BY <1>1, <1>2, PanicStep DEF WriteStates
<1>3. CASE pc' = "Insert"
    <2>1. /\ \A b : /\ TxsOn(b)' = TxsOn(b)
                    /\ \A t, h : At(t, h, b)' <=> At(t, h, b)
                    /\ \A t, h : MatureAt(t, h, b)' <=> MatureAt(t, h, b)
          /\ TreeInv' /\ PlaceInv' /\ EndInv'
        BY <1>1, <1>3, WriteStays DEF Recording, WriteStates
    <2>2. LinkedInv' /\ Present(dbTip)' /\ Sound
        BY <1>1, <2>1, WriteState DEF LinkedInv, Present, WriteStates
    <2>3. LedgerInv'
        BY <1>1, <2>1, WriteState
        DEF LedgerInv, RowsOn, HasConfirmed, HasSpent, Recording, WriteStates
    <2>4. FromSelfInv'
        BY <1>1, <1>3, <2>1 DEF PollInv, TableInv, FromSelfInv, OwnLineage
    <2>5. ReceivedInv' /\ ConfirmedInv'
        BY <1>1, <1>3, <2>1, <2>2
        DEF PollInv, ReadInv, ReceivedInv, ConfirmedInv, ToInsert, ToSetTip, ToRemove, ToConfirm
    <2>6. SpendingInv' /\ SpentInv'
        BY <1>1, <1>3, <2>1, <2>2
        DEF PollInv, ReadInv, SpendingInv, SpentInv, ToInsert, ToRemove, ToConfirm, ToSpend,
            ToConfirmSpend
    <2>7. QED BY <2>1, <2>2, <2>3, <2>4, <2>5, <2>6 DEF PollInv, TableInv, ReadInv
<1>4. QED BY <1>1, <1>2, <1>3

\* rollback_tip(): the table goes back to an ancestor, and keeps what it holds of it.
LEMMA RollbackStep ==
    ASSUME IInv, PollInv, Rollback
    PROVE  PollInv'
<1>1. /\ pc = "Rollback" /\ pc' = "Tip"
      /\ UNCHANGED <<blocks, best, mempool, known, reorgs, tip, updated, crashes>>
      /\ dbTip' = tip
      /\ coins' = [c \in DOMAIN coins |-> RolledBack(coins[c], Height(tip))]
    BY DEF Rollback, RollbackTip, GoTo, chainVars
<1>2. /\ ChainInv /\ TreeInv /\ LinkedInv /\ {dbTip, tip} \subseteq DOMAIN blocks
      /\ Present(dbTip) /\ Maps(coins, Row) /\ DOMAIN coins \subseteq Coin
      /\ tip \in Chain(dbTip)
    BY <1>1, InvTypes DEF PollInv, TableInv, ReadInv, PlaceInv
<1>3. \A b : /\ Chain(b)' = Chain(b) /\ TxsOn(b)' = TxsOn(b)
             /\ \A t, h : At(t, h, b)' <=> At(t, h, b)
             /\ \A t, h : MatureAt(t, h, b)' <=> MatureAt(t, h, b)
    BY <1>1 DEF TxsOn, Chain, Height, At, MatureAt
<1>4. /\ TxsOn(tip) \subseteq TxsOn(dbTip) /\ Height(tip) <= Height(dbTip)
      /\ \A t, h : At(t, h, tip) <=> At(t, h, dbTip) /\ h <= Height(tip)
    BY <1>2, ChainBelow
<1>5. Height(tip) \in Nat /\ Height(dbTip) \in Nat
    BY <1>2, BlocksTyped
<1>6. \A c \in DOMAIN coins :
          LET gone == coins[c].height > Height(tip)
              row == coins'[c]
          IN  /\ row.height = IF gone THEN NoHeight ELSE coins[c].height
              /\ row.spendHeight = IF gone \/ coins[c].spendHeight > Height(tip)
                                   THEN NoHeight ELSE coins[c].spendHeight
              /\ row.spendTx = coins[c].spendTx
              /\ row.fromSelf => ~gone /\ coins[c].height # NoHeight
    <2>1. \A c \in DOMAIN coins : coins[c] \in Row
        BY <1>2 DEF Maps
    <2>2. QED BY <1>1, <2>1 DEF RolledBack, Row
<1>7. DOMAIN coins' = DOMAIN coins
    BY <1>1
<1>8. TreeInv'
    BY <1>1, <1>2, TreeStays
<1>9. LinkedInv' /\ Present(dbTip)'
    BY <1>1, <1>2, <1>3, <1>4, <1>6, <1>7 DEF LinkedInv, Present
<1>10. ASSUME crashes = 0
       PROVE  RowsOn(tip)' /\ HasConfirmed(tip)' /\ HasSpent(tip)'
    <2>1. RowsOn(dbTip) /\ HasConfirmed(dbTip) /\ HasSpent(dbTip)
        BY <1>1, <1>10 DEF PollInv, TableInv, LedgerInv, Recording, WriteStates
    <2>2. \A t, h : At(t, h, dbTip) => h \in Nat /\ h \in Heights
        BY <1>2, AtOn
    <2>3. RowsOn(tip)'
        <3>1. \A t, h : At(t, h, dbTip) /\ ~(h > Height(tip)) => At(t, h, tip)
            BY <1>4, <1>5, <2>2
        <3>2. ASSUME NEW c \in DOMAIN coins
              PROVE  /\ coins'[c].height # NoHeight => At(TxOf[c], coins'[c].height, tip)
                     /\ coins'[c].spendHeight # NoHeight =>
                            At(coins'[c].spendTx, coins'[c].spendHeight, tip)
            BY <1>6, <2>1, <3>1 DEF RowsOn
        <3>3. QED BY <1>1, <1>3, <1>7, <3>2 DEF RowsOn
    <2>4. HasConfirmed(tip)'
        <3>1. \A t, h : MatureAt(t, h, tip) => MatureAt(t, h, dbTip) /\ h <= Height(tip)
            <4>1. Maturity \in Nat
                BY WalletAssumption
            <4>2. QED BY <1>4, <1>5, <2>2, <4>1 DEF MatureAt
        <3>2. QED BY <1>1, <1>3, <1>5, <1>6, <1>7, <2>1, <3>1 DEF HasConfirmed, Heights
    <2>5. HasSpent(tip)'
        <3>1. SUFFICES ASSUME NEW c \in Coin, NEW t \in Tx, NEW h \in Heights,
                              At(t, h, tip), c \in Ins[t]
                       PROVE  /\ c \in DOMAIN coins' /\ coins'[c].spendTx = t
                              /\ coins'[c].spendHeight = h
            BY <1>1, <1>3 DEF HasSpent
        <3>2. At(t, h, dbTip) /\ h <= Height(tip) /\ h \in Nat
            BY <1>4, <2>2, <3>1
        <3>3. c \in DOMAIN coins /\ coins[c].spendTx = t /\ coins[c].spendHeight = h
            BY <2>1, <3>1, <3>2 DEF HasSpent
        <3>4. TxOf[c] \in Parents(t)
            BY <3>1 DEF Parents
        <3>5. PICK k \in Heights : k <= h /\ At(TxOf[c], k, dbTip)
            BY <1>2, <3>2, <3>4, ParentsOn
        <3>6. coins[c].height = NoHeight \/ coins[c].height = k
            <4>1. coins[c].height # NoHeight => At(TxOf[c], coins[c].height, dbTip)
                BY <2>1, <3>3 DEF RowsOn
            <4>2. HeightOn(TxOf[c], dbTip) = k
                BY <1>2, <3>5, AtOn
            <4>3. QED BY <1>2, <4>1, <4>2, AtOn
        <3>7. k \in Nat
            BY <2>2, <3>5
        <3>8. QED BY <1>5, <1>6, <1>7, <3>2, <3>3, <3>5, <3>6, <3>7 DEF NoHeight
    <2>6. QED BY <2>3, <2>4, <2>5
<1>11. LedgerInv'
    BY <1>1, <1>10 DEF LedgerInv, RowsOn, HasConfirmed, HasSpent, Recording, WriteStates,
                       MatureAt, At, Chain, Height
<1>12. EndInv' /\ FromSelfInv'
    BY <1>1, <1>6, <1>7 DEF EndInv, FromSelfInv
<1>13. QED BY <1>1, <1>8, <1>9, <1>11, <1>12, NothingRead DEF PollInv, TableInv

\* A write of rows commits, or the poller panics.
LEMMA WriteCommits ==
    ASSUME IInv, PollInv, NEW ok, NEW rows, NEW label \in WriteStates,
           Write(ok, rows, label), pc \in WriteStates \ {"SetTip"}
    PROVE  /\ UNCHANGED <<blocks, best, mempool, known, reorgs, dbTip, tip, updated, crashes>>
           /\ \/ PollInv'
              \/ ok /\ pc' = label /\ coins' = rows
           /\ \A b : /\ Chain(b)' = Chain(b) /\ TxsOn(b)' = TxsOn(b)
                     /\ \A t, h : At(t, h, b)' <=> At(t, h, b)
                     /\ \A t, h : MatureAt(t, h, b)' <=> MatureAt(t, h, b)
           /\ TreeInv' /\ PlaceInv' /\ EndInv'
<1>1. UNCHANGED <<blocks, best, mempool, known, reorgs, dbTip, tip, updated, crashes>>
    BY DEF Write, chainVars
<1>2. \/ ok /\ coins' = rows /\ pc' = label
      \/ coins' = coins /\ pc' = "Panicked"
    BY DEF Write, GoTo
<1>3. pc' \in Recording
    BY <1>2 DEF Recording
<1>4. QED BY <1>1, <1>2, <1>3, WriteStays, PanicStep

\* What the invariant says, once a write has committed.
LEMMA Committed ==
    ASSUME IInv, PollInv, pc \in WriteStates \ {"SetTip"}, pc' \in WriteStates \ {"SetTip"},
           UNCHANGED <<blocks, best, mempool, known, reorgs, dbTip, tip, updated, crashes>>,
           LinkedInv', Present(dbTip)',
           crashes = 0 => RowsOn(tip)' /\ HasConfirmed(dbTip)' /\ HasSpent(dbTip)',
           \A c \in DOMAIN coins' : coins'[c].fromSelf /\ coins'[c].height = NoHeight =>
               c \in DOMAIN coins /\ coins[c].fromSelf /\ coins[c].height = NoHeight
    PROVE  TableInv'
<1>1. /\ \A b : /\ Chain(b)' = Chain(b) /\ TxsOn(b)' = TxsOn(b)
                /\ \A t, h : At(t, h, b)' <=> At(t, h, b)
                /\ \A t, h : MatureAt(t, h, b)' <=> MatureAt(t, h, b)
      /\ TreeInv' /\ EndInv'
    BY WriteStays DEF Recording
<1>2. LedgerInv'
    BY DEF LedgerInv, RowsOn, HasConfirmed, HasSpent, Recording, At, MatureAt, Chain, Height
<1>3. FromSelfInv'
    BY <1>1 DEF PollInv, TableInv, FromSelfInv, OwnLineage
<1>4. QED BY <1>1, <1>2, <1>3 DEF TableInv

\* new_unspent_coins(): the new rows say nothing of the chain yet.
LEMMA InsertStep ==
    ASSUME IInv, PollInv, InsertReceived
    PROVE  PollInv'
<1> DEFINE new == DOMAIN updated.received
           fresh(c) == [height |-> NoHeight, spendTx |-> NoTx,
                        spendHeight |-> NoHeight, fromSelf |-> FALSE,
                        immature |-> updated.received[c]]
           rows == [c \in DOMAIN coins \cup new |->
                       IF c \in new THEN fresh(c) ELSE coins[c]]
<1>1. PICK ok : Write(ok, rows, "Remove")
    BY DEF InsertReceived
<1>2. pc = "Insert"
    BY DEF InsertReceived
<1>3. pc \in WriteStates \ {"SetTip"} /\ "Remove" \in WriteStates
    BY <1>2 DEF WriteStates
<1>4. /\ UNCHANGED <<blocks, best, mempool, known, reorgs, dbTip, tip, updated, crashes>>
      /\ \/ PollInv'
         \/ ok /\ pc' = "Remove" /\ coins' = rows
      /\ \A b : /\ Chain(b)' = Chain(b) /\ TxsOn(b)' = TxsOn(b)
                /\ \A t, h : At(t, h, b)' <=> At(t, h, b)
                /\ \A t, h : MatureAt(t, h, b)' <=> MatureAt(t, h, b)
      /\ TreeInv' /\ PlaceInv' /\ EndInv'
    <2> HIDE DEF rows
    <2>1. QED BY <1>1, <1>3, WriteCommits
<1>5. SUFFICES ASSUME pc' = "Remove", coins' = rows PROVE PollInv'
    BY <1>4
<1>6. /\ LinkedInv /\ Present(dbTip) /\ Sound /\ new \subseteq Coin
      /\ crashes = 0 => RowsOn(tip) /\ HasConfirmed(dbTip) /\ HasSpent(dbTip)
    BY <1>3, WriteState DEF UpdatedTypeOK, Maps
<1>7. new \cap DOMAIN coins = {}
    BY <1>2 DEF PollInv, ReadInv, ReceivedInv, ToInsert
<1>8. /\ DOMAIN coins' = DOMAIN coins \cup new
      /\ \A c \in DOMAIN coins : coins'[c] = coins[c]
      /\ \A c \in new : /\ coins'[c].height = NoHeight /\ coins'[c].spendTx = NoTx
                        /\ coins'[c].spendHeight = NoHeight /\ coins'[c].fromSelf = FALSE
    BY <1>5, <1>7
<1> HIDE DEF rows, new
<1>9. LinkedInv' /\ Present(dbTip)'
    BY <1>4, <1>6, <1>8 DEF LinkedInv, Present
<1>10. crashes = 0 => RowsOn(tip)' /\ HasConfirmed(dbTip)' /\ HasSpent(dbTip)'
    BY <1>4, <1>6, <1>8 DEF RowsOn, HasConfirmed, HasSpent
<1>11. TableInv'
    <2>1. pc' \in WriteStates \ {"SetTip"}
        BY <1>5 DEF WriteStates
    <2>2. QED BY <1>3, <1>4, <1>8, <1>9, <1>10, <2>1, Committed
<1>12. ReceivedInv'
    BY <1>2, <1>4, <1>5, <1>6, <1>8
    DEF PollInv, ReadInv, ReceivedInv, ToInsert, ToSetTip, WriteStates, new
<1>13. ConfirmedInv'
    BY <1>2, <1>4, <1>5, <1>6, <1>8
    DEF PollInv, ReadInv, ConfirmedInv, ToInsert, ToSetTip, ToRemove, ToConfirm, WriteStates
<1>14. SpendingInv'
    BY <1>2, <1>4, <1>5, <1>6, <1>8
    DEF PollInv, ReadInv, SpendingInv, ToInsert, ToRemove, ToConfirm, ToSpend
<1>15. SpentInv'
    BY <1>2, <1>4, <1>5, <1>6, <1>8
    DEF PollInv, ReadInv, SpentInv, ToInsert, ToRemove, ToConfirm, ToSpend, ToConfirmSpend
<1>16. QED BY <1>4, <1>11, <1>12, <1>13, <1>14, <1>15 DEF PollInv, ReadInv

\* remove_coins(): no coin of the chain goes.
LEMMA RemoveStep ==
    ASSUME IInv, PollInv, RemoveExpired
    PROVE  PollInv'
<1> DEFINE rows == [c \in DOMAIN coins \ updated.expired |-> coins[c]]
<1>1. pc = "Remove" /\ Write(TRUE, rows, "Confirm")
    BY DEF RemoveExpired
<1>2. pc \in WriteStates \ {"SetTip"} /\ "Confirm" \in WriteStates
    BY <1>1 DEF WriteStates
<1>3. /\ UNCHANGED <<blocks, best, mempool, known, reorgs, dbTip, tip, updated, crashes>>
      /\ \/ PollInv'
         \/ pc' = "Confirm" /\ coins' = rows
      /\ \A b : /\ Chain(b)' = Chain(b) /\ TxsOn(b)' = TxsOn(b)
                /\ \A t, h : At(t, h, b)' <=> At(t, h, b)
                /\ \A t, h : MatureAt(t, h, b)' <=> MatureAt(t, h, b)
      /\ TreeInv' /\ PlaceInv' /\ EndInv'
    <2> HIDE DEF rows
    <2>1. QED BY <1>1, <1>2, WriteCommits
<1>4. SUFFICES ASSUME pc' = "Confirm", coins' = rows PROVE PollInv'
    BY <1>3
<1>5. /\ ChainInv /\ TreeInv /\ {dbTip, tip} \subseteq DOMAIN blocks
      /\ LinkedInv /\ Present(dbTip) /\ Sound
      /\ \A t, h : At(t, h, dbTip) => At(t, h, tip)
      /\ \A t, h : At(t, h, tip) => t \in TxsOn(tip)
      /\ TxsOn(dbTip) \subseteq TxsOn(tip)
      /\ crashes = 0 => RowsOn(tip) /\ HasConfirmed(dbTip) /\ HasSpent(dbTip)
    BY <1>2, WriteState
<1>6. \A c \in updated.expired : TxOf[c] \notin TxsOn(tip)
    BY <1>1, <1>5 DEF PollInv, ReadInv, ConfirmedInv, ToRemove
<1>7. /\ DOMAIN coins' \subseteq DOMAIN coins
      /\ \A c \in DOMAIN coins' : coins'[c] = coins[c]
      /\ \A c \in DOMAIN coins : TxOf[c] \in TxsOn(tip) => c \in DOMAIN coins'
    BY <1>4, <1>6
<1> HIDE DEF rows
<1>8. \A c \in Coin, t \in TxsOn(tip) : c \in Ins[t] => TxOf[c] \in TxsOn(tip)
    BY <1>5, SpentOn
<1>9. LinkedInv' /\ Present(dbTip)'
    BY <1>3, <1>5, <1>7 DEF LinkedInv, Present
<1>10. ASSUME crashes = 0
       PROVE  RowsOn(tip)' /\ HasConfirmed(dbTip)' /\ HasSpent(dbTip)'
    <2>1. RowsOn(tip)'
        BY <1>3, <1>5, <1>7, <1>10 DEF RowsOn
    <2>2. HasConfirmed(dbTip)'
        BY <1>3, <1>5, <1>7, <1>10 DEF HasConfirmed, MatureAt
    <2>3. HasSpent(dbTip)'
        BY <1>3, <1>5, <1>7, <1>8, <1>10 DEF HasSpent
    <2>4. QED BY <2>1, <2>2, <2>3
<1>11. TableInv'
    <2>1. pc' \in WriteStates \ {"SetTip"}
        BY <1>4 DEF WriteStates
    <2>2. QED BY <1>2, <1>3, <1>7, <1>9, <1>10, <2>1, Committed
<1>12. ReceivedInv'
    BY <1>1, <1>3, <1>4, <1>5, <1>7
    DEF PollInv, ReadInv, ReceivedInv, ToInsert, ToSetTip, WriteStates
<1>13. ConfirmedInv'
    BY <1>1, <1>3, <1>4, <1>5, <1>7
    DEF PollInv, ReadInv, ConfirmedInv, MatureAt, ToInsert, ToSetTip, ToRemove, ToConfirm,
        WriteStates
<1>14. SpendingInv'
    BY <1>1, <1>3, <1>4, <1>5, <1>7
    DEF PollInv, ReadInv, SpendingInv, ToInsert, ToRemove, ToConfirm, ToSpend
<1>15. SpentInv'
    BY <1>1, <1>3, <1>4, <1>5, <1>7, <1>8
    DEF PollInv, ReadInv, SpentInv, ToInsert, ToRemove, ToConfirm, ToSpend, ToConfirmSpend
<1>16. QED BY <1>3, <1>11, <1>12, <1>13, <1>14, <1>15 DEF PollInv, ReadInv

\* confirm_coins(): heights on the chain of `tip`; what dbTip confirms stays as it is.
LEMMA ConfirmStep ==
    ASSUME IInv, PollInv, ConfirmCoins
    PROVE  PollInv'
<1> DEFINE set == DOMAIN updated.confirmed
           rows == UpdatedRows(set, ConfirmedRow)
<1>1. pc = "Confirm" /\ Write(TRUE, rows, "Unspend")
    BY DEF ConfirmCoins
<1>2. pc \in WriteStates \ {"SetTip"} /\ "Unspend" \in WriteStates
    BY <1>1 DEF WriteStates
<1>3. /\ UNCHANGED <<blocks, best, mempool, known, reorgs, dbTip, tip, updated, crashes>>
      /\ \/ PollInv'
         \/ pc' = "Unspend" /\ coins' = rows
      /\ \A b : /\ Chain(b)' = Chain(b) /\ TxsOn(b)' = TxsOn(b)
                /\ \A t, h : At(t, h, b)' <=> At(t, h, b)
                /\ \A t, h : MatureAt(t, h, b)' <=> MatureAt(t, h, b)
      /\ TreeInv' /\ PlaceInv' /\ EndInv'
    <2> HIDE DEF rows
    <2>1. QED BY <1>1, <1>2, WriteCommits
<1>4. SUFFICES ASSUME pc' = "Unspend", coins' = rows PROVE PollInv'
    BY <1>3
<1>5. /\ ChainInv /\ TreeInv /\ {dbTip, tip} \subseteq DOMAIN blocks
      /\ LinkedInv /\ Present(dbTip) /\ Sound /\ Maps(coins, Row)
      /\ \A t, h : At(t, h, dbTip) => At(t, h, tip)
      /\ \A t, h : At(t, h, tip) => h # NoHeight /\ t \in TxsOn(tip)
      /\ crashes = 0 => RowsOn(tip) /\ HasConfirmed(dbTip) /\ HasSpent(dbTip)
    BY <1>2, WriteState
<1>6. \A c \in set : At(TxOf[c], updated.confirmed[c], tip)
    BY <1>1, <1>5 DEF PollInv, ReadInv, ConfirmedInv, ToConfirm
<1>7. /\ DOMAIN coins' = DOMAIN coins
      /\ \A c \in DOMAIN coins :
             /\ coins'[c].height = IF c \in set THEN updated.confirmed[c] ELSE coins[c].height
             /\ coins'[c].spendTx = coins[c].spendTx
             /\ coins'[c].spendHeight = coins[c].spendHeight
             /\ coins'[c].fromSelf = coins[c].fromSelf
    <2>1. \A c \in DOMAIN coins : coins[c] \in Row
        BY <1>5 DEF Maps
    <2>2. QED BY <1>4, <2>1 DEF UpdatedRows, ConfirmedRow, Row
<1>8. \A c \in DOMAIN coins : coins[c].height # NoHeight => coins'[c].height # NoHeight
    BY <1>5, <1>6, <1>7
<1> HIDE DEF rows, set
<1>9. LinkedInv' /\ Present(dbTip)'
    BY <1>3, <1>5, <1>7 DEF LinkedInv, Present
<1>10. ASSUME crashes = 0
       PROVE  RowsOn(tip)' /\ HasConfirmed(dbTip)' /\ HasSpent(dbTip)'
    <2>1. RowsOn(tip)'
        BY <1>3, <1>5, <1>6, <1>7, <1>10 DEF RowsOn
    <2>2. \A c \in set : \A h : At(TxOf[c], h, tip) => updated.confirmed[c] = h
        BY <1>5, <1>6, AtOn
    <2>3. HasConfirmed(dbTip)'
        BY <1>3, <1>5, <1>7, <1>10, <2>2 DEF HasConfirmed, MatureAt
    <2>4. HasSpent(dbTip)'
        BY <1>3, <1>5, <1>7, <1>10 DEF HasSpent
    <2>5. QED BY <2>1, <2>3, <2>4
<1>11. TableInv'
    <2>1. pc' \in WriteStates \ {"SetTip"}
        BY <1>4 DEF WriteStates
    <2>2. QED BY <1>2, <1>3, <1>7, <1>8, <1>9, <1>10, <2>1, Committed
<1>12. ReceivedInv'
    BY <1>1, <1>3, <1>4, <1>5, <1>7
    DEF PollInv, ReadInv, ReceivedInv, ToInsert, ToSetTip, WriteStates
<1>13. ConfirmedInv'
    <2>1. ASSUME NEW c \in Coin, NEW h \in Heights, MatureAt(TxOf[c], h, tip)
          PROVE  c \in DOMAIN coins' /\ coins'[c].height # NoHeight
        <3>1. TxOf[c] \in TxsOn(tip)
            BY <1>5, <2>1 DEF MatureAt
        <3>2. c \in DOMAIN coins
            BY <1>1, <1>5, <3>1 DEF PollInv, ReadInv, ReceivedInv, ToInsert, ToSetTip, WriteStates
        <3>3. c \in set \/ coins[c].height # NoHeight
            BY <1>1, <1>5, <2>1
            DEF PollInv, ReadInv, ConfirmedInv, ToConfirm, ToInsert, ToSetTip, WriteStates, set
        <3>4. QED BY <1>5, <1>6, <1>7, <3>2, <3>3
    <2>2. QED
        BY <1>3, <1>4, <2>1 DEF ConfirmedInv, ToInsert, ToRemove, ToConfirm, ToSetTip
<1>14. SpendingInv'
    BY <1>1, <1>3, <1>4, <1>5, <1>7
    DEF PollInv, ReadInv, SpendingInv, ToInsert, ToRemove, ToConfirm, ToSpend
<1>15. SpentInv'
    BY <1>1, <1>3, <1>4, <1>5, <1>7
    DEF PollInv, ReadInv, SpentInv, ToInsert, ToRemove, ToConfirm, ToSpend, ToConfirmSpend
<1>16. QED BY <1>3, <1>11, <1>12, <1>13, <1>14, <1>15 DEF PollInv, ReadInv

\* unspend_coins(): no coin that the chain of `tip` spends.
LEMMA UnspendStep ==
    ASSUME IInv, PollInv, UnspendExpired
    PROVE  PollInv'
<1> DEFINE set == updated.expiredSpending
           rows == [c \in DOMAIN coins |->
                       IF c \in set
                       THEN [coins[c] EXCEPT !.spendTx = NoTx, !.spendHeight = NoHeight]
                       ELSE coins[c]]
<1>1. pc = "Unspend" /\ Write(TRUE, rows, "Spend")
    BY DEF UnspendExpired, UpdatedRows
<1>2. pc \in WriteStates \ {"SetTip"} /\ "Spend" \in WriteStates
    BY <1>1 DEF WriteStates
<1>3. /\ UNCHANGED <<blocks, best, mempool, known, reorgs, dbTip, tip, updated, crashes>>
      /\ \/ PollInv'
         \/ pc' = "Spend" /\ coins' = rows
      /\ \A b : /\ Chain(b)' = Chain(b) /\ TxsOn(b)' = TxsOn(b)
                /\ \A t, h : At(t, h, b)' <=> At(t, h, b)
                /\ \A t, h : MatureAt(t, h, b)' <=> MatureAt(t, h, b)
      /\ TreeInv' /\ PlaceInv' /\ EndInv'
    <2> HIDE DEF rows
    <2>1. QED BY <1>1, <1>2, WriteCommits
<1>4. SUFFICES ASSUME pc' = "Spend", coins' = rows PROVE PollInv'
    BY <1>3
<1>5. /\ LinkedInv /\ Present(dbTip) /\ Sound /\ Maps(coins, Row)
      /\ \A t, h : At(t, h, dbTip) => At(t, h, tip)
      /\ \A t, h : At(t, h, tip) => h # NoHeight /\ t \in TxsOn(tip)
      /\ crashes = 0 => RowsOn(tip) /\ HasConfirmed(dbTip) /\ HasSpent(dbTip)
    BY <1>2, WriteState
<1>6. \A c \in set, t \in TxsOn(tip) : c \notin Ins[t]
    BY <1>1, <1>5 DEF PollInv, ReadInv, SpentInv, ToConfirmSpend, ToSpend
<1>7. /\ DOMAIN coins' = DOMAIN coins
      /\ \A c \in DOMAIN coins :
             /\ coins'[c].height = coins[c].height
             /\ coins'[c].spendTx = IF c \in set THEN NoTx ELSE coins[c].spendTx
             /\ coins'[c].spendHeight = IF c \in set THEN NoHeight ELSE coins[c].spendHeight
             /\ coins'[c].fromSelf = coins[c].fromSelf
    <2>1. \A c \in DOMAIN coins : coins[c] \in Row
        BY <1>5 DEF Maps
    <2>2. QED BY <1>4, <2>1 DEF Row
<1> HIDE DEF rows, set
<1>8. LinkedInv' /\ Present(dbTip)'
    BY <1>3, <1>5, <1>7 DEF LinkedInv, Present
<1>9. ASSUME crashes = 0
      PROVE  RowsOn(tip)' /\ HasConfirmed(dbTip)' /\ HasSpent(dbTip)'
    <2>1. RowsOn(tip)'
        BY <1>3, <1>5, <1>7, <1>9 DEF RowsOn
    <2>2. HasConfirmed(dbTip)'
        BY <1>3, <1>5, <1>7, <1>9 DEF HasConfirmed
    <2>3. HasSpent(dbTip)'
        BY <1>3, <1>5, <1>6, <1>7, <1>9 DEF HasSpent
    <2>4. QED BY <2>1, <2>2, <2>3
<1>10. TableInv'
    <2>1. pc' \in WriteStates \ {"SetTip"}
        BY <1>4 DEF WriteStates
    <2>2. QED BY <1>2, <1>3, <1>7, <1>8, <1>9, <2>1, Committed
<1>11. ReceivedInv'
    BY <1>1, <1>3, <1>4, <1>5, <1>7
    DEF PollInv, ReadInv, ReceivedInv, ToInsert, ToSetTip, WriteStates
<1>12. ConfirmedInv'
    BY <1>1, <1>3, <1>4, <1>5, <1>7
    DEF PollInv, ReadInv, ConfirmedInv, ToInsert, ToSetTip, ToRemove, ToConfirm, WriteStates
<1>13. SpendingInv'
    BY <1>1, <1>3, <1>4, <1>5, <1>7
    DEF PollInv, ReadInv, SpendingInv, ToInsert, ToRemove, ToConfirm, ToSpend
<1>14. SpentInv'
    BY <1>1, <1>3, <1>4, <1>5, <1>6, <1>7
    DEF PollInv, ReadInv, SpentInv, ToInsert, ToRemove, ToConfirm, ToSpend, ToConfirmSpend
<1>15. QED BY <1>3, <1>10, <1>11, <1>12, <1>13, <1>14 DEF PollInv, ReadInv

\* spend_coins(): the coins it marks have no confirmed spend yet.
LEMMA SpendStep ==
    ASSUME IInv, PollInv, SpendCoins
    PROVE  PollInv'
<1> DEFINE set == DOMAIN updated.spending
           rows == [c \in DOMAIN coins |->
                       IF c \in set THEN [coins[c] EXCEPT !.spendTx = updated.spending[c]]
                                    ELSE coins[c]]
<1>1. PICK ok : Write(ok, rows, "ConfirmSpend")
    BY DEF SpendCoins, UpdatedRows
<1>2. pc = "Spend"
    BY DEF SpendCoins
<1>3. pc \in WriteStates \ {"SetTip"} /\ "ConfirmSpend" \in WriteStates
    BY <1>2 DEF WriteStates
<1>4. /\ UNCHANGED <<blocks, best, mempool, known, reorgs, dbTip, tip, updated, crashes>>
      /\ \/ PollInv'
         \/ pc' = "ConfirmSpend" /\ coins' = rows
      /\ \A b : /\ Chain(b)' = Chain(b) /\ TxsOn(b)' = TxsOn(b)
                /\ \A t, h : At(t, h, b)' <=> At(t, h, b)
                /\ \A t, h : MatureAt(t, h, b)' <=> MatureAt(t, h, b)
      /\ TreeInv' /\ PlaceInv' /\ EndInv'
    <2> HIDE DEF rows
    <2>1. QED BY <1>1, <1>3, WriteCommits
<1>5. SUFFICES ASSUME pc' = "ConfirmSpend", coins' = rows PROVE PollInv'
    BY <1>4
<1>6. /\ LinkedInv /\ Present(dbTip) /\ Sound /\ Maps(coins, Row)
      /\ \A t, h : At(t, h, dbTip) => At(t, h, tip)
      /\ \A t, h : At(t, h, tip) => h # NoHeight /\ t \in TxsOn(tip)
      /\ crashes = 0 => RowsOn(tip) /\ HasConfirmed(dbTip) /\ HasSpent(dbTip)
    BY <1>3, WriteState
<1>7. \A c \in set : /\ c \in Ins[updated.spending[c]]
                     /\ c \in DOMAIN coins => coins[c].spendHeight = NoHeight
    BY <1>2 DEF PollInv, ReadInv, SpendingInv, ToSpend
<1>8. /\ DOMAIN coins' = DOMAIN coins
      /\ \A c \in DOMAIN coins :
             /\ coins'[c].height = coins[c].height
             /\ coins'[c].spendTx = IF c \in set THEN updated.spending[c] ELSE coins[c].spendTx
             /\ coins'[c].spendHeight = coins[c].spendHeight
             /\ coins'[c].fromSelf = coins[c].fromSelf
    <2>1. \A c \in DOMAIN coins : coins[c] \in Row
        BY <1>6 DEF Maps
    <2>2. QED BY <1>5, <2>1 DEF Row
<1> HIDE DEF rows, set
<1>9. LinkedInv' /\ Present(dbTip)'
    BY <1>4, <1>6, <1>7, <1>8 DEF LinkedInv, Present
<1>10. ASSUME crashes = 0
       PROVE  RowsOn(tip)' /\ HasConfirmed(dbTip)' /\ HasSpent(dbTip)'
    <2>1. RowsOn(tip)'
        BY <1>4, <1>6, <1>7, <1>8, <1>10 DEF RowsOn
    <2>2. HasConfirmed(dbTip)'
        BY <1>4, <1>6, <1>8, <1>10 DEF HasConfirmed
    <2>3. HasSpent(dbTip)'
        BY <1>4, <1>6, <1>7, <1>8, <1>10 DEF HasSpent
    <2>4. QED BY <2>1, <2>2, <2>3
<1>11. TableInv'
    <2>1. pc' \in WriteStates \ {"SetTip"}
        BY <1>5 DEF WriteStates
    <2>2. QED BY <1>3, <1>4, <1>8, <1>9, <1>10, <2>1, Committed
<1>12. ReceivedInv'
    BY <1>2, <1>4, <1>5, <1>6, <1>8
    DEF PollInv, ReadInv, ReceivedInv, ToInsert, ToSetTip, WriteStates
<1>13. ConfirmedInv'
    BY <1>2, <1>4, <1>5, <1>6, <1>8
    DEF PollInv, ReadInv, ConfirmedInv, ToInsert, ToSetTip, ToRemove, ToConfirm, WriteStates
<1>14. SpendingInv'
    BY <1>5 DEF SpendingInv, ToInsert, ToRemove, ToConfirm, ToSpend
<1>15. SpentInv'
    BY <1>2, <1>4, <1>5, <1>6, <1>8
    DEF PollInv, ReadInv, SpentInv, ToInsert, ToRemove, ToConfirm, ToSpend, ToConfirmSpend
<1>16. QED BY <1>4, <1>11, <1>12, <1>13, <1>14, <1>15 DEF PollInv, ReadInv

\* confirm_spend(): the one spend of the coin on the chain of `tip`.
LEMMA ConfirmSpendStep ==
    ASSUME IInv, PollInv, ConfirmSpend
    PROVE  PollInv'
<1> DEFINE set == {s.coin : s \in updated.spent}
           spender(c) == CHOOSE s \in updated.spent : s.coin = c
           rows == [c \in DOMAIN coins |->
                       IF c \in set
                       THEN [coins[c] EXCEPT !.spendTx = spender(c).tx,
                                             !.spendHeight = spender(c).height]
                       ELSE coins[c]]
<1>1. PICK ok : Write(ok, rows, "FromSelf")
    BY DEF ConfirmSpend, UpdatedRows
<1>2. pc = "ConfirmSpend"
    BY DEF ConfirmSpend
<1>3. pc \in WriteStates \ {"SetTip"} /\ "FromSelf" \in WriteStates
    BY <1>2 DEF WriteStates
<1>4. /\ UNCHANGED <<blocks, best, mempool, known, reorgs, dbTip, tip, updated, crashes>>
      /\ \/ PollInv'
         \/ pc' = "FromSelf" /\ coins' = rows
      /\ \A b : /\ Chain(b)' = Chain(b) /\ TxsOn(b)' = TxsOn(b)
                /\ \A t, h : At(t, h, b)' <=> At(t, h, b)
                /\ \A t, h : MatureAt(t, h, b)' <=> MatureAt(t, h, b)
      /\ TreeInv' /\ PlaceInv' /\ EndInv'
    <2> HIDE DEF rows
    <2>1. QED BY <1>1, <1>3, WriteCommits
<1>5. SUFFICES ASSUME pc' = "FromSelf", coins' = rows PROVE PollInv'
    BY <1>4
<1>6. /\ ChainInv /\ TreeInv /\ {dbTip, tip} \subseteq DOMAIN blocks
      /\ LinkedInv /\ Present(dbTip) /\ Sound /\ Maps(coins, Row)
      /\ \A t, h : At(t, h, dbTip) => At(t, h, tip)
      /\ \A t, h : At(t, h, tip) => h # NoHeight /\ t \in TxsOn(tip)
      /\ crashes = 0 => RowsOn(tip) /\ HasConfirmed(dbTip) /\ HasSpent(dbTip)
    BY <1>3, WriteState
<1>7. \A c \in set : /\ spender(c).tx \in Tx /\ c \in Ins[spender(c).tx]
                     /\ At(spender(c).tx, spender(c).height, tip)
    <2>1. \A s \in updated.spent : /\ s.coin \in Ins[s.tx] /\ At(s.tx, s.height, tip)
                                   /\ s.tx \in Tx
        BY <1>2, <1>3, <1>6, WriteState
        DEF PollInv, ReadInv, SpentInv, ToConfirmSpend, UpdatedTypeOK, Spend
    <2>2. \A c \in set : spender(c) \in updated.spent /\ spender(c).coin = c
        OBVIOUS
    <2> HIDE DEF set, spender
    <2>3. QED BY <2>1, <2>2
<1> HIDE DEF spender
<1>8. /\ DOMAIN coins' = DOMAIN coins
      /\ \A c \in DOMAIN coins :
             /\ coins'[c].height = coins[c].height
             /\ coins'[c].spendTx = IF c \in set THEN spender(c).tx ELSE coins[c].spendTx
             /\ coins'[c].spendHeight =
                    IF c \in set THEN spender(c).height ELSE coins[c].spendHeight
             /\ coins'[c].fromSelf = coins[c].fromSelf
    <2>1. \A c \in DOMAIN coins : coins[c] \in Row
        BY <1>6 DEF Maps
    <2> HIDE DEF set
    <2>2. QED BY <1>5, <2>1 DEF Row
<1> HIDE DEF rows, set
<1>9. LinkedInv' /\ Present(dbTip)'
    BY <1>4, <1>6, <1>7, <1>8, WalletAssumption DEF LinkedInv, Present
<1>10. ASSUME crashes = 0
       PROVE  RowsOn(tip)' /\ HasConfirmed(dbTip)' /\ HasSpent(dbTip)'
    <2>1. RowsOn(tip)'
        BY <1>4, <1>6, <1>7, <1>8, <1>10 DEF RowsOn
    <2>2. HasConfirmed(dbTip)'
        BY <1>4, <1>6, <1>8, <1>10 DEF HasConfirmed
    <2>3. ASSUME NEW c \in set, NEW t \in Tx, NEW h \in Heights, At(t, h, tip), c \in Ins[t]
          PROVE  spender(c).tx = t /\ spender(c).height = h
        <3>1. spender(c).tx = t
            BY <1>6, <1>7, <2>3, OneSpender
        <3>2. QED BY <1>6, <1>7, <2>3, <3>1, AtOn
    <2>4. HasSpent(dbTip)'
        BY <1>4, <1>6, <1>8, <1>10, <2>3 DEF HasSpent
    <2>5. QED BY <2>1, <2>2, <2>4
<1>11. TableInv'
    <2>1. pc' \in WriteStates \ {"SetTip"}
        BY <1>5 DEF WriteStates
    <2>2. QED BY <1>3, <1>4, <1>8, <1>9, <1>10, <2>1, Committed
<1>12. ReceivedInv'
    BY <1>2, <1>4, <1>5, <1>6, <1>8
    DEF PollInv, ReadInv, ReceivedInv, ToInsert, ToSetTip, WriteStates
<1>13. ConfirmedInv'
    BY <1>2, <1>4, <1>5, <1>6, <1>8
    DEF PollInv, ReadInv, ConfirmedInv, ToInsert, ToSetTip, ToRemove, ToConfirm, WriteStates
<1>14. SpendingInv'
    BY <1>5 DEF SpendingInv, ToInsert, ToRemove, ToConfirm, ToSpend
<1>15. SpentInv'
    <2>1. ASSUME NEW c \in Coin, NEW t \in TxsOn(tip), c \in Ins[t]
          PROVE  c \in DOMAIN coins' /\ coins'[c].spendHeight # NoHeight
        <3>1. TxOf[c] \in TxsOn(tip)
            BY <1>6, <2>1, SpentOn
        <3>2. c \in DOMAIN coins
            BY <1>2, <1>6, <3>1 DEF PollInv, ReadInv, ReceivedInv, ToInsert, ToSetTip, WriteStates
        <3>3. c \in set \/ coins[c].spendHeight # NoHeight
            BY <1>2, <1>6, <2>1 DEF PollInv, ReadInv, SpentInv, ToConfirmSpend, set
        <3>4. QED BY <1>6, <1>7, <1>8, <3>2, <3>3
    <2>2. QED
        BY <1>4, <1>5, <2>1
        DEF SpentInv, ToConfirmSpend, ToSpend, ToConfirm, ToRemove, ToInsert
<1>16. QED BY <1>4, <1>11, <1>12, <1>13, <1>14, <1>15 DEF PollInv, ReadInv

\* update_tip(): what was recorded becomes what the table promises.
LEMMA SetTipStep ==
    ASSUME IInv, PollInv, SetTip
    PROVE  PollInv'
<1>1. /\ pc = "SetTip" /\ pc' = "Polled" /\ dbTip' = tip
      /\ UNCHANGED <<blocks, best, mempool, known, reorgs, coins, tip, crashes>>
    BY DEF SetTip, GoTo, chainVars
<1>2. pc \in WriteStates
    BY <1>1 DEF WriteStates
<1>3. /\ ChainInv /\ TreeInv /\ tip \in DOMAIN blocks /\ LinkedInv /\ Sound
      /\ DOMAIN coins \subseteq Coin
      /\ \A t, h : At(t, h, tip) => h # NoHeight /\ t \in TxsOn(tip)
      /\ crashes = 0 => RowsOn(tip)
    BY <1>2, WriteState
<1>4. \A b : /\ Chain(b)' = Chain(b) /\ TxsOn(b)' = TxsOn(b)
             /\ \A t, h : At(t, h, b)' <=> At(t, h, b)
             /\ \A t, h : MatureAt(t, h, b)' <=> MatureAt(t, h, b)
    BY <1>1 DEF TxsOn, Chain, Height, At, MatureAt
<1>5. \A c \in Coin : TxOf[c] \in TxsOn(tip) => c \in DOMAIN coins
    BY <1>1, <1>3 DEF PollInv, ReadInv, ReceivedInv, ToInsert, ToSetTip, WriteStates
<1>6. \A c \in Coin, h \in Heights :
          MatureAt(TxOf[c], h, tip) => c \in DOMAIN coins /\ coins[c].height # NoHeight
    BY <1>1, <1>3
    DEF PollInv, ReadInv, ConfirmedInv, ToInsert, ToRemove, ToConfirm, ToSetTip, WriteStates
<1>7. \A c \in Coin, t \in TxsOn(tip) :
          c \in Ins[t] => c \in DOMAIN coins /\ coins[c].spendHeight # NoHeight
    BY <1>1, <1>3
    DEF PollInv, ReadInv, SpentInv, ToConfirmSpend, ToSpend, ToConfirm, ToRemove, ToInsert
<1>8. TreeInv'
    BY <1>1, <1>3, TreeStays
<1>9. LinkedInv' /\ Present(dbTip)' /\ EndInv'
    BY <1>1, <1>3, <1>4, <1>5, <1>6 DEF LinkedInv, Present, EndInv
<1>10. ASSUME crashes = 0
       PROVE  RowsOn(tip) /\ HasConfirmed(tip) /\ HasSpent(tip)
    <2>1. RowsOn(tip)
        BY <1>3, <1>10
    <2>2. \A t, h, k : At(t, h, tip) /\ At(t, k, tip) => h = k
        BY <1>3, AtOn
    <2>3. HasConfirmed(tip)
        BY <1>6, <2>1, <2>2 DEF HasConfirmed, RowsOn, MatureAt
    <2>4. ASSUME NEW c \in Coin, NEW t \in Tx, NEW h \in Heights, At(t, h, tip), c \in Ins[t]
          PROVE  c \in DOMAIN coins /\ coins[c].spendTx = t /\ coins[c].spendHeight = h
        <3>1. c \in DOMAIN coins /\ coins[c].spendHeight # NoHeight
            BY <1>3, <1>7, <2>4
        <3>2. /\ At(coins[c].spendTx, coins[c].spendHeight, tip)
              /\ c \in Ins[coins[c].spendTx]
            BY <1>3, <2>1, <3>1 DEF RowsOn, LinkedInv
        <3>3. coins[c].spendTx = t
            BY <1>3, <2>4, <3>2, OneSpender
        <3>4. QED BY <2>2, <2>4, <3>1, <3>2, <3>3
    <2>5. HasSpent(tip)
        BY <2>4 DEF HasSpent
    <2>6. QED BY <2>1, <2>3, <2>5
<1>11. LedgerInv'
    BY <1>1, <1>4, <1>10 DEF LedgerInv, RowsOn, HasConfirmed, HasSpent, Recording, WriteStates
<1>12. FromSelfInv'
    BY <1>1, <1>4 DEF PollInv, TableInv, FromSelfInv, OwnLineage
<1>13. QED BY <1>1, <1>8, <1>9, <1>11, <1>12, NothingRead DEF PollInv, TableInv

-----------------------------------------------------------------------------
(* Coins from self. *)

\* A lineage holds the parents of its members, and is the least such set.
LEMMA LineageClosed ==
    ASSUME NEW t \in Tx
    PROVE  /\ t \in Lineage[t] /\ Lineage[t] \subseteq Tx
           /\ \A u \in Lineage[t] : Parents(u) \subseteq Lineage[t]
           /\ \A S \in SUBSET Tx :
                  t \in S /\ (\A v \in S : Parents(v) \subseteq S) => Lineage[t] \subseteq S
<1> DEFINE Closed(S) == t \in S /\ \A v \in S : Parents(v) \subseteq S
<1>1. Lineage[t] = {u \in Tx : \A S \in SUBSET Tx : Closed(S) => u \in S}
    BY DEF Lineage
<1>2. \A u : Parents(u) \subseteq Tx
    BY WalletAssumption DEF Parents
<1> HIDE DEF Closed
<1>3. t \in Lineage[t] /\ Lineage[t] \subseteq Tx
    BY <1>1 DEF Closed
<1>4. \A S \in SUBSET Tx : Closed(S) => Lineage[t] \subseteq S
    BY <1>1
<1>5. ASSUME NEW u \in Lineage[t], NEW p \in Parents(u)
      PROVE  p \in Lineage[t]
    <2>1. ASSUME NEW S \in SUBSET Tx, Closed(S) PROVE p \in S
        BY <1>1, <2>1 DEF Closed
    <2>2. QED BY <1>1, <1>2, <2>1
<1>6. QED BY <1>3, <1>4, <1>5 DEF Closed

\* A chain holds the lineage of what it holds.
LEMMA LineageOn ==
    ASSUME ChainInv, TreeInv, NEW b \in DOMAIN blocks, NEW t \in TxsOn(b)
    PROVE  Lineage[t] \subseteq TxsOn(b)
<1>1. TxsOn(b) \in SUBSET Tx
    BY TxsOnTyped
<1>2. ASSUME NEW v \in TxsOn(b) PROVE Parents(v) \subseteq TxsOn(b)
    <2>1. PICK h \in Heights : At(v, h, b)
        BY AtOn
    <2>2. QED BY <2>1, ParentsOn
<1>3. QED BY <1>1, <1>2, LineageClosed

\* A transaction has its own lineage and those of the coins it spends, no other.
LEMMA LineageOfInputs ==
    ASSUME NEW t \in Tx, NEW u \in Lineage[t], u # t
    PROVE  \E d \in Ins[t] \cap Coin : u \in Lineage[TxOf[d]]
<1> DEFINE S == {v \in Tx : v = t \/ \E d \in Ins[t] \cap Coin : v \in Lineage[TxOf[d]]}
<1>1. \A d \in Coin : TxOf[d] \in Tx
    BY WalletAssumption
<1>2. ASSUME NEW v \in S, NEW p \in Parents(v) PROVE p \in S
    <2>1. CASE v = t
        <3>1. PICK d \in Ins[t] \cap Coin : p = TxOf[d]
            BY <2>1 DEF Parents
        <3>2. QED BY <1>1, <3>1, LineageClosed
    <2>2. CASE \E d \in Ins[t] \cap Coin : v \in Lineage[TxOf[d]]
        <3>1. PICK d \in Ins[t] \cap Coin : v \in Lineage[TxOf[d]]
            BY <2>2
        <3>2. p \in Lineage[TxOf[d]] /\ p \in Tx
            BY <1>1, <3>1, LineageClosed
        <3>3. QED BY <3>2
    <2>3. QED BY <2>1, <2>2
<1>3. S \in SUBSET Tx /\ t \in S
    OBVIOUS
<1>4. u \in S
    <2> HIDE DEF S
    <2>1. QED BY <1>2, <1>3, LineageClosed
<1>5. QED BY <1>4

\* update_coins_from_self(): a coin it marks, and that is not confirmed, descends from
\* coins of the wallet alone.
LEMMA FromSelfOwn ==
    ASSUME IInv, PollInv, pc = "FromSelf", crashes = 0,
           NEW c \in DOMAIN coins, c \in FromSelfCoins, coins[c].height = NoHeight
    PROVE  OwnLineage(c, tip)
<1>1. /\ ChainInv /\ TreeInv /\ tip \in DOMAIN blocks /\ LinkedInv
      /\ Maps(coins, Row) /\ DOMAIN coins \subseteq Coin
      /\ \A t, h : At(t, h, tip) => t \in TxsOn(tip)
      /\ TxsOn(dbTip) \subseteq TxsOn(tip)
      /\ RowsOn(tip)
    BY WriteState DEF WriteStates
<1> DEFINE own == {d \in DOMAIN coins : coins[d].height # NoHeight \/ OwnLineage(d, tip)}
<1>2. {d \in DOMAIN coins : coins[d].fromSelf} \subseteq own
    <2>1. \A d \in DOMAIN coins :
              coins[d].fromSelf /\ coins[d].height = NoHeight => OwnLineage(d, dbTip)
        BY DEF PollInv, TableInv, FromSelfInv
    <2>2. QED BY <1>1, <2>1 DEF OwnLineage
<1>3. ASSUME NEW e \in DOMAIN coins,
             CountedInputs(TxOf[e], own) # {},
             Cardinality(CountedInputs(TxOf[e], own)) = Cardinality(Ins[TxOf[e]])
      PROVE  OwnLineage(e, tip)
    <2> DEFINE t == TxOf[e]
               counted == CountedInputs(t, own)
    <2>1. t \in Tx /\ IsFiniteSet(Ins[t]) /\ t # NoTx
        BY <1>1, WalletAssumption
    <2>2. counted \subseteq DOMAIN coins /\ counted \subseteq Ins[t] /\ counted \subseteq own
        <3>1. \A d \in counted : d \in DOMAIN coins /\ coins[d].spendTx = t
            BY DEF CountedInputs
        <3>2. counted \subseteq Ins[t]
            BY <1>1, <2>1, <3>1 DEF LinkedInv
        <3>3. counted \subseteq own
            BY DEF CountedInputs
        <3> HIDE DEF counted
        <3>4. QED BY <3>1, <3>2, <3>3
    <2>3. counted = Ins[t]
        <3> HIDE DEF counted
        <3>1. Cardinality(counted) = Cardinality(Ins[t])
            BY <1>3 DEF counted
        <3>2. QED BY <2>1, <2>2, <3>1, FS_Subset
    <2>4. Ins[t] # {} /\ Ins[t] \subseteq DOMAIN coins /\ Ins[t] \subseteq own
        <3> HIDE DEF counted, own
        <3>1. counted # {}
            BY <1>3 DEF counted
        <3>2. QED BY <2>2, <2>3, <3>1
    <2> HIDE DEF counted
    <2>5. ASSUME NEW u \in Lineage[t], u \notin TxsOn(tip)
          PROVE  Ins[u] # {} /\ Ins[u] \subseteq Coin
        <3>1. CASE u = t
            BY <1>1, <2>4, <3>1
        <3>2. CASE u # t
            <4>1. PICK d \in Ins[t] \cap Coin : u \in Lineage[TxOf[d]]
                BY <2>1, <3>2, LineageOfInputs
            <4>2. d \in DOMAIN coins /\ (coins[d].height # NoHeight \/ OwnLineage(d, tip))
                BY <2>4, <4>1
            <4>3. CASE coins[d].height # NoHeight
                <5>1. TxOf[d] \in TxsOn(tip)
                    BY <1>1, <4>2, <4>3 DEF RowsOn
                <5>2. QED BY <1>1, <2>5, <4>1, <5>1, LineageOn
            <4>4. CASE OwnLineage(d, tip)
                BY <2>5, <4>1, <4>4 DEF OwnLineage
            <4>5. QED BY <4>2, <4>3, <4>4
        <3>3. QED BY <3>1, <3>2
    <2>6. QED BY <2>5 DEF OwnLineage
<1>4. c \in own
    <2>1. own \in SUBSET DOMAIN coins
        OBVIOUS
    <2>2. \A e \in DOMAIN coins :
              /\ coins[e].height = NoHeight \/ coins[e].height > Height(dbTip)
              /\ CountedInputs(TxOf[e], own) # {}
              /\ Cardinality(CountedInputs(TxOf[e], own)) = Cardinality(Ins[TxOf[e]])
              => e \in own
        BY <1>3
    <2> HIDE DEF own
    <2>3. QED BY <1>2, <2>1, <2>2 DEF FromSelfCoins
<1>5. QED BY <1>4

\* Marking the coins from self keeps the invariant.
LEMMA FromSelfStep ==
    ASSUME IInv, PollInv, UpdateFromSelf
    PROVE  PollInv'
<1> DEFINE rows == [c \in DOMAIN coins |->
                       IF c \in FromSelfCoins THEN [coins[c] EXCEPT !.fromSelf = TRUE]
                                              ELSE coins[c]]
<1>1. pc = "FromSelf" /\ Write(TRUE, rows, "SetTip")
    BY DEF UpdateFromSelf, UpdatedRows
<1>2. pc \in WriteStates \ {"SetTip"} /\ "SetTip" \in WriteStates
    BY <1>1 DEF WriteStates
<1>3. /\ UNCHANGED <<blocks, best, mempool, known, reorgs, dbTip, tip, updated, crashes>>
      /\ \/ PollInv'
         \/ pc' = "SetTip" /\ coins' = rows
      /\ \A b : /\ Chain(b)' = Chain(b) /\ TxsOn(b)' = TxsOn(b)
                /\ \A t, h : At(t, h, b)' <=> At(t, h, b)
                /\ \A t, h : MatureAt(t, h, b)' <=> MatureAt(t, h, b)
      /\ TreeInv' /\ PlaceInv' /\ EndInv'
    <2> HIDE DEF rows
    <2>1. QED BY <1>1, <1>2, WriteCommits
<1>4. SUFFICES ASSUME pc' = "SetTip", coins' = rows PROVE PollInv'
    BY <1>3
<1>5. /\ LinkedInv /\ Present(dbTip) /\ Sound /\ Maps(coins, Row)
      /\ TxsOn(dbTip) \subseteq TxsOn(tip)
      /\ crashes = 0 => RowsOn(tip) /\ HasConfirmed(dbTip) /\ HasSpent(dbTip)
    BY <1>2, WriteState
<1>6. /\ DOMAIN coins' = DOMAIN coins
      /\ \A c \in DOMAIN coins :
             /\ coins'[c].height = coins[c].height
             /\ coins'[c].spendTx = coins[c].spendTx
             /\ coins'[c].spendHeight = coins[c].spendHeight
             /\ coins'[c].fromSelf => coins[c].fromSelf \/ c \in FromSelfCoins
    <2>1. \A c \in DOMAIN coins : coins[c] \in Row
        BY <1>5 DEF Maps
    <2>2. QED BY <1>4, <2>1 DEF Row
<1> HIDE DEF rows
<1>7. LinkedInv' /\ Present(dbTip)'
    BY <1>3, <1>5, <1>6 DEF LinkedInv, Present
<1>8. LedgerInv'
    <2>1. crashes = 0 => RowsOn(tip)'
        BY <1>3, <1>5, <1>6 DEF RowsOn
    <2>2. crashes = 0 => HasConfirmed(dbTip)' /\ HasSpent(dbTip)'
        BY <1>3, <1>5, <1>6 DEF HasConfirmed, HasSpent
    <2>3. QED BY <1>3, <1>4, <2>1, <2>2 DEF LedgerInv, Recording, WriteStates
<1>9. FromSelfInv'
    <2>1. ASSUME crashes = 0, NEW c \in DOMAIN coins, coins'[c].fromSelf,
                 coins[c].height = NoHeight
          PROVE  OwnLineage(c, tip)
        <3>1. CASE c \in FromSelfCoins
            BY <1>1, <2>1, <3>1, FromSelfOwn
        <3>2. CASE coins[c].fromSelf
            <4>1. OwnLineage(c, dbTip)
                BY <1>1, <2>1, <3>2 DEF PollInv, TableInv, FromSelfInv
            <4>2. QED BY <1>5, <4>1 DEF OwnLineage
        <3>3. QED BY <1>6, <2>1, <3>1, <3>2
    <2>2. QED BY <1>3, <1>4, <1>6, <2>1 DEF FromSelfInv, OwnLineage
<1>10. TableInv'
    BY <1>3, <1>7, <1>8, <1>9 DEF TableInv
<1>11. ReceivedInv'
    BY <1>1, <1>3, <1>4, <1>5, <1>6
    DEF PollInv, ReadInv, ReceivedInv, ToInsert, ToSetTip, WriteStates
<1>12. ConfirmedInv'
    BY <1>1, <1>3, <1>4, <1>5, <1>6
    DEF PollInv, ReadInv, ConfirmedInv, ToInsert, ToSetTip, ToRemove, ToConfirm, WriteStates
<1>13. SpendingInv' /\ SpentInv'
    BY <1>1, <1>3, <1>4, <1>5, <1>6
    DEF PollInv, ReadInv, SpendingInv, SpentInv, ToInsert, ToRemove, ToConfirm, ToSpend,
        ToConfirmSpend
<1>14. QED BY <1>3, <1>10, <1>11, <1>12, <1>13 DEF PollInv, ReadInv

-----------------------------------------------------------------------------
\* The initial states satisfy the invariant of a poll.
LEMMA PollInit == Init => PollInv
<1> SUFFICES ASSUME Init PROVE PollInv
    OBVIOUS
<1>1. /\ blocks = [b \in {0} |-> [height |-> 0, anc |-> {0}, txs |-> {}]]
      /\ pc = "Idle" /\ dbTip = 0 /\ coins = None
    BY DEF Init, ChainInit
<1>2. Chain(0) = {0} /\ TxsOn(0) = {} /\ Height(0) = 0
    BY <1>1 DEF Chain, TxsOn, Height
<1>3. \A t, h : ~At(t, h, 0)
    BY <1>1, <1>2 DEF At
<1>4. TreeInv
    BY <1>1, <1>2 DEF TreeInv
<1>5. LinkedInv /\ Present(dbTip) /\ LedgerInv
    BY <1>1, <1>2, <1>3
    DEF LinkedInv, Present, LedgerInv, RowsOn, HasConfirmed, HasSpent, MatureAt, None,
        Recording, WriteStates
<1>6. EndInv /\ FromSelfInv
    BY <1>1 DEF EndInv, FromSelfInv, None
<1>7. ReadInv
    BY <1>1 DEF ReadInv, PlaceInv, ReceivedInv, ConfirmedInv, SpendingInv, SpentInv,
                ToInsert, ToSetTip, ToRemove, ToConfirm, ToSpend, ToConfirmSpend, WriteStates
<1>8. QED BY <1>4, <1>5, <1>6, <1>7 DEF PollInv, TableInv

\* Every step keeps it.
LEMMA PollNext == IInv /\ PollInv /\ [Next]_vars => PollInv'
<1> SUFFICES ASSUME IInv, PollInv, [Next]_vars PROVE PollInv'
    OBVIOUS
<1>1. CASE Node
    BY <1>1, NodeStep
<1>2. CASE StartPoll \/ Queries \/ FinishPoll
    BY <1>2, StartPollStep, FetchTipStep, CheckInChainStep, FindAncestorStep,
       ReadReceivedStep, ReadConfirmedStep, ReadSpendingStep, ReadSpentStep, CheckTipStep,
       FinishPollStep
    DEF Queries
<1>3. CASE Writes
    BY <1>3, RollbackStep, AddTxsStep, InsertStep, RemoveStep, ConfirmStep, UnspendStep,
       SpendStep, ConfirmSpendStep, FromSelfStep, SetTipStep
    DEF Writes
<1>4. CASE Crash
    BY <1>4, CrashStep
<1>5. CASE UNCHANGED vars
    <2>1. UNCHANGED <<blocks, best, mempool, known, reorgs, pc, dbTip, coins, savedTxs,
                      tip, updated, crashes>>
        BY <1>5 DEF vars, chainVars, pollerVars, dbVars
    <2>2. \A b : /\ Chain(b)' = Chain(b) /\ TxsOn(b)' = TxsOn(b)
                 /\ \A t, h : At(t, h, b)' <=> At(t, h, b)
                 /\ \A t, h : MatureAt(t, h, b)' <=> MatureAt(t, h, b)
        BY <2>1 DEF TxsOn, Chain, Height, At, MatureAt
    <2>3. TreeInv'
        BY <2>1, TreeStays DEF PollInv, TableInv
    <2>4. LinkedInv' /\ Present(dbTip)' /\ LedgerInv'
        BY <2>1, <2>2
        DEF PollInv, TableInv, LinkedInv, Present, LedgerInv, RowsOn, HasConfirmed, HasSpent
    <2>5. EndInv' /\ FromSelfInv'
        BY <2>1, <2>2 DEF PollInv, TableInv, EndInv, FromSelfInv, OwnLineage
    <2>6. PlaceInv' /\ ReceivedInv' /\ ConfirmedInv'
        BY <2>1, <2>2 DEF PollInv, ReadInv, PlaceInv, ReceivedInv, ConfirmedInv, Sound
    <2>7. SpendingInv' /\ SpentInv'
        BY <2>1, <2>2 DEF PollInv, ReadInv, SpendingInv, SpentInv, Sound
    <2>8. QED BY <2>3, <2>4, <2>5, <2>6, <2>7 DEF PollInv, TableInv, ReadInv
<1>6. QED BY <1>1, <1>2, <1>3, <1>4, <1>5 DEF Next, Poll

\* Both invariants hold in every reachable state.
LEMMA PollInvariant == Spec => [](IInv /\ PollInv)
<1>1. Init => IInv /\ PollInv
    BY InitIInv, PollInit
<1>2. (IInv /\ PollInv) /\ [Next]_vars => (IInv /\ PollInv)'
    BY NextKeeps, PollNext
<1>3. QED BY <1>1, <1>2, PTL DEF Spec

-----------------------------------------------------------------------------
(* What follows for the tables. *)

\* While a poll records, the stored tip is on the chain it reads.
LEMMA TipPlace ==
    ASSUME IInv, PollInv, pc \in Recording
    PROVE  dbTip \in Chain(tip)
BY DEF PollInv, ReadInv, PlaceInv, Sound, ToSetTip, Recording

\* Without a crash the table has no more than the stored tip's chain has.
LEMMA NotMoreHolds ==
    ASSUME IInv, PollInv, crashes = 0
    PROVE  NotMore
<1> DEFINE recorded == IF pc \in Recording THEN tip ELSE dbTip
<1>1. /\ ChainInv /\ TreeInv /\ {dbTip, tip} \subseteq DOMAIN blocks /\ LinkedInv
      /\ RowsOn(recorded)
    BY InvTypes DEF PollInv, TableInv, LedgerInv
<1>2. dbTip \in Chain(recorded)
    BY <1>1, TipPlace, BlocksTyped
<1>3. recorded \in DOMAIN blocks
    BY <1>1
<1> HIDE DEF recorded
<1>4. ASSUME NEW t, NEW h, At(t, h, recorded), h \in 0 .. Height(dbTip)
      PROVE  HeightOn(t, dbTip) = h
    <2>1. At(t, h, dbTip)
        BY <1>1, <1>2, <1>3, <1>4, ChainBelow
    <2>2. QED BY <1>1, <2>1, AtOn
<1>5. \A h : h \in 0 .. Height(dbTip) => h # NoHeight
    BY DEF NoHeight
<1>6. QED BY <1>1, <1>4, <1>5 DEF NotMore, RowsOn, LinkedInv

\* Without a crash the table has all that the stored tip's chain has.
LEMMA AllUpdatesHolds ==
    ASSUME IInv, PollInv, crashes = 0
    PROVE  AllUpdates
<1>1. /\ ChainInv /\ TreeInv /\ dbTip \in DOMAIN blocks
      /\ HasConfirmed(dbTip) /\ HasSpent(dbTip)
    BY InvTypes DEF PollInv, TableInv, LedgerInv
<1>2. ASSUME NEW t \in TxsOn(dbTip)
      PROVE  t \in Tx /\ HeightOn(t, dbTip) \in Heights /\ At(t, HeightOn(t, dbTip), dbTip)
    BY <1>1, AtOn
<1>3. QED BY <1>1, <1>2 DEF AllUpdates, MatureOn, MatureAt, HasConfirmed, HasSpent

\* Without a crash an unconfirmed coin marked as from self has ancestors of the wallet
\* only.
LEMMA FromSelfHolds ==
    ASSUME IInv, PollInv, crashes = 0
    PROVE  FromSelfSound
<1>1. \A c \in DOMAIN coins : coins[c].fromSelf /\ coins[c].height = NoHeight =>
          OwnLineage(c, IF pc = "SetTip" THEN tip ELSE dbTip)
    BY DEF PollInv, TableInv, FromSelfInv
<1>2. pc \in WriteStates => TxsOn(dbTip) \subseteq TxsOn(tip)
    BY WriteState
<1>3. pc = "SetTip" => pc \in WriteStates
    BY DEF WriteStates
<1>4. QED BY <1>1, <1>2, <1>3 DEF FromSelfSound, OwnLineage

\* Crashes or not, the wallet has every coin of the stored tip's chain.
LEMMA NothingLostHolds ==
    ASSUME IInv, PollInv
    PROVE  NothingLost
<1>1. /\ ChainInv /\ TreeInv /\ dbTip \in DOMAIN blocks
      /\ Present(dbTip) /\ EndInv
    BY InvTypes DEF PollInv, TableInv
<1>2. ASSUME NEW t \in TxsOn(dbTip)
      PROVE  HeightOn(t, dbTip) \in Heights /\ At(t, HeightOn(t, dbTip), dbTip)
    BY <1>1, AtOn
<1>3. QED BY <1>1, <1>2 DEF NothingLost, MatureOn, MatureAt, Present, EndInv

\* "But not more" (looper.rs): as long as no poll was cut short, what the table says
\* confirmed or spent up to its tip is what the chain of that tip holds, at those
\* heights, in the middle of a rollback and of a recording too (rollback_tip,
\* confirm_coins, confirm_spend).
THEOREM NoMore == Spec => []NotMoreUnlessCrashed
<1>1. IInv /\ PollInv => NotMoreUnlessCrashed
    BY NotMoreHolds DEF NotMoreUnlessCrashed
<1>2. QED BY PollInvariant, <1>1, PTL

\* "We've got all updates up to this block" (looper.rs): as long as no poll was cut
\* short, the table has every mature coin and every spend of the chain of its tip, at
\* their heights, whatever the node did between two queries (updates).
THEOREM AllThere == Spec => []AllUpdatesUnlessCrashed
<1>1. IInv /\ PollInv => AllUpdatesUnlessCrashed
    BY AllUpdatesHolds DEF AllUpdatesUnlessCrashed
<1>2. QED BY PollInvariant, <1>1, PTL

\* The same, of a poller that is never killed.
THEOREM AllThereWithoutCrash ==
    ASSUME MaxCrashes = 0
    PROVE  Spec => []AllUpdates
<1>1. IInv /\ PollInv => AllUpdates
    <2>1. IInv => crashes = 0
        BY DEF IInv, ControlInv
    <2>2. QED BY <2>1, AllUpdatesHolds
<1>2. QED BY PollInvariant, <1>1, PTL

\* A poller that is never killed marks an unconfirmed coin as from self only when each
\* unconfirmed transaction it descends from spends coins of the wallet, and nothing else
\* (update_coins_from_self; the coin selection relies on it).
THEOREM FromSelf ==
    ASSUME MaxCrashes = 0
    PROVE  Spec => []FromSelfSound
<1>1. IInv /\ PollInv => FromSelfSound
    <2>1. IInv => crashes = 0
        BY DEF IInv, ControlInv
    <2>2. QED BY <2>1, FromSelfHolds
<1>2. QED BY PollInvariant, <1>1, PTL

\* Killed or not, the wallet has every coin of the chain of its tip, and a poll that
\* ends has marked the mature ones as confirmed (update_coins, rollback_tip, and what a
\* restart finds in the tables).
THEOREM NoneLost == Spec => []NothingLost
<1>1. IInv /\ PollInv => NothingLost
    BY NothingLostHolds
<1>2. QED BY PollInvariant, <1>1, PTL

-----------------------------------------------------------------------------
(* Steps. *)

\* Only remove_coins() deletes rows.
LEMMA OthersKeepRows ==
    ASSUME IInv, PollInv, [Next]_vars, ~RemoveExpired
    PROVE  DOMAIN coins \subseteq DOMAIN coins'
<1>1. CASE Node \/ StartPoll \/ Queries \/ FinishPoll \/ AddTxs \/ SetTip \/ Crash \/ UNCHANGED vars
    <2>1. coins' = coins
        BY <1>1 DEF Node, StartPoll, Queries, FinishPoll, AddTxs, SetTip, Crash, vars, pollerVars,
                    dbVars, Read, FetchTip, CheckInChain, FindAncestor, ReadReceived,
                    ReadConfirmed, ReadSpending, ReadSpent, CheckTip
    <2>2. QED BY <2>1
<1>2. CASE Rollback
    BY <1>2 DEF Rollback, RollbackTip
<1>3. CASE InsertReceived
    BY <1>3 DEF InsertReceived, Write
<1>4. CASE ConfirmCoins
    BY <1>4 DEF ConfirmCoins, UpdatedRows, Write
<1>5. CASE UnspendExpired
    BY <1>5 DEF UnspendExpired, UpdatedRows, Write
<1>6. CASE SpendCoins
    BY <1>6 DEF SpendCoins, UpdatedRows, Write
<1>7. CASE ConfirmSpend
    BY <1>7 DEF ConfirmSpend, UpdatedRows, Write
<1>8. CASE UpdateFromSelf
    BY <1>8 DEF UpdateFromSelf, UpdatedRows, Write
<1>9. QED BY <1>1, <1>2, <1>3, <1>4, <1>5, <1>6, <1>7, <1>8 DEF Next, Poll, Writes

\* A row goes only when it is not confirmed and the chain that is being recorded does
\* not have its transaction, killed before or not (remove_coins, with what
\* confirmed_coins said expired).
THEOREM OnlyExpiredGo == Spec => OnlyExpiredRemoved
<1>1. IInv /\ PollInv /\ [Next]_vars =>
          [\A c \in DOMAIN coins \ DOMAIN coins' :
              coins[c].height = NoHeight /\ TxOf[c] \notin TxsOn(tip)]_coins
    <2> SUFFICES ASSUME IInv, PollInv, [Next]_vars, NEW c \in DOMAIN coins \ DOMAIN coins'
                 PROVE  coins[c].height = NoHeight /\ TxOf[c] \notin TxsOn(tip)
        OBVIOUS
    <2>1. RemoveExpired
        BY OthersKeepRows
    <2>2. pc = "Remove" /\ c \in updated.expired
        BY <2>1 DEF RemoveExpired, Write
    <2>3. Sound
        BY <2>2 DEF Sound, WriteStates
    <2>4. QED BY <2>2, <2>3 DEF PollInv, ReadInv, ConfirmedInv, ToRemove
<1>2. QED BY PollInvariant, <1>1, PTL DEF Spec, OnlyExpiredRemoved

-----------------------------------------------------------------------------
(* The database constraints. *)

\* Whatever spends a coin of the wallet has an output of the wallet.
LeavesChange == \A t \in Tx : Ins[t] \cap Coin # {} => \E d \in Coin : TxOf[d] = t

\* The transactions that the rows refer to are saved; what is to be saved is known to
\* the node's wallet, and is saved before a row refers to it.
SavedInv ==
    /\ pc # "Panicked"
    /\ \A c \in DOMAIN coins : {TxOf[c], coins[c].spendTx} \subseteq savedTxs \cup {NoTx}
    /\ pc \in ToInsert => \A c \in DOMAIN updated.received : TxOf[c] \in known
    /\ pc \in {"Spent", "Check", "AddTxs"} =>
          \A c \in DOMAIN updated.spending : updated.spending[c] \in known
    /\ pc = "Insert" => \A c \in DOMAIN updated.received : TxOf[c] \in savedTxs
    /\ pc \in {"Insert", "Remove", "Confirm", "Unspend", "Spend"} =>
          \A c \in DOMAIN updated.spending : updated.spending[c] \in savedTxs

\* The node's wallet forgets nothing.
LEMMA KnownGrows ==
    ASSUME ChainNext
    PROVE  known \subseteq known'
BY DEF ChainNext, Mine, Accept, Evict

\* A query keeps the rows: what it finds is known to the node's wallet.
LEMMA QuerySaved ==
    ASSUME IInv, PollInv, SavedInv, StartPoll \/ Queries \/ FinishPoll
    PROVE  SavedInv'
<1>1. /\ UNCHANGED <<known, coins, savedTxs>>
      /\ pc \in {"Idle", "Polled"} \cup QueryStates
    BY DEF StartPoll, Queries, FinishPoll, FetchTip, CheckInChain, FindAncestor, ReadReceived,
           ReadConfirmed, ReadSpending, ReadSpent, CheckTip, Read, chainVars, dbVars, QueryStates
<1>2. UpdatedTypeOK
    BY InvTypes DEF PollInv, TableInv
<1>3. CASE StartPoll \/ FetchTip \/ CheckInChain \/ FindAncestor \/ FinishPoll
    <2>1. pc' \in {"Idle", "Tip", "InChain", "Ancestor", "Rollback", "Received"}
        BY <1>3 DEF StartPoll, FetchTip, CheckInChain, FindAncestor, FinishPoll, Read, GoTo
    <2>2. QED BY <1>1, <2>1 DEF SavedInv, ToInsert
<1>4. CASE ReadReceived
    <2>1. /\ pc' = "Confirmed"
          /\ DOMAIN updated'.received = NewlyReceived
        BY <1>2, <1>4 DEF ReadReceived, Read, GoTo, UpdatedTypeOK
    <2>2. \A c \in NewlyReceived : TxOf[c] \in known
        BY DEF NewlyReceived, Received, ReceivedCoins, ListedSince
    <2>3. QED BY <1>1, <2>1, <2>2 DEF SavedInv
<1>5. CASE ReadConfirmed
    <2>1. pc = "Confirmed" /\ pc' = "Spending" /\ updated'.received = updated.received
        BY <1>2, <1>5 DEF ReadConfirmed, Read, GoTo, UpdatedTypeOK
    <2>2. QED BY <1>1, <2>1 DEF SavedInv, ToInsert
<1>6. CASE ReadSpending
    <2> DEFINE settled == {c \in DOMAIN coins : /\ coins[c].spendTx # NoTx
                                                /\ coins[c].spendHeight # NoHeight}
               toBeSpent == (DOMAIN coins \cup DOMAIN updated.received)
                                \ (settled \cup updated.expired)
    <2>1. PICK spending \in SpendingCoins(toBeSpent) :
              updated' = [updated EXCEPT !.spending = spending]
        BY <1>6 DEF ReadSpending
    <2>2. /\ pc = "Spending" /\ pc' = "Spent" /\ updated'.received = updated.received
          /\ updated'.spending = spending
        BY <1>2, <1>6, <2>1 DEF ReadSpending, Read, GoTo, UpdatedTypeOK
    <2>3. \A c \in DOMAIN spending : spending[c] \in known
        BY DEF SpendingCoins, Spenders, ListedSince
    <2>4. QED BY <1>1, <2>2, <2>3 DEF SavedInv, ToInsert
<1>7. CASE ReadSpent
    <2>1. /\ pc = "Spent" /\ pc' = "Check" /\ updated'.received = updated.received
          /\ updated'.spending = updated.spending
        BY <1>2, <1>7 DEF ReadSpent, Read, GoTo, UpdatedTypeOK
    <2>2. QED BY <1>1, <2>1 DEF SavedInv, ToInsert
<1>8. CASE CheckTip
    <2>1. pc = "Check" /\ pc' \in {"Tip", "AddTxs"} /\ updated' = updated
        BY <1>8 DEF CheckTip, Read, GoTo
    <2>2. QED BY <1>1, <2>1 DEF SavedInv, ToInsert
<1>9. QED BY <1>3, <1>4, <1>5, <1>6, <1>7, <1>8 DEF Queries

\* What is recorded before the spends are: no write breaks a constraint.
LEMMA FirstWritesSaved ==
    ASSUME IInv, PollInv, SavedInv, Rollback \/ AddTxs \/ InsertReceived \/ RemoveExpired
    PROVE  SavedInv'
<1>1. Maps(coins, Row)
    BY InvTypes DEF PollInv, TableInv
<1>2. CASE Rollback
    <2>1. /\ UNCHANGED savedTxs /\ pc' = "Tip"
          /\ coins' = [c \in DOMAIN coins |-> RolledBack(coins[c], Height(tip))]
        BY <1>2 DEF Rollback, RollbackTip, GoTo
    <2>2. \A c \in DOMAIN coins : coins'[c].spendTx = coins[c].spendTx
        BY <1>1, <2>1 DEF RolledBack, Row, Maps
    <2>3. QED BY <2>1, <2>2 DEF SavedInv, ToInsert
<1>3. CASE AddTxs
    <2>1. \A c \in DOMAIN updated.received : TxOf[c] \in NeededTxs /\ TxOf[c] \in known
        BY <1>3 DEF AddTxs, NeededTxs, DepositTxs, SavedInv, ToInsert
    <2>2. \A c \in DOMAIN updated.spending :
              updated.spending[c] \in NeededTxs /\ updated.spending[c] \in known
        BY <1>3 DEF AddTxs, NeededTxs, SavedInv
    <2>3. NeededTxs \subseteq known
        BY <2>1, <2>2 DEF NeededTxs, DepositTxs
    <2>4. /\ UNCHANGED <<coins, updated, known>> /\ pc = "AddTxs" /\ pc' = "Insert"
          /\ savedTxs' = savedTxs \cup NeededTxs
        BY <1>3, <2>3 DEF AddTxs, GoTo, chainVars
    <2>5. QED BY <2>1, <2>2, <2>4 DEF SavedInv, ToInsert
<1>4. CASE InsertReceived
    <2> DEFINE new == DOMAIN updated.received
               fresh(c) == [height |-> NoHeight, spendTx |-> NoTx,
                            spendHeight |-> NoHeight, fromSelf |-> FALSE,
                            immature |-> updated.received[c]]
               rows == [c \in DOMAIN coins \cup new |->
                           IF c \in new THEN fresh(c) ELSE coins[c]]
    <2>1. pc = "Insert" /\ new \cap DOMAIN coins = {} /\ \A c \in new : TxOf[c] \in savedTxs
        BY <1>4 DEF InsertReceived, SavedInv, PollInv, ReadInv, ReceivedInv, ToInsert
    <2>2. UNCHANGED <<savedTxs, updated>> /\ pc' = "Remove" /\ coins' = rows
        BY <1>4, <2>1 DEF InsertReceived, Write, GoTo
    <2>3. \A c \in DOMAIN rows : {TxOf[c], rows[c].spendTx} \subseteq savedTxs \cup {NoTx}
        BY <2>1 DEF SavedInv
    <2> HIDE DEF rows, new
    <2>4. QED BY <2>1, <2>2, <2>3 DEF SavedInv, ToInsert
<1>5. CASE RemoveExpired
    <2>1. /\ UNCHANGED <<savedTxs, updated>> /\ pc = "Remove" /\ pc' = "Confirm"
          /\ coins' = [c \in DOMAIN coins \ updated.expired |-> coins[c]]
        BY <1>5 DEF RemoveExpired, Write, GoTo
    <2>2. QED BY <2>1 DEF SavedInv, ToInsert
<1>6. QED BY <1>2, <1>3, <1>4, <1>5

\* The rows from the confirmations on: a confirmed spend that was not the one found
\* first left the wallet a coin, whose row refers to it.
LEMMA LastWritesSaved ==
    ASSUME IInv, PollInv, SavedInv, LeavesChange,
           ConfirmCoins \/ UnspendExpired \/ SpendCoins \/ ConfirmSpend \/ UpdateFromSelf \/ SetTip
    PROVE  SavedInv'
<1>1. \A c \in DOMAIN coins : coins[c] \in Row
    BY InvTypes DEF PollInv, TableInv, Maps
<1>2. CASE ConfirmCoins
    <2>1. /\ UNCHANGED <<savedTxs, updated>> /\ pc = "Confirm" /\ pc' = "Unspend"
          /\ coins' = UpdatedRows(DOMAIN updated.confirmed, ConfirmedRow)
        BY <1>2 DEF ConfirmCoins, Write, GoTo
    <2>2. DOMAIN coins' = DOMAIN coins /\ \A c \in DOMAIN coins : coins'[c].spendTx = coins[c].spendTx
        BY <1>1, <2>1 DEF UpdatedRows, ConfirmedRow, Row
    <2>3. QED BY <2>1, <2>2 DEF SavedInv, ToInsert
<1>3. CASE UnspendExpired
    <2>1. UNCHANGED <<savedTxs, updated>> /\ pc = "Unspend" /\ pc' = "Spend"
        BY <1>3 DEF UnspendExpired, Write, GoTo
    <2>2. coins' = [c \in DOMAIN coins |->
                       IF c \in updated.expiredSpending
                       THEN [coins[c] EXCEPT !.spendTx = NoTx, !.spendHeight = NoHeight]
                       ELSE coins[c]]
        BY <1>3 DEF UnspendExpired, Write, UpdatedRows
    <2>3. /\ DOMAIN coins' = DOMAIN coins
          /\ \A c \in DOMAIN coins : coins'[c].spendTx \in {coins[c].spendTx, NoTx}
        BY <1>1, <2>2 DEF Row
    <2>4. QED BY <2>1, <2>3 DEF SavedInv, ToInsert
<1>4. CASE SpendCoins
    <2>1. pc = "Spend" /\ \A c \in DOMAIN updated.spending : updated.spending[c] \in savedTxs
        BY <1>4 DEF SpendCoins, SavedInv
    <2>2. UNCHANGED <<savedTxs, updated>> /\ pc' = "ConfirmSpend"
        BY <1>4, <2>1 DEF SpendCoins, Write, GoTo
    <2>3. /\ DOMAIN coins' = DOMAIN coins
          /\ \A c \in DOMAIN coins :
                 \/ coins'[c].spendTx = coins[c].spendTx
                 \/ c \in DOMAIN updated.spending /\ coins'[c].spendTx = updated.spending[c]
        BY <1>1, <1>4, <2>1 DEF SpendCoins, Write, UpdatedRows, Row
    <2>4. QED BY <2>1, <2>2, <2>3 DEF SavedInv, ToInsert
<1>5. CASE ConfirmSpend
    <2>1. pc = "ConfirmSpend" /\ Sound
        BY <1>5 DEF ConfirmSpend, Sound, WriteStates
    <2>2. ASSUME NEW s \in updated.spent PROVE s.tx \in savedTxs
        <3>1. s.coin \in Coin /\ s.tx \in Tx
            BY InvTypes DEF PollInv, TableInv, UpdatedTypeOK, Spend
        <3>2. s.coin \in Ins[s.tx] /\ At(s.tx, s.height, tip)
            BY <2>1 DEF PollInv, ReadInv, SpentInv, ToConfirmSpend
        <3>3. s.tx \in TxsOn(tip)
            BY <3>2 DEF At, TxsOn
        <3>4. PICK d \in Coin : TxOf[d] = s.tx
            BY <3>1, <3>2 DEF LeavesChange
        <3>5. d \in DOMAIN coins
            BY <2>1, <3>3, <3>4 DEF PollInv, ReadInv, ReceivedInv, ToSetTip, ToInsert, WriteStates
        <3>6. s.tx # NoTx
            BY <3>1, WalletAssumption
        <3>7. QED BY <3>4, <3>5, <3>6 DEF SavedInv
    <2> DEFINE spender(c) == CHOOSE s \in updated.spent : s.coin = c
               spent == {s.coin : s \in updated.spent}
               New(c, r) == [r EXCEPT !.spendTx = spender(c).tx,
                                      !.spendHeight = spender(c).height]
    <2>3. UNCHANGED <<savedTxs, updated>> /\ pc' = "FromSelf" /\ coins' = UpdatedRows(spent, New)
        BY <1>5, <2>2 DEF ConfirmSpend, Write, GoTo
    <2>4. \A c \in spent : spender(c).tx \in savedTxs
        BY <2>2
    <2> HIDE DEF spender, spent
    <2>5. /\ DOMAIN coins' = DOMAIN coins
          /\ \A c \in DOMAIN coins :
                 \/ coins'[c].spendTx = coins[c].spendTx
                 \/ c \in spent /\ coins'[c].spendTx = spender(c).tx
        <3>1. DOMAIN coins' = DOMAIN coins
            BY <2>3 DEF UpdatedRows
        <3>2. ASSUME NEW c \in DOMAIN coins
              PROVE  \/ coins'[c].spendTx = coins[c].spendTx
                     \/ c \in spent /\ coins'[c].spendTx = spender(c).tx
            <4>1. coins'[c] = IF c \in spent THEN New(c, coins[c]) ELSE coins[c]
                BY <2>3, <3>2 DEF UpdatedRows
            <4>2. New(c, coins[c]).spendTx = spender(c).tx
                BY <1>1, <3>2 DEF Row
            <4> HIDE DEF New
            <4>3. QED BY <4>1, <4>2
        <3>3. QED BY <3>1, <3>2
    <2>6. pc' = "FromSelf" /\ UNCHANGED <<savedTxs, updated>>
        BY <2>3
    <2> HIDE DEF New
    <2>7. QED BY <2>4, <2>5, <2>6 DEF SavedInv, ToInsert
<1>6. CASE UpdateFromSelf
    <2>1. UNCHANGED <<savedTxs, updated>> /\ pc = "FromSelf" /\ pc' = "SetTip"
        BY <1>6 DEF UpdateFromSelf, Write, GoTo
    <2>2. DOMAIN coins' = DOMAIN coins /\ \A c \in DOMAIN coins : coins'[c].spendTx = coins[c].spendTx
        BY <1>1, <1>6 DEF UpdateFromSelf, Write, UpdatedRows, Row
    <2>3. QED BY <2>1, <2>2 DEF SavedInv, ToInsert
<1>7. CASE SetTip
    <2>1. UNCHANGED <<coins, savedTxs>> /\ pc' = "Polled"
        BY <1>7 DEF SetTip, GoTo
    <2>2. QED BY <2>1 DEF SavedInv, ToInsert
<1>8. QED BY <1>2, <1>3, <1>4, <1>5, <1>6, <1>7

\* If whatever spends a coin of the wallet leaves it another, no write of the poller
\* breaks a constraint, whatever the node does between two queries and wherever the
\* process dies (add_txs_to_db, new_unspent_coins, spend_coins, confirm_spend).
THEOREM NoPanic ==
    ASSUME LeavesChange
    PROVE  Spec => []NeverPanics
<1>1. Init => SavedInv
    BY DEF Init, SavedInv, None, ToInsert
<1>2. ASSUME IInv, PollInv, SavedInv, [Next]_vars PROVE SavedInv'
    <2>1. CASE Node
        <3>1. UNCHANGED <<pc, coins, savedTxs, updated>> /\ known \subseteq known'
            BY <2>1, KnownGrows DEF Node, pollerVars, dbVars
        <3>2. QED BY <1>2, <3>1 DEF SavedInv
    <2>2. CASE Crash
        <3>1. UNCHANGED <<coins, savedTxs>> /\ pc' = "Idle"
            BY <2>2 DEF Crash, GoTo, dbVars
        <3>2. QED BY <1>2, <3>1 DEF SavedInv, ToInsert
    <2>3. CASE UNCHANGED vars
        BY <1>2, <2>3 DEF SavedInv, vars, chainVars, pollerVars, dbVars
    <2>4. CASE StartPoll \/ Queries \/ FinishPoll
        BY <1>2, <2>4, QuerySaved
    <2>5. CASE Writes
        BY <1>2, <2>5, FirstWritesSaved, LastWritesSaved DEF Writes
    <2>6. QED BY <1>2, <2>1, <2>2, <2>3, <2>4, <2>5 DEF Next, Poll
<1>3. SavedInv => NeverPanics
    BY DEF SavedInv, NeverPanics
<1>4. QED BY PollInvariant, <1>1, <1>2, <1>3, PTL DEF Spec

-----------------------------------------------------------------------------
(* The ledger.  Its chain is the chain of the node. *)

\* The ledger's chains are the node's.
LEMMA LedgerChain ==
    /\ Ledger!NoHeight = NoHeight
    /\ \A b : /\ Ledger!Chain(b) = Chain(b)
              /\ Ledger!Height(b) = Height(b)
              /\ Ledger!TxsOn(b) = TxsOn(b)
    /\ \A t, b : Ledger!HeightOn(t, b) = HeightOn(t, b)
<1>1. /\ Ledger!NoHeight = NoHeight
      /\ \A b : /\ Ledger!Chain(b) = Chain(b)
                /\ Ledger!Height(b) = Height(b)
    BY DEF Ledger!NoHeight, NoHeight, Ledger!Chain, Chain, Ledger!Height, Height
<1>2. \A b : Ledger!TxsOn(b) = TxsOn(b)
    BY <1>1 DEF Ledger!TxsOn, TxsOn
<1>3. \A t, b : Ledger!HeightOn(t, b) = HeightOn(t, b)
    BY <1>2 DEF Ledger!HeightOn, HeightOn, Ledger!Chain, Chain, Ledger!Height, Height,
                Ledger!NoHeight, NoHeight
<1>4. QED BY <1>1, <1>2, <1>3

\* The ledger's view of a mempool is the node's.
LEMMA LedgerMempool ==
    /\ \A t, u : Ledger!Conflicts(t, u) <=> Conflicts(t, u)
    /\ \A S, b : Ledger!ValidOn(S, b) <=> ValidOn(S, b)
    /\ \A S, b : Ledger!Settled(S, b) = Settled(S, b)
<1>1. /\ \A t, u : Ledger!Conflicts(t, u) <=> Conflicts(t, u)
      /\ \A t : Ledger!Parents(t) = Parents(t)
    BY DEF Conflicts, Ledger!Conflicts, Parents, Ledger!Parents
<1>2. \A S, b : Ledger!ValidOn(S, b) <=> ValidOn(S, b)
    BY <1>1, LedgerChain DEF ValidOn, Ledger!ValidOn
<1>3. \A S, b : Ledger!Settled(S, b) = Settled(S, b)
    BY <1>2 DEF Settled, Ledger!Settled
<1>4. QED BY <1>1, <1>2, <1>3

\* The node moves in the ledger as it does under the poller.
LEMMA LedgerMoves == ChainNext => Ledger!ChainNext
<1>1. \A S, b : Ledger!Settled(S, b)' = Settled(S, b)'
    <2>1. (\A S, b : Ledger!Settled(S, b) = Settled(S, b))'
        BY LedgerMempool, PTL
    <2>2. QED BY <2>1
<1>2. ASSUME NEW parent, NEW txs, Mine(parent, txs)
      PROVE  Ledger!Mine(parent, txs)
    <2>1. \A S : Ledger!Cardinality(S) = Cardinality(S)
        BY DEF Ledger!Cardinality, Cardinality
    <2>2. QED BY <1>1, <1>2, <2>1, LedgerChain, LedgerMempool DEF Mine, Ledger!Mine
<1>3. ASSUME NEW t, Accept(t)
      PROVE  Ledger!Accept(t)
    <2>1. {u \in mempool : ~Ledger!Conflicts(t, u)} = {u \in mempool : ~Conflicts(t, u)}
        BY LedgerMempool
    <2>2. QED BY <1>3, <2>1, LedgerMempool DEF Accept, Ledger!Accept
<1>4. ASSUME NEW t, Evict(t)
      PROVE  Ledger!Evict(t)
    BY <1>4, LedgerMempool DEF Evict, Ledger!Evict
<1>5. QED BY <1>2, <1>3, <1>4 DEF ChainNext, Ledger!ChainNext

\* What the readers of the tables see: `received` and `spent` of the ledger.
ReceivedNow ==
    [c \in Coin |-> IF c \in DOMAIN coins /\ coins[c].height <= Height(dbTip)
                    THEN coins[c].height ELSE NoHeight]

SpentNow ==
    [c \in Coin |-> IF /\ c \in DOMAIN coins
                       /\ coins[c].spendHeight \in 0 .. Height(dbTip)
                    THEN [tx |-> coins[c].spendTx, height |-> coins[c].spendHeight]
                    ELSE [tx |-> NoTx, height |-> NoHeight]]

\* All updates, but not more: that is what the ledger shows.
LEMMA LedgerState ==
    ASSUME IInv, PollInv, crashes = 0
    PROVE  ReceivedNow \in Ledger!ReceivedOn(dbTip) /\ SpentNow = Ledger!SpentOn(dbTip)
<1>1. /\ ChainInv /\ TreeInv /\ dbTip \in DOMAIN blocks /\ Maps(coins, Row)
      /\ NotMore /\ AllUpdates
    BY InvTypes, NotMoreHolds, AllUpdatesHolds DEF PollInv, TableInv
<1>2. /\ \A c \in DOMAIN coins : /\ coins[c].height \in Heights \cup {NoHeight}
                                 /\ coins[c].spendHeight \in Heights \cup {NoHeight}
      /\ Heights \subseteq Nat /\ Height(dbTip) \in Nat /\ Maturity \in Nat
      /\ \A c \in Coin : TxOf[c] \in Tx
    <2>1. Heights \subseteq Nat
        BY WalletAssumption DEF Heights
    <2>2. Height(dbTip) \in Nat
        BY <1>1, BlocksTyped
    <2>3. QED BY <1>1, <2>1, <2>2, WalletAssumption DEF Maps, Row
<1>3. \A t \in TxsOn(dbTip) : HeightOn(t, dbTip) \in 0 .. Height(dbTip)
    <2>1. ASSUME NEW t \in TxsOn(dbTip)
          PROVE  HeightOn(t, dbTip) \in Nat /\ HeightOn(t, dbTip) <= Height(dbTip)
        BY <1>1, AtOn
    <2>2. QED BY <1>2, <2>1
<1>4. \A t : t \notin TxsOn(dbTip) => HeightOn(t, dbTip) = NoHeight
    BY DEF HeightOn
<1>5. ReceivedNow \in Ledger!ReceivedOn(dbTip)
    <2>1. ASSUME NEW c \in Coin
          PROVE  \/ ReceivedNow[c] = HeightOn(TxOf[c], dbTip)
                 \/ ReceivedNow[c] = NoHeight /\ Ledger!Immature(c, dbTip)
        <3>1. CASE c \in DOMAIN coins /\ coins[c].height \in 0 .. Height(dbTip)
            <4>1. ReceivedNow[c] = coins[c].height
                BY <1>2, <3>1 DEF ReceivedNow
            <4>2. QED BY <1>1, <3>1, <4>1 DEF NotMore
        <3>2. CASE ~(c \in DOMAIN coins /\ coins[c].height \in 0 .. Height(dbTip))
            <4>1. ReceivedNow[c] = NoHeight
                <5>1. CASE c \notin DOMAIN coins \/ coins[c].height = NoHeight
                    BY <5>1 DEF ReceivedNow
                <5>2. CASE c \in DOMAIN coins /\ coins[c].height \in Nat
                    <6>1. ~(coins[c].height <= Height(dbTip))
                        BY <1>2, <3>2, <5>2
                    <6>2. QED BY <6>1 DEF ReceivedNow
                <5>3. QED BY <1>2, <5>1, <5>2
            <4>2. CASE TxOf[c] \notin TxsOn(dbTip)
                BY <1>4, <4>1, <4>2
            <4>3. CASE TxOf[c] \in TxsOn(dbTip)
                <5>1. ~MatureOn(TxOf[c], dbTip)
                    BY <1>1, <1>3, <3>2, <4>3 DEF AllUpdates
                <5>2. Ledger!Immature(c, dbTip)
                    <6>1. HeightOn(TxOf[c], dbTip) \in Int
                        BY <1>3, <4>3
                    <6>2. QED
                        BY <1>2, <5>1, <6>1, LedgerChain DEF Ledger!Immature, MatureOn
                <5>3. QED BY <4>1, <5>2
            <4>4. QED BY <4>2, <4>3
        <3>3. QED BY <3>1, <3>2
    <2>2. ReceivedNow \in [Coin -> {HeightOn(t, dbTip) : t \in Tx} \cup {NoHeight}]
        <3>1. \A c \in Coin : ReceivedNow[c] \in {HeightOn(t, dbTip) : t \in Tx} \cup {NoHeight}
            BY <1>2, <2>1
        <3>2. ReceivedNow = [c \in Coin |-> ReceivedNow[c]]
            BY DEF ReceivedNow
        <3>3. QED BY <3>1, <3>2
    <2>3. QED BY <2>1, <2>2, LedgerChain DEF Ledger!ReceivedOn
<1>6. SpentNow = Ledger!SpentOn(dbTip)
    <2> DEFINE spender(c) == CHOOSE t \in TxsOn(dbTip) : c \in Ins[t]
               spend(c) == IF \E t \in TxsOn(dbTip) : c \in Ins[t]
                           THEN [tx |-> spender(c), height |-> HeightOn(spender(c), dbTip)]
                           ELSE [tx |-> NoTx, height |-> NoHeight]
    <2>1. ASSUME NEW c \in Coin
          PROVE  SpentNow[c] = spend(c)
        <3>1. CASE \E t \in TxsOn(dbTip) : c \in Ins[t]
            <4>1. spender(c) \in TxsOn(dbTip) /\ c \in Ins[spender(c)]
                BY <3>1
            <4> HIDE DEF spender
            <4>2. /\ c \in DOMAIN coins /\ coins[c].spendTx = spender(c)
                  /\ coins[c].spendHeight = HeightOn(spender(c), dbTip)
                BY <1>1, <4>1 DEF AllUpdates
            <4>3. QED BY <1>3, <3>1, <4>1, <4>2 DEF SpentNow
        <3>2. CASE ~\E t \in TxsOn(dbTip) : c \in Ins[t]
            <4>1. ~(c \in DOMAIN coins /\ coins[c].spendHeight \in 0 .. Height(dbTip))
                <5>1. SUFFICES ASSUME c \in DOMAIN coins,
                                      coins[c].spendHeight \in 0 .. Height(dbTip)
                               PROVE  FALSE
                    OBVIOUS
                <5>2. /\ c \in Ins[coins[c].spendTx]
                      /\ HeightOn(coins[c].spendTx, dbTip) = coins[c].spendHeight
                    BY <1>1, <5>1 DEF NotMore
                <5>3. coins[c].spendTx \in TxsOn(dbTip)
                    BY <1>4, <5>1, <5>2 DEF NoHeight
                <5>4. QED BY <3>2, <5>2, <5>3
            <4>2. QED BY <3>2, <4>1 DEF SpentNow
        <3>3. QED BY <3>1, <3>2
    <2>2. Ledger!SpentOn(dbTip) = [c \in Coin |-> spend(c)]
        BY LedgerChain DEF Ledger!SpentOn, Ledger!NotSpent
    <2> HIDE DEF spend
    <2>3. SpentNow = [c \in Coin |-> SpentNow[c]]
        BY DEF SpentNow
    <2>4. QED BY <2>1, <2>2, <2>3
<1>7. QED BY <1>5, <1>6

\* The tip of the table, and the chain, when the thread moves.
LEMMA ThreadMoves ==
    ASSUME IInv, PollInv, [Next]_vars, ~Node
    PROVE  /\ UNCHANGED <<blocks, best, mempool, known, reorgs>>
           /\ dbTip \in Chain(dbTip') \/ dbTip' \in Chain(dbTip)
<1>1. dbTip \in DOMAIN blocks /\ dbTip \in Chain(dbTip)
    BY InvTypes, BlocksTyped DEF PollInv, TableInv
<1>2. CASE StartPoll \/ Queries \/ FinishPoll \/ Crash \/ UNCHANGED vars
    <2>1. UNCHANGED <<blocks, best, mempool, known, reorgs, dbTip>>
        BY <1>2 DEF StartPoll, Queries, FinishPoll, Crash, vars, pollerVars, chainVars,
                    dbVars, Read, FetchTip, CheckInChain, FindAncestor, ReadReceived,
                    ReadConfirmed, ReadSpending, ReadSpent, CheckTip
    <2>2. QED BY <1>1, <2>1
<1>3. CASE AddTxs \/ InsertReceived \/ RemoveExpired \/ ConfirmCoins \/ UnspendExpired
           \/ SpendCoins \/ ConfirmSpend \/ UpdateFromSelf
    <2>1. UNCHANGED <<blocks, best, mempool, known, reorgs, dbTip>>
        BY <1>3 DEF AddTxs, InsertReceived, RemoveExpired, ConfirmCoins, UnspendExpired,
                    SpendCoins, ConfirmSpend, UpdateFromSelf, Write, chainVars
    <2>2. QED BY <1>1, <2>1
<1>4. CASE Rollback
    <2>1. /\ UNCHANGED <<blocks, best, mempool, known, reorgs>>
          /\ dbTip' = tip /\ pc = "Rollback"
        BY <1>4 DEF Rollback, RollbackTip, chainVars
    <2>2. QED BY <2>1 DEF PollInv, ReadInv, PlaceInv
<1>5. CASE SetTip
    <2>1. /\ UNCHANGED <<blocks, best, mempool, known, reorgs>>
          /\ dbTip' = tip /\ pc = "SetTip"
        BY <1>5 DEF SetTip, chainVars
    <2>2. QED BY <2>1, TipPlace DEF Recording, WriteStates
<1>6. QED BY <1>2, <1>3, <1>4, <1>5 DEF Next, Poll, Writes

\* A poller that is never killed implements the ledger: whatever the node does between
\* two queries or two writes, its readers see a table that is exactly that of some tip,
\* and goes from one to another along a chain.
THEOREM Implements ==
    ASSUME MaxCrashes = 0
    PROVE  Spec => ImplementsLedger
<1>1. ASSUME Init PROVE Ledger!LedgerInit
    <2>1. /\ dbTip = 0 /\ coins = None /\ ChainInit
        BY <1>1 DEF Init
    <2>2. Ledger!ChainInit
        BY <2>1 DEF ChainInit, Ledger!ChainInit
    <2>3. QED BY <2>1, <2>2, LedgerChain DEF Ledger!LedgerInit, Ledger!NotSpent, None
<1>2. (IInv /\ PollInv /\ crashes = 0 =>
          ReceivedNow \in Ledger!ReceivedOn(dbTip) /\ SpentNow = Ledger!SpentOn(dbTip))'
    <2>1. IInv /\ PollInv /\ crashes = 0 =>
              ReceivedNow \in Ledger!ReceivedOn(dbTip) /\ SpentNow = Ledger!SpentOn(dbTip)
        BY LedgerState
    <2>2. QED BY <2>1, PTL
<1>3. ASSUME IInv, PollInv, IInv', PollInv', [Next]_vars
      PROVE  [Ledger!LedgerNext]_<<Ledger!chainVars, Ledger!ledgerVars>>
    <2>1. crashes = 0 /\ crashes' = 0
        BY <1>3 DEF IInv, ControlInv
    <2>2. CASE Node
        <3>1. ChainNext /\ dbTip' = dbTip /\ coins' = coins
            BY <2>2 DEF Node, pollerVars, dbVars
        <3>2. Ledger!ChainNext
            BY <3>1, LedgerMoves
        <3>3. Height(dbTip)' = Height(dbTip)
            BY <1>3, <3>1, NodeKeeps, ChainsStay, InvTypes DEF IInv, PollInv, TableInv
        <3>4. UNCHANGED Ledger!ledgerVars
            BY <3>1, <3>3 DEF Ledger!ledgerVars
        <3>5. QED BY <3>2, <3>4 DEF Ledger!LedgerNext
    <2>3. CASE ~Node
        <3>1. /\ UNCHANGED <<blocks, best, mempool, known, reorgs>>
              /\ dbTip \in Chain(dbTip') \/ dbTip' \in Chain(dbTip)
            BY <1>3, <2>3, ThreadMoves
        <3>2. ReceivedNow' \in Ledger!ReceivedOn(dbTip)' /\ SpentNow' = Ledger!SpentOn(dbTip)'
            BY <1>2, <1>3, <2>1
        <3>3. PICK b \in DOMAIN blocks : b = dbTip'
            BY <1>3, <3>1, InvTypes DEF IInv, ControlInv
        <3>4. /\ Ledger!ReceivedOn(b)' = Ledger!ReceivedOn(b)
              /\ Ledger!SpentOn(b)' = Ledger!SpentOn(b)
            BY <3>1 DEF Ledger!ReceivedOn, Ledger!SpentOn, Ledger!Immature, Ledger!HeightOn,
                        Ledger!TxsOn, Ledger!Chain, Ledger!Height
        <3>5. ReceivedNow' \in Ledger!ReceivedOn(b) /\ SpentNow' = Ledger!SpentOn(b)
            BY <3>2, <3>3, <3>4
        <3>6. Ledger!Show(b)
            BY <3>1, <3>3, <3>5, LedgerChain DEF Ledger!Show, ReceivedNow, SpentNow
        <3>7. UNCHANGED Ledger!chainVars
            BY <3>1 DEF Ledger!chainVars
        <3>8. QED BY <3>6, <3>7 DEF Ledger!LedgerNext
    <2>4. QED BY <2>2, <2>3
<1>4. QED BY PollInvariant, <1>1, <1>3, PTL DEF Spec, ImplementsLedger, Ledger!LedgerSpec
=============================================================================
