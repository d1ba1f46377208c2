---------------------------- MODULE PollerProofs ----------------------------
(***************************************************************************)
(* The poller, for any set of transactions and coins, any maturity and any  *)
(* number of blocks, reorganizations and crashes: its type invariant, and   *)
(* that the confirmations it records are those of blocks.                   *)
(*                                                                         *)
(* The argument: blocks are numbered as they arrive, a chain goes from its  *)
(* tip down to the genesis block, and no block ever changes, so a height    *)
(* read from the node remains the height of a block that holds the          *)
(* transaction, whatever happens before it is written.                      *)
(***************************************************************************)
EXTENDS Poller, TLAPS, FiniteSetTheorems, WellFoundedInduction

\* The tree of blocks: a chain holds its tip, the genesis block and only blocks
\* that arrived before its tip.
ChainInv ==
    /\ ChainTypeOK
    /\ \E n \in 1 .. MaxBlocks : DOMAIN blocks = 0 .. n - 1
    /\ \A b \in DOMAIN blocks :
          /\ blocks[b].anc \subseteq 0 .. b
          /\ {0, b} \subseteq blocks[b].anc
          /\ blocks[b].height \in 0 .. b

\* Some block at height h, of any branch, holds the transaction of c.
MinedAt(c, h) ==
    \E b \in DOMAIN blocks : blocks[b].height = h /\ TxOf[c] \in blocks[b].txs

ControlInv ==
    /\ pc \in {"Idle", "Polled", "Panicked"} \cup QueryStates \cup WriteStates
    /\ dbTip \in DOMAIN blocks
    /\ tip \in DOMAIN blocks
    /\ savedTxs \subseteq Tx
    /\ crashes \in 0 .. MaxCrashes

GoodRow(c, row) ==
    row \in Row /\ (row.height # NoHeight => MinedAt(c, row.height))

CoinsInv == Maps(coins, Row) /\ \A c \in DOMAIN coins : GoodRow(c, coins[c])

\* The heights that are about to be recorded are heights of blocks as well.
UpdatedInv ==
    /\ UpdatedTypeOK
    /\ \A c \in DOMAIN updated.confirmed : MinedAt(c, updated.confirmed[c])

IInv == ChainInv /\ ControlInv /\ CoinsInv /\ UpdatedInv

-----------------------------------------------------------------------------
(* Chains. *)

\* A non-empty set of blocks whose heights are bounded has a highest one.
LEMMA HighestExists ==
    ASSUME NEW S, S # {}, NEW n \in Nat, \A x \in S : Height(x) \in 0 .. n
    PROVE  \E f \in S : \A g \in S : Height(g) <= Height(f)
<1> DEFINE T == {n - Height(x) : x \in S}
           R == OpToRel(<, Nat)
<1>1. T \subseteq Nat /\ T # {}
    OBVIOUS
<1>2. IsWellFoundedOn(R, Nat)
    BY NatLessThanWellFounded
<1>3. \E x \in T : \A y \in T : ~ (<<y, x>> \in R)
    <2> HIDE DEF T, R
    <2>1. QED BY <1>1, <1>2, WFMin
<1>4. PICK x \in T : \A y \in T : ~ (<<y, x>> \in R)
    BY <1>3
<1>5. \A y \in T : ~ (y < x)
    <2>1. ASSUME NEW y \in T, y < x PROVE <<y, x>> \in {z \in Nat \X Nat : z[1] < z[2]}
        BY <1>1, <2>1
    <2>2. R = {z \in Nat \X Nat : z[1] < z[2]}
        BY DEF OpToRel
    <2>3. QED BY <1>4, <2>1, <2>2
<1>6. PICK f \in S : x = n - Height(f)
    OBVIOUS
<1>7. \A g \in S : Height(g) <= Height(f)
    <2> TAKE g \in S
    <2>1. ~ (n - Height(g) < n - Height(f))
        BY <1>5, <1>6
    <2>2. Height(g) \in Int /\ Height(f) \in Int
        OBVIOUS
    <2>3. QED BY <2>1, <2>2
<1>8. QED BY <1>7

\* A chain is a set of blocks, heights are less than the number of blocks, and any two
\* blocks have a common ancestor.
LEMMA Chains ==
    ASSUME ChainInv, NEW a \in DOMAIN blocks, NEW b \in DOMAIN blocks
    PROVE  /\ Chain(a) \subseteq DOMAIN blocks
           /\ Height(a) \in Heights
           /\ ForkPoint(a, b) \in DOMAIN blocks
<1>1. PICK n \in 1 .. MaxBlocks : DOMAIN blocks = 0 .. n - 1
    BY DEF ChainInv
<1>2. MaxBlocks \in Nat \ {0} /\ n \in Nat
    BY <1>1, WalletAssumption
<1>3. \A x \in DOMAIN blocks :
          /\ x \in 0 .. n - 1
          /\ Chain(x) \subseteq 0 .. x
          /\ 0 \in Chain(x)
          /\ Height(x) \in 0 .. x
    BY <1>1 DEF ChainInv, Chain, Height
<1>4. \A x \in DOMAIN blocks :
          /\ Chain(x) \subseteq DOMAIN blocks
          /\ Height(x) \in Heights /\ Height(x) \in 0 .. n - 1
    BY <1>1, <1>2, <1>3 DEF Heights
<1> DEFINE S == Chain(a) \cap Chain(b)
<1>5. S # {} /\ S \subseteq DOMAIN blocks
    BY <1>3, <1>4
<1>6. \A x \in S : Height(x) \in 0 .. n - 1
    BY <1>4, <1>5
<1>7. \E f \in S : \A g \in S : Height(g) <= Height(f)
    <2>1. n - 1 \in Nat
        BY <1>1
    <2> HIDE DEF S
    <2>2. QED BY <1>5, <1>6, <2>1, HighestExists
<1>8. ForkPoint(a, b) \in S
    BY <1>7 DEF ForkPoint
<1>9. QED BY <1>4, <1>5, <1>8

\* The height of a transaction on a chain is that of a block that holds it.
LEMMA HeightOnChain ==
    ASSUME ChainInv, NEW b \in DOMAIN blocks, NEW t \in TxsOn(b)
    PROVE  /\ HeightOn(t, b) \in Heights
           /\ \E a \in DOMAIN blocks : Height(a) = HeightOn(t, b) /\ t \in blocks[a].txs
<1> DEFINE a == CHOOSE x \in Chain(b) : t \in blocks[x].txs
<1>1. \E x \in Chain(b) : t \in blocks[x].txs
    BY DEF TxsOn
<1>2. a \in Chain(b) /\ t \in blocks[a].txs
    BY <1>1
<1>3. HeightOn(t, b) = Height(a)
    BY DEF HeightOn
<1>4. a \in DOMAIN blocks
    BY <1>2, Chains
<1>5. QED BY <1>2, <1>3, <1>4, Chains
-----------------------------------------------------------------------------
(* The node. *)

\* Blocks arrive; none changes.
Grows ==
    /\ DOMAIN blocks \subseteq DOMAIN blocks'
    /\ \A b \in DOMAIN blocks : blocks'[b] = blocks[b]

\* The initial chain satisfies the chain's invariant.
LEMMA ChainInitInv ==
    ASSUME ChainInit
    PROVE  ChainInv
<1>1. /\ DOMAIN blocks = 0 .. 1 - 1
      /\ blocks[0] = [height |-> 0, anc |-> {0}, txs |-> {}]
    BY DEF ChainInit
<1>2. 1 \in 1 .. MaxBlocks
    BY WalletAssumption
<1>3. blocks \in [DOMAIN blocks -> Block]
    BY DEF ChainInit, Block
<1>4. ChainTypeOK
    BY <1>1, <1>2, <1>3, WalletAssumption DEF ChainInit, ChainTypeOK
<1>5. QED BY <1>1, <1>2, <1>4 DEF ChainInv

\* Mining a block keeps it, and only adds to the tree.
LEMMA MineKeeps ==
    ASSUME ChainInv, NEW parent \in DOMAIN blocks,
           NEW txs \in SUBSET Tx, Mine(parent, txs)
    PROVE  ChainInv' /\ Grows
<1>1. PICK n \in 1 .. MaxBlocks : DOMAIN blocks = 0 .. n - 1
    BY DEF ChainInv
<1>2. MaxBlocks \in Nat \ {0} /\ n \in Nat /\ MaxReorgs \in Nat
    BY <1>1, WalletAssumption
<1>3. Cardinality(DOMAIN blocks) = n
    BY <1>1, FS_Interval
<1> DEFINE block == [height |-> Height(parent) + 1,
                     anc    |-> Chain(parent) \cup {n},
                     txs    |-> txs]
<1>4. /\ n < MaxBlocks
      /\ blocks' = [b \in DOMAIN blocks \cup {n} |->
                       IF b = n THEN block ELSE blocks[b]]
      /\ best' = n
    BY <1>3 DEF Mine
<1>5. /\ n + 1 \in 1 .. MaxBlocks
      /\ DOMAIN blocks' = 0 .. (n + 1) - 1
    BY <1>1, <1>2, <1>4
<1>6. /\ \A b \in 0 .. n - 1 : blocks'[b] = blocks[b]
      /\ blocks'[n] = block
    BY <1>1, <1>2, <1>4
<1>7. Grows
    BY <1>1, <1>2, <1>5, <1>6 DEF Grows
<1>8. /\ parent \in 0 .. n - 1
      /\ Chain(parent) \subseteq 0 .. parent
      /\ 0 \in Chain(parent)
      /\ Height(parent) \in 0 .. parent
    BY <1>1 DEF ChainInv, Chain, Height
<1>9. /\ block.anc \subseteq 0 .. n
      /\ {0, n} \subseteq block.anc
      /\ block.height \in 0 .. n
    BY <1>2, <1>8
<1>10. \A b \in DOMAIN blocks' :
          /\ blocks'[b].anc \subseteq 0 .. b
          /\ {0, b} \subseteq blocks'[b].anc
          /\ blocks'[b].height \in 0 .. b
    <2> TAKE b \in DOMAIN blocks'
    <2>1. CASE b = n
        BY <1>6, <1>9, <2>1
    <2>2. CASE b \in 0 .. n - 1
        BY <1>1, <1>6, <2>2 DEF ChainInv
    <2>3. QED BY <1>2, <1>5, <2>1, <2>2
<1>11. ChainTypeOK'
    <2>1. block \in Block
        BY <1>2, <1>8 DEF Block
    <2>2. blocks' \in [DOMAIN blocks' -> Block]
        <3>1. blocks \in [DOMAIN blocks -> Block]
            BY DEF ChainInv, ChainTypeOK
        <3>2. QED BY <1>1, <1>4, <2>1, <3>1
    <2>3. mempool' \subseteq Tx
        <3>1. mempool \cup TxsOn(best) \subseteq Tx
            <4>1. best \in DOMAIN blocks /\ mempool \subseteq Tx
                BY DEF ChainInv, ChainTypeOK
            <4>2. \A b \in DOMAIN blocks : blocks[b].txs \subseteq Tx
                BY DEF ChainInv, ChainTypeOK, Block
            <4>3. QED BY <4>1, <4>2, Chains DEF TxsOn
        <3>2. PICK candidates \in {mempool \cup TxsOn(best)} :
                  mempool' = Settled(candidates, best)'
            BY DEF Mine
        <3>3. QED BY <3>1, <3>2 DEF Settled
    <2>4. known' \subseteq Tx
        BY <2>3 DEF Mine, ChainInv, ChainTypeOK
    <2>5. reorgs' \in 0 .. MaxReorgs
        BY <1>2 DEF Mine, ChainInv, ChainTypeOK
    <2>6. DOMAIN blocks' \subseteq 0 .. MaxBlocks - 1 /\ best' \in DOMAIN blocks'
        BY <1>2, <1>4, <1>5
    <2>7. QED BY <2>2, <2>3, <2>4, <2>5, <2>6 DEF ChainTypeOK
<1>12. QED BY <1>5, <1>7, <1>10, <1>11 DEF ChainInv

\* So does every step of the node.
LEMMA NodeKeeps ==
    ASSUME ChainInv, ChainNext
    PROVE  ChainInv' /\ Grows
<1>1. CASE \E parent \in DOMAIN blocks, txs \in SUBSET Tx : Mine(parent, txs)
    BY <1>1, MineKeeps
<1>2. CASE \E t \in Tx : Accept(t) \/ Evict(t)
    <2>1. PICK t \in Tx : Accept(t) \/ Evict(t)
        BY <1>2
    <2>2. UNCHANGED <<blocks, best, reorgs>>
        BY <2>1 DEF Accept, Evict
    <2>3. mempool' \subseteq Tx /\ known' \subseteq Tx
        BY <2>1 DEF Accept, Evict, Settled, ChainInv, ChainTypeOK
    <2>4. ChainTypeOK'
        BY <2>2, <2>3 DEF ChainInv, ChainTypeOK
    <2>5. QED BY <2>2, <2>4 DEF ChainInv, Grows
<1>3. QED BY <1>1, <1>2 DEF ChainNext
-----------------------------------------------------------------------------
(* What the node answers. *)

\* received_coins() finds coins, each immature or not.
LEMMA ReceivedType ==
    ASSUME ChainInv, NEW b
    PROVE  Maps(ReceivedCoins(b), BOOLEAN)
BY DEF ReceivedCoins, Maps

\* confirmed_coins() gives heights at which the coins were mined.
LEMMA ConfirmedType ==
    ASSUME ChainInv, NEW S \in SUBSET Coin
    PROVE  /\ Maps(ConfirmedCoins(S), Heights)
           /\ \A c \in DOMAIN ConfirmedCoins(S) : MinedAt(c, ConfirmedCoins(S)[c])
<1> DEFINE D == {c \in S : TxOf[c] \in TxsOn(best) /\ Matured(TxOf[c])}
<1>1. ConfirmedCoins(S) = [c \in D |-> HeightOn(TxOf[c], best)]
    BY DEF ConfirmedCoins
<1>2. best \in DOMAIN blocks
    BY DEF ChainInv, ChainTypeOK
<1>3. \A c \in D : /\ HeightOn(TxOf[c], best) \in Heights
                   /\ MinedAt(c, HeightOn(TxOf[c], best))
    BY <1>2, HeightOnChain DEF MinedAt, Height
<1>4. D \subseteq Coin
    OBVIOUS
<1> HIDE DEF D
<1>5. QED BY <1>1, <1>3, <1>4 DEF Maps

\* spent_coins() gives spends and expired spends of coins.
LEMMA SpentType ==
    ASSUME ChainInv, NEW pairs \in SUBSET (Coin \X Tx)
    PROVE  /\ SpentCoins(pairs) \subseteq Spend
           /\ ExpiredSpends(pairs) \subseteq Coin
<1>1. best \in DOMAIN blocks
    BY DEF ChainInv, ChainTypeOK
<1>2. ASSUME NEW s \in SpentCoins(pairs) PROVE s \in Spend
    <2>1. PICK p \in pairs : \E v \in ConfirmedSpenders(p[1], p[2]) :
              s = [coin |-> p[1], tx |-> v, height |-> HeightOn(v, best)]
        BY <1>2 DEF SpentCoins
    <2>2. PICK v \in ConfirmedSpenders(p[1], p[2]) :
              s = [coin |-> p[1], tx |-> v, height |-> HeightOn(v, best)]
        BY <2>1
    <2>3. p[1] \in Coin /\ p[2] \in Tx
        OBVIOUS
    <2>4. v \in Tx /\ v \in TxsOn(best)
        BY <2>3 DEF ConfirmedSpenders, ChainInv, ChainTypeOK
    <2>5. HeightOn(v, best) \in Heights
        BY <1>1, <2>4, HeightOnChain
    <2>6. QED BY <2>2, <2>3, <2>4, <2>5 DEF Spend
<1>3. ExpiredSpends(pairs) \subseteq Coin
    BY DEF ExpiredSpends
<1>4. QED BY <1>2, <1>3

\* spending_coins() gives a transaction for each coin it finds spent.
LEMMA SpendingType ==
    ASSUME NEW S \in SUBSET Coin, NEW f \in SpendingCoins(S)
    PROVE  Maps(f, Tx)
BY DEF SpendingCoins, Maps
-----------------------------------------------------------------------------
(* The steps of the thread. *)

Labels == {"Idle", "Polled", "Panicked"} \cup QueryStates \cup WriteStates

\* The initial states satisfy the invariant.
LEMMA InitIInv == Init => IInv
<1> SUFFICES ASSUME Init PROVE IInv
    OBVIOUS
<1>1. ChainInv
    BY ChainInitInv DEF Init
<1>2. ControlInv
    <2>1. 0 \in DOMAIN blocks
        BY DEF Init, ChainInit
    <2>2. crashes \in 0 .. MaxCrashes
        BY CrashesAssumption DEF Init
    <2>3. QED BY <2>1, <2>2 DEF Init, ControlInv
<1>3. CoinsInv
    BY DEF Init, CoinsInv, Maps, None
<1>4. UpdatedInv
    BY DEF Init, UpdatedInv, UpdatedTypeOK, NothingUpdated, None, Maps
<1>5. QED BY <1>1, <1>2, <1>3, <1>4 DEF IInv

\* A step that leaves the node and the tables alone.
LEMMA ReadKeeps ==
    ASSUME IInv, NEW label \in Labels, Read(label), tip' \in DOMAIN blocks, UpdatedInv'
    PROVE  IInv'
<1>1. /\ UNCHANGED <<blocks, best, mempool, known, reorgs, dbTip, coins, savedTxs, crashes>>
      /\ pc' = label
    BY DEF Read, GoTo, chainVars, dbVars
<1>2. ChainInv'
    BY <1>1 DEF IInv, ChainInv, ChainTypeOK
<1>3. ControlInv'
    BY <1>1 DEF IInv, ControlInv, Labels
<1>4. CoinsInv'
    BY <1>1 DEF IInv, CoinsInv, GoodRow, MinedAt
<1>5. QED BY <1>2, <1>3, <1>4 DEF IInv

\* What was collected so far remains true when the node stands still.
LEMMA UpdatedStays ==
    ASSUME UpdatedInv, UNCHANGED <<blocks, updated>>
    PROVE  UpdatedInv'
BY DEF UpdatedInv, UpdatedTypeOK, MinedAt

\* Updates thrown away satisfy what is said of updates.
LEMMA UpdatedReset ==
    ASSUME updated' = NothingUpdated
    PROVE  UpdatedInv'
BY DEF UpdatedInv, UpdatedTypeOK, NothingUpdated, None, Maps

\* A step that writes rows in the table of coins, or panics.
LEMMA WriteKeeps ==
    ASSUME IInv, NEW ok, NEW rows, NEW label \in Labels, Write(ok, rows, label),
           ok => Maps(rows, Row) /\ \A c \in DOMAIN rows : GoodRow(c, rows[c])
    PROVE  IInv'
<1>1. UNCHANGED <<blocks, best, mempool, known, reorgs, dbTip, savedTxs, tip, updated, crashes>>
    BY DEF Write, chainVars
<1>2. \/ ok /\ coins' = rows /\ pc' = label
      \/ coins' = coins /\ pc' = "Panicked"
    BY DEF Write, GoTo
<1>3. ChainInv'
    BY <1>1 DEF IInv, ChainInv, ChainTypeOK
<1>4. ControlInv'
    BY <1>1, <1>2 DEF IInv, ControlInv, Labels
<1>5. CoinsInv'
    BY <1>1, <1>2 DEF IInv, CoinsInv, GoodRow, MinedAt
<1>6. UpdatedInv'
    BY <1>1, UpdatedStays DEF IInv
<1>7. QED BY <1>3, <1>4, <1>5, <1>6 DEF IInv

\* An UPDATE of coins whose new rows are good.
LEMMA UpdateKeeps ==
    ASSUME IInv, NEW set, NEW new, NEW ok, NEW label \in Labels,
           \A c \in DOMAIN coins \cap set : GoodRow(c, new[c]),
           Write(ok, [c \in DOMAIN coins |-> IF c \in set THEN new[c] ELSE coins[c]], label)
    PROVE  IInv'
<1> DEFINE rows == [c \in DOMAIN coins |-> IF c \in set THEN new[c] ELSE coins[c]]
<1>1. \A c \in DOMAIN coins : GoodRow(c, rows[c])
    BY DEF IInv, CoinsInv
<1>2. Maps(rows, Row)
    BY <1>1 DEF IInv, CoinsInv, Maps, GoodRow
<1> HIDE DEF rows
<1>3. DOMAIN rows = DOMAIN coins /\ Write(ok, rows, label)
    BY DEF rows
<1>4. QED BY <1>1, <1>2, <1>3, WriteKeeps

\* rollback_tip(): confirmations above the block are forgotten.
LEMMA RollbackKeeps ==
    ASSUME IInv, NEW b \in DOMAIN blocks, RollbackTip(b), pc' \in Labels
    PROVE  IInv'
<1>1. /\ UNCHANGED <<blocks, best, mempool, known, reorgs, savedTxs, tip, updated, crashes>>
      /\ dbTip' = b
      /\ coins' = [c \in DOMAIN coins |-> RolledBack(coins[c], Height(b))]
    BY DEF RollbackTip, chainVars
<1>2. \A c \in DOMAIN coins : GoodRow(c, RolledBack(coins[c], Height(b)))
    <2> TAKE c \in DOMAIN coins
    <2>1. GoodRow(c, coins[c])
        BY DEF IInv, CoinsInv
    <2>2. /\ coins[c] \in Row
          /\ RolledBack(coins[c], Height(b)) \in Row
          /\ RolledBack(coins[c], Height(b)).height \in {coins[c].height, NoHeight}
        BY <2>1 DEF GoodRow, RolledBack, Row
    <2>3. QED BY <2>1, <2>2 DEF GoodRow
<1>3. ChainInv'
    BY <1>1 DEF IInv, ChainInv, ChainTypeOK
<1>4. ControlInv'
    BY <1>1 DEF IInv, ControlInv, Labels
<1>5. CoinsInv'
    BY <1>1, <1>2 DEF IInv, CoinsInv, GoodRow, MinedAt, Maps
<1>6. UpdatedInv'
    BY <1>1, UpdatedStays DEF IInv
<1>7. QED BY <1>3, <1>4, <1>5, <1>6 DEF IInv
-----------------------------------------------------------------------------
\* Each query keeps the invariant, ...
LEMMA QueryKeeps ==
    ASSUME IInv, StartPoll \/ Queries \/ FinishPoll
    PROVE  IInv'
<1>1. /\ ChainInv /\ CoinsInv /\ UpdatedInv /\ UpdatedTypeOK
      /\ best \in DOMAIN blocks /\ dbTip \in DOMAIN blocks /\ tip \in DOMAIN blocks
      /\ Maps(coins, Row)
    BY DEF IInv, ChainInv, ChainTypeOK, ControlInv, CoinsInv, UpdatedInv
<1>2. CASE UNCHANGED updated /\ tip' \in DOMAIN blocks /\ \E label \in Labels : Read(label)
    <2>1. UpdatedInv'
        BY <1>1, <1>2, UpdatedStays DEF Read, chainVars
    <2>2. QED BY <1>2, <2>1, ReadKeeps
<1>3. CASE StartPoll
    BY <1>1, <1>2, <1>3 DEF StartPoll, Labels, QueryStates
<1>4. CASE FetchTip
    <2>1. UpdatedInv'
        BY <1>4, UpdatedReset DEF FetchTip
    <2>2. tip' \in DOMAIN blocks
        BY <1>1, <1>4 DEF FetchTip
    <2>3. \E label \in Labels : Read(label)
        BY <1>4 DEF FetchTip, Labels, QueryStates
    <2>4. QED BY <2>1, <2>2, <2>3, ReadKeeps
<1>5. CASE CheckInChain
    BY <1>1, <1>2, <1>5 DEF CheckInChain, Labels, QueryStates
<1>6. CASE FindAncestor
    <2>1. tip' \in DOMAIN blocks
        BY <1>1, <1>6, Chains DEF FindAncestor, CommonAncestor
    <2>2. QED BY <1>2, <1>6, <2>1 DEF FindAncestor, Labels, QueryStates
<1>7. CASE ReadReceived
    <2> DEFINE new == [c \in NewlyReceived |-> Received[c]]
    <2>1. Maps(new, BOOLEAN)
        BY <1>1, ReceivedType DEF Maps, NewlyReceived, Received
    <2>2. updated' = [updated EXCEPT !.received = new]
        BY <1>7 DEF ReadReceived
    <2> HIDE DEF new
    <2>3. UNCHANGED blocks
        BY <1>7 DEF ReadReceived, Read, chainVars
    <2>4. UpdatedInv'
        BY <1>1, <2>1, <2>2, <2>3 DEF UpdatedInv, UpdatedTypeOK, MinedAt
    <2>5. QED BY <1>1, <1>7, <2>4, ReadKeeps DEF ReadReceived, Labels, QueryStates
<1>8. CASE ReadConfirmed
    <2> DEFINE confirmed == ConfirmedCoins(ToBeConfirmed)
               expired == ExpiredCoins(ToBeConfirmed)
    <2>1. ToBeConfirmed \subseteq Coin
        BY <1>1 DEF ToBeConfirmed, Unconfirmed, UpdatedTypeOK, Maps
    <2>2. /\ Maps(confirmed, Heights)
          /\ \A c \in DOMAIN confirmed : MinedAt(c, confirmed[c])
          /\ expired \subseteq Coin
        BY <1>1, <2>1, ConfirmedType DEF ExpiredCoins
    <2>3. updated' = [updated EXCEPT !.confirmed = confirmed, !.expired = expired]
        BY <1>8 DEF ReadConfirmed
    <2> HIDE DEF confirmed, expired
    <2>4. UNCHANGED blocks
        BY <1>8 DEF ReadConfirmed, Read, chainVars
    <2>5. UpdatedInv'
        BY <1>1, <2>2, <2>3, <2>4 DEF UpdatedInv, UpdatedTypeOK, MinedAt
    <2>6. QED BY <1>1, <1>8, <2>5, ReadKeeps DEF ReadConfirmed, Labels, QueryStates
<1>9. CASE ReadSpending
    <2>1. PICK S \in SUBSET Coin : \E f \in SpendingCoins(S) :
              updated' = [updated EXCEPT !.spending = f]
        BY <1>1, <1>9 DEF ReadSpending, UpdatedTypeOK, Maps
    <2>2. PICK f \in SpendingCoins(S) : updated' = [updated EXCEPT !.spending = f]
        BY <2>1
    <2>3. Maps(f, Tx)
        BY SpendingType
    <2>4. UNCHANGED blocks
        BY <1>9 DEF ReadSpending, Read, chainVars
    <2>5. UpdatedInv'
        BY <1>1, <2>2, <2>3, <2>4 DEF UpdatedInv, UpdatedTypeOK, MinedAt
    <2>6. QED BY <1>1, <1>9, <2>5, ReadKeeps DEF ReadSpending, Labels, QueryStates
<1>10. CASE ReadSpent
    <2> DEFINE spent == SpentCoins(SpendingPairs)
               expired == ExpiredSpends(SpendingPairs)
    <2>1. SpendingPairs \subseteq Coin \X Tx
        BY <1>1 DEF SpendingPairs, ListSpendingCoins, NewSpends, UpdatedTypeOK, Maps, Row
    <2>2. spent \subseteq Spend /\ expired \subseteq Coin
        BY <1>1, <2>1, SpentType
    <2>3. updated' = [updated EXCEPT !.spent = spent, !.expiredSpending = expired]
        BY <1>10 DEF ReadSpent
    <2> HIDE DEF spent, expired
    <2>4. UNCHANGED blocks
        BY <1>10 DEF ReadSpent, Read, chainVars
    <2>5. UpdatedInv'
        BY <1>1, <2>2, <2>3, <2>4 DEF UpdatedInv, UpdatedTypeOK, MinedAt
    <2>6. QED BY <1>1, <1>10, <2>5, ReadKeeps DEF ReadSpent, Labels, QueryStates
<1>11. CASE CheckTip
    BY <1>1, <1>2, <1>11 DEF CheckTip, Labels, QueryStates, WriteStates
<1>12. CASE FinishPoll
    BY <1>1, <1>2, <1>12 DEF FinishPoll, Labels
<1>13. QED
    BY <1>3, <1>4, <1>5, <1>6, <1>7, <1>8, <1>9, <1>10, <1>11, <1>12 DEF Queries

\* ... and so does each database transaction.
LEMMA WritesKeep ==
    ASSUME IInv, Writes
    PROVE  IInv'
<1>1. /\ Maps(coins, Row)
      /\ \A c \in DOMAIN coins : GoodRow(c, coins[c])
      /\ UpdatedTypeOK
      /\ \A c \in DOMAIN updated.confirmed : MinedAt(c, updated.confirmed[c])
      /\ tip \in DOMAIN blocks
    BY DEF IInv, CoinsInv, UpdatedInv, ControlInv
<1>2. WriteStates \subseteq Labels
    BY DEF Labels
<1>3. CASE Rollback
    BY <1>1, <1>3, RollbackKeeps DEF Rollback, GoTo, Labels, QueryStates
<1>4. CASE AddTxs
    <2>1. /\ UNCHANGED <<blocks, best, mempool, known, reorgs, dbTip, coins, tip, updated, crashes>>
          /\ pc' \in {"Insert", "Panicked"}
          /\ savedTxs' \in {savedTxs, savedTxs \cup NeededTxs}
        BY <1>4 DEF AddTxs, GoTo, chainVars
    <2>2. NeededTxs \subseteq Tx
        BY <1>1, WalletAssumption DEF NeededTxs, DepositTxs, UpdatedTypeOK, Maps
    <2>3. ControlInv'
        BY <2>1, <2>2 DEF IInv, ControlInv, WriteStates
    <2>4. ChainInv' /\ CoinsInv'
        BY <2>1 DEF IInv, ChainInv, ChainTypeOK, CoinsInv, GoodRow, MinedAt
    <2>5. UpdatedInv'
        BY <2>1, UpdatedStays DEF IInv
    <2>6. QED BY <2>3, <2>4, <2>5 DEF IInv
<1>5. CASE InsertReceived
    <2> DEFINE new == DOMAIN updated.received
               fresh(c) == [height |-> NoHeight, spendTx |-> NoTx,
                            spendHeight |-> NoHeight, fromSelf |-> FALSE,
                            immature |-> updated.received[c]]
               rows == [c \in DOMAIN coins \cup new |->
                           IF c \in new THEN fresh(c) ELSE coins[c]]
    <2>1. PICK ok : Write(ok, rows, "Remove")
        BY <1>5 DEF InsertReceived
    <2>2. \A c \in new : GoodRow(c, fresh(c))
        BY <1>1 DEF GoodRow, Row, UpdatedTypeOK, Maps
    <2>3. new \subseteq Coin
        BY <1>1 DEF UpdatedTypeOK, Maps
    <2> HIDE DEF new, fresh
    <2>4. \A c \in DOMAIN rows : GoodRow(c, rows[c])
        BY <1>1, <2>2
    <2>5. Maps(rows, Row)
        BY <1>1, <2>3, <2>4 DEF Maps, GoodRow
    <2> HIDE DEF rows
    <2>6. QED BY <1>2, <2>1, <2>4, <2>5, WriteKeeps DEF WriteStates
<1>6. CASE RemoveExpired
    <2> DEFINE rows == [c \in DOMAIN coins \ updated.expired |-> coins[c]]
    <2>1. Write(TRUE, rows, "Confirm")
        BY <1>6 DEF RemoveExpired
    <2>2. Maps(rows, Row) /\ \A c \in DOMAIN rows : GoodRow(c, rows[c])
        BY <1>1 DEF Maps
    <2> HIDE DEF rows
    <2>3. QED BY <1>2, <2>1, <2>2, WriteKeeps DEF WriteStates
<1>7. CASE ConfirmCoins
    <2> DEFINE set == DOMAIN updated.confirmed
               new == [c \in set |-> ConfirmedRow(c, coins[c])]
    <2>1. \A c \in DOMAIN coins \cap set : GoodRow(c, ConfirmedRow(c, coins[c]))
        BY <1>1 DEF GoodRow, ConfirmedRow, Row, UpdatedTypeOK, Maps
    <2>2. UpdatedRows(set, ConfirmedRow) =
              [c \in DOMAIN coins |-> IF c \in set THEN new[c] ELSE coins[c]]
        BY DEF UpdatedRows
    <2>3. Write(TRUE, UpdatedRows(set, ConfirmedRow), "Unspend")
        BY <1>7 DEF ConfirmCoins
    <2>4. \A c \in DOMAIN coins \cap set : GoodRow(c, new[c])
        BY <2>1
    <2>5. Write(TRUE, [c \in DOMAIN coins |-> IF c \in set THEN new[c] ELSE coins[c]], "Unspend")
        BY <2>2, <2>3
    <2> HIDE DEF set, new
    <2>6. QED BY <1>2, <2>4, <2>5, UpdateKeeps DEF WriteStates
<1>8. CASE UnspendExpired
    <2> DEFINE set == updated.expiredSpending
               new == [c \in DOMAIN coins |->
                          [coins[c] EXCEPT !.spendTx = NoTx, !.spendHeight = NoHeight]]
               rows == [c \in DOMAIN coins |-> IF c \in set THEN new[c] ELSE coins[c]]
    <2>1. Write(TRUE, rows, "Spend")
        BY <1>8 DEF UnspendExpired, UpdatedRows
    <2>2. \A c \in DOMAIN coins \cap set : GoodRow(c, new[c])
        BY <1>1 DEF GoodRow, Row
    <2> HIDE DEF set, new
    <2>3. QED BY <1>2, <2>1, <2>2, UpdateKeeps DEF WriteStates
<1>9. CASE SpendCoins
    <2> DEFINE set == DOMAIN updated.spending
               new == [c \in DOMAIN coins |->
                          [coins[c] EXCEPT !.spendTx = updated.spending[c]]]
               rows == [c \in DOMAIN coins |-> IF c \in set THEN new[c] ELSE coins[c]]
    <2>1. PICK ok : Write(ok, rows, "ConfirmSpend")
        BY <1>9 DEF SpendCoins, UpdatedRows
    <2>2. \A c \in DOMAIN coins \cap set : GoodRow(c, new[c])
        BY <1>1 DEF GoodRow, Row, UpdatedTypeOK, Maps
    <2> HIDE DEF set, new
    <2>3. QED BY <1>2, <2>1, <2>2, UpdateKeeps DEF WriteStates
<1>10. CASE ConfirmSpend
    <2> DEFINE set == {s.coin : s \in updated.spent}
               spender(c) == CHOOSE s \in updated.spent : s.coin = c
               new == [c \in DOMAIN coins |->
                          [coins[c] EXCEPT !.spendTx = spender(c).tx,
                                           !.spendHeight = spender(c).height]]
               rows == [c \in DOMAIN coins |-> IF c \in set THEN new[c] ELSE coins[c]]
    <2>1. PICK ok : Write(ok, rows, "FromSelf")
        BY <1>10 DEF ConfirmSpend, UpdatedRows
    <2>2. \A c \in set : spender(c) \in Spend
        BY <1>1 DEF UpdatedTypeOK
    <2>3. \A c \in set : spender(c).tx \in Tx /\ spender(c).height \in Heights
        BY <2>2 DEF Spend
    <2> HIDE DEF set, spender
    <2>4. \A c \in DOMAIN coins \cap set : GoodRow(c, new[c])
        BY <1>1, <2>3 DEF GoodRow, Row
    <2> HIDE DEF new
    <2>5. QED BY <1>2, <2>1, <2>4, UpdateKeeps DEF WriteStates
<1>11. CASE UpdateFromSelf
    <2> DEFINE new == [c \in DOMAIN coins |-> [coins[c] EXCEPT !.fromSelf = TRUE]]
               rows == [c \in DOMAIN coins |->
                           IF c \in FromSelfCoins THEN new[c] ELSE coins[c]]
    <2>1. Write(TRUE, rows, "SetTip")
        BY <1>11 DEF UpdateFromSelf, UpdatedRows
    <2>2. \A c \in DOMAIN coins \cap FromSelfCoins : GoodRow(c, new[c])
        BY <1>1 DEF GoodRow, Row
    <2> HIDE DEF new
    <2>3. QED BY <1>2, <2>1, <2>2, UpdateKeeps DEF WriteStates
<1>12. CASE SetTip
    <2>1. /\ UNCHANGED <<blocks, best, mempool, known, reorgs, coins, savedTxs, tip, crashes>>
          /\ dbTip' = tip /\ updated' = NothingUpdated /\ pc' = "Polled"
        BY <1>12 DEF SetTip, GoTo, chainVars
    <2>2. ChainInv' /\ CoinsInv'
        BY <2>1 DEF IInv, ChainInv, ChainTypeOK, CoinsInv, GoodRow, MinedAt
    <2>3. ControlInv'
        BY <2>1 DEF IInv, ControlInv
    <2>4. QED BY <2>1, <2>2, <2>3, UpdatedReset DEF IInv
<1>13. QED
    BY <1>3, <1>4, <1>5, <1>6, <1>7, <1>8, <1>9, <1>10, <1>11, <1>12 DEF Writes

\* Every step keeps the invariant.
LEMMA NextKeeps == IInv /\ [Next]_vars => IInv'
<1> SUFFICES ASSUME IInv, [Next]_vars PROVE IInv'
    OBVIOUS
<1>1. CASE Node
    <2>1. ChainInv' /\ Grows
        BY <1>1, NodeKeeps DEF Node, IInv
    <2>2. UNCHANGED <<pc, dbTip, coins, savedTxs, tip, updated, crashes>>
        BY <1>1 DEF Node, pollerVars, dbVars
    <2>3. ControlInv'
        BY <2>1, <2>2 DEF IInv, ControlInv, Grows
    <2>4. \A c, h : MinedAt(c, h) => MinedAt(c, h)'
        BY <2>1 DEF MinedAt, Grows
    <2>5. CoinsInv'
        BY <2>2, <2>4 DEF IInv, CoinsInv, GoodRow
    <2>6. UpdatedInv'
        BY <2>2, <2>4 DEF IInv, UpdatedInv, UpdatedTypeOK
    <2>7. QED BY <2>1, <2>3, <2>5, <2>6 DEF IInv
<1>2. CASE Poll
    BY <1>2, QueryKeeps, WritesKeep DEF Poll
<1>3. CASE Crash
    <2>1. /\ UNCHANGED <<blocks, best, mempool, known, reorgs, dbTip, coins, savedTxs>>
          /\ pc' = "Idle" /\ tip' = dbTip /\ updated' = NothingUpdated
          /\ crashes < MaxCrashes /\ crashes' = crashes + 1
        BY <1>3 DEF Crash, GoTo, chainVars, dbVars
    <2>2. ChainInv' /\ CoinsInv'
        BY <2>1 DEF IInv, ChainInv, ChainTypeOK, CoinsInv, GoodRow, MinedAt
    <2>3. crashes' \in 0 .. MaxCrashes
        BY <2>1, CrashesAssumption DEF IInv, ControlInv
    <2>4. ControlInv'
        BY <2>1, <2>3 DEF IInv, ControlInv
    <2>5. QED BY <2>1, <2>2, <2>4, UpdatedReset DEF IInv
<1>4. CASE UNCHANGED vars
    <2>1. UNCHANGED <<blocks, best, mempool, known, reorgs, pc, dbTip, coins, savedTxs,
                      tip, updated, crashes>>
        BY <1>4 DEF vars, chainVars, pollerVars, dbVars
    <2>2. ChainInv' /\ CoinsInv' /\ ControlInv'
        BY <2>1 DEF IInv, ChainInv, ChainTypeOK, CoinsInv, GoodRow, MinedAt, ControlInv
    <2>3. QED BY <2>1, <2>2, UpdatedStays DEF IInv
<1>5. QED BY <1>1, <1>2, <1>3, <1>4 DEF Next

\* The invariant holds in every reachable state.
LEMMA Invariant == Spec => []IInv
BY InitIInv, NextKeeps, PTL DEF Spec

-----------------------------------------------------------------------------
\* The tables, what the thread collects and the node keep their types: a height that
\* is recorded is the height of a block, the tip is a block (looper.rs, updates).
THEOREM Typed == Spec => []TypeOK
<1>1. IInv => TypeOK
    BY DEF IInv, ChainInv, ControlInv, CoinsInv, UpdatedInv, TypeOK
<1>2. QED BY Invariant, <1>1, PTL

\* The height of a coin in the table is never invented: a block at that height, of
\* this branch or of another, holds its transaction, although the node may have
\* reorganized, or lianad crashed, between the query and the write (confirm_coins).
THEOREM Confirmed == Spec => []ConfirmedSomewhere
<1>1. IInv => ConfirmedSomewhere
    BY DEF IInv, CoinsInv, GoodRow, MinedAt, ConfirmedSomewhere, Height
<1>2. QED BY Invariant, <1>1, PTL
=============================================================================
