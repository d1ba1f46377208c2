-------------------------------- MODULE Spending --------------------------------
(***************************************************************************)
(* The commands that make transactions: `createspend` and `rbfpsbt`          *)
(* (commands/mod.rs), over the coin selection of liana/src/spend.rs.  A       *)
(* command reads the database and asks the node in several steps, while the   *)
(* node moves and the poller records what it sees.                            *)
(*                                                                         *)
(* The table of coins is the view of the node that the last poll had (module  *)
(* Poller has the inside of a poll).  Sizes are virtual bytes.  The solver    *)
(* (bdk_coin_select) may return any selection that meets its target.          *)
(***************************************************************************)
EXTENDS Integers, FiniteSets, FiniteSetsExt

CONSTANTS
    SpendTx,     \* the transactions of the wallet
    Utxo,        \* its coins
    Inputs,      \* Inputs[t]: the coins a transaction spends, none for a deposit
    MadeBy,      \* MadeBy[c]: the transaction that creates a coin
    Value,       \* Value[c]: what a coin is worth
    Paid,        \* Paid[t]: what a transaction pays to others
    Stored,      \* the transactions there is a draft of
    Signaling,   \* those that signal for RBF
    BaseSize, InSize, OutSize, \* the sizes of a transaction, of an input and of an output
    Dust,        \* DUST_OUTPUT_SATS
    MinChange,   \* the change policy: change is worth more than that
    MaxFee,      \* MAX_FEE
    MaxFeerate,  \* MAX_FEERATE_VB
    Feerates,    \* bound: the feerates clients ask for
    Amounts,     \* bound: the amounts they pay, 0 to send all to themselves
    Chosen       \* bound: the coins they choose, none to have them selected

ASSUME SpendingAssumption ==
    /\ IsFiniteSet(SpendTx) /\ IsFiniteSet(Utxo)
    /\ Inputs \in [SpendTx -> SUBSET Utxo]
    /\ MadeBy \in [Utxo -> SpendTx]
    /\ Value \in [Utxo -> Nat] /\ Paid \in [SpendTx -> Nat]
    /\ Stored \cup Signaling \subseteq SpendTx
    /\ \A t \in Signaling : Inputs[t] # {} \* it is an input that signals
    /\ {BaseSize, InSize, OutSize} \subseteq Nat \ {0}
    /\ Dust \in Nat \ {0} /\ MinChange \in Nat /\ MinChange >= Dust - 1
    /\ {MaxFee, MaxFeerate} \cup Feerates \cup Amounts \subseteq Nat
    /\ Chosen \subseteq SUBSET Utxo

VARIABLES
    node,   \* what the node has: the transactions in blocks and in its mempool
    polled, \* the table of coins: what it had when the poller looked
    cmd     \* the command, what it has read, and its result

spendingVars == <<node, polled, cmd>>

\* What f gives for the members of a set, together.
Total(f, S) == MapThenSumSet(LAMBDA x : f[x], S)

-----------------------------------------------------------------------------
(* Transactions and views.                                                     *)

Made(t) == {c \in Utxo : MadeBy[c] = t}
WorthOf(coins) == Total(Value, coins)
Size(ins, outs) == BaseSize + InSize * ins + OutSize * outs

Outs(paid) == IF paid = 0 THEN 0 ELSE 1
TxSize(t) == Size(Cardinality(Inputs[t]), Outs(Paid[t]) + Cardinality(Made(t)))

\* The fee of a spend.  That of a deposit, which spends foreign coins, is one per byte.
TxFee(t) == IF Inputs[t] = {} THEN TxSize(t)
            ELSE WorthOf(Inputs[t]) - Paid[t] - WorthOf(Made(t))

\* No transaction makes more than it spends.
ASSUME FeesAssumption == \A t \in SpendTx : TxFee(t) >= 0

FeesOf(txs) == Total([t \in SpendTx |-> TxFee(t)], txs)
SizeOf(txs) == Total([t \in SpendTx |-> TxSize(t)], txs)

Above(t) == {MadeBy[c] : c \in Inputs[t]}

\* A transaction and its unconfirmed ancestors, or descendants, in the mempool.
Ancestry(t, pool) ==
    {u \in pool : \A S \in SUBSET pool :
        (t \in S /\ \A v \in S : Above(v) \cap pool \subseteq S) => u \in S}
Descent(t, pool) == {u \in pool : t \in Ancestry(u, pool)}

\* The states a node can be in.
View ==
    {v \in [mined : SUBSET SpendTx, pool : SUBSET SpendTx] :
        LET all == v.mined \cup v.pool
        IN  /\ v.mined \cap v.pool = {}
            /\ \A t, u \in all : t # u => Inputs[t] \cap Inputs[u] = {}
            /\ \A t \in all : Above(t) \subseteq all
            /\ \A t \in v.mined : Above(t) \subseteq v.mined}

\* The rows of the table.
Known(c) == MadeBy[c] \in polled.mined \cup polled.pool
Confirmed(c) == MadeBy[c] \in polled.mined
SpenderOf(c) == {t \in polled.mined \cup polled.pool : c \in Inputs[t]}
FromSelf(c) == \A t \in Ancestry(MadeBy[c], polled.pool) : Inputs[t] # {}

ConfirmedCoins == {c \in Utxo : Confirmed(c) /\ SpenderOf(c) = {}}
UnconfirmedCoins == {c \in Utxo : Known(c) /\ ~Confirmed(c) /\ SpenderOf(c) = {}}

-----------------------------------------------------------------------------
(* spend.rs.                                                                   *)

\* What a transaction is asked for: `cands` and `must` are the coins it may and must
\* spend, `extra` what the ancestors of a coin add to its size, `replaced` the fees it
\* replaces.
Query == [cands : SUBSET Utxo, must : SUBSET Utxo, paid : Nat, rate : Nat,
          extra : [Utxo -> Nat], rbf : BOOLEAN, replaced : Nat]

\* A bug: the ancestors' size that is paid for is rounded up.
ExtraRoundedUp(anc, rate) ==
    LET paidFor == (anc.fee + rate - 1) \div rate
    IN  IF anc.size > paidFor THEN anc.size - paidFor ELSE 0

\* A bug: ancestors may add less than nothing.
ExtraUnsaturated(anc, rate) == anc.size - anc.fee \div rate

\* The part of a coin's ancestors that their fees do not pay for at a feerate.
Extra(anc, rate) ==
    LET paidFor == anc.fee \div rate
    IN  IF anc.size > paidFor THEN anc.size - paidFor ELSE 0

\* A bug: a replacement does not pay for its own size.
FeeForReplaced(q, coins, outs) ==
    LET size == Size(Cardinality(coins), outs) + Total(q.extra, coins)
        byRate == q.rate * size
    IN  IF q.rbf /\ q.replaced > byRate THEN q.replaced ELSE byRate

\* The fee for the selected coins and some outputs: the target's rate, and for a
\* replacement the fees it replaces and one per byte.
FeeFor(q, coins, outs) ==
    LET size == Size(Cardinality(coins), outs) + Total(q.extra, coins)
        byRate == q.rate * size
        toReplace == q.replaced + size
    IN  IF q.rbf /\ toReplace > byRate THEN toReplace ELSE byRate

\* The change that is left when there is an output for it.
MaxChange(q, coins) == WorthOf(coins) - q.paid - FeeFor(q, coins, Outs(q.paid) + 1)

Change(q, coins) == IF MaxChange(q, coins) > MinChange THEN MaxChange(q, coins) ELSE 0

\* A selection meets the target; that of a self-send must have change.
Meets(q, coins) ==
    \/ Change(q, coins) > 0
    \/ q.paid > 0 /\ WorthOf(coins) >= q.paid + FeeFor(q, coins, 1)

\* select_coins_for_spend()
Selections(q) == {coins \in SUBSET q.cands : q.must \subseteq coins /\ Meets(q, coins)}

\* The transaction create_spend() makes of a selection.
Spend(q, coins) ==
    LET outs == Outs(q.paid) + (IF Change(q, coins) > 0 THEN 1 ELSE 0)
    IN  [ins |-> coins, size |-> Size(Cardinality(coins), outs),
         fee |-> WorthOf(coins) - q.paid - Change(q, coins)]

\* check_output_value() and sanity_check_psbt()
Sane(q, tx) ==
    /\ q.paid = 0 \/ q.paid >= Dust
    /\ tx.fee <= MaxFee
    /\ tx.fee \div tx.size \in 1 .. MaxFeerate

-----------------------------------------------------------------------------
(* The commands.  `left` are the coins and transactions still to ask the node  *)
(* about; `ancestry`, `direct` and `evicted` are kept for the properties: the   *)
(* ancestors of a coin, the transactions to be replaced, and those with their    *)
(* descendants, when the node told.                                             *)

NoCmd ==
    [at |-> "idle", cancel |-> FALSE, prev |-> {}, more |-> {}, left |-> {}, minRate |-> 1,
     q |-> [cands |-> {}, must |-> {}, paid |-> 0, rate |-> 0,
            extra |-> [c \in Utxo |-> 0], rbf |-> FALSE, replaced |-> 0],
     tx |-> [ins |-> {}, size |-> 0, fee |-> 0],
     ancestry |-> [c \in Utxo |-> {}], direct |-> {}, evicted |-> {}]

Command ==
    [at : {"idle", "coins", "ancestors", "inputs", "spenders", "entries", "confirmed",
           "create", "made"},
     cancel : BOOLEAN, prev : SUBSET Utxo, more : SUBSET Utxo,
     left : SUBSET (Utxo \X SpendTx), minRate : Nat \ {0}, q : Query,
     tx : [ins : SUBSET Utxo, size : Nat, fee : Nat],
     ancestry : [Utxo -> SUBSET SpendTx], direct : SUBSET SpendTx, evicted : SUBSET SpendTx]

SpendingTypeOK ==
    /\ node \in View /\ polled \in View
    /\ cmd \in Command
    /\ cmd.q.must \subseteq cmd.q.cands /\ cmd.direct \subseteq cmd.evicted

SpendingInit ==
    /\ node = [mined |-> {}, pool |-> {}] /\ polled = node
    /\ cmd = NoCmd

\* Bound: once a command has read all it needs, nothing else happens until it is done.
HasRead == cmd.at \in {"create", "made"}

\* Blocks and transactions come, or go.
NodeMoves ==
    /\ ~HasRead
    /\ node' \in View \ {node}
    /\ UNCHANGED <<polled, cmd>>

\* The poller brings the table up to date.
PollCoins ==
    /\ ~HasRead
    /\ polled' = node
    /\ UNCHANGED <<node, cmd>>

Give(next) == cmd' = next /\ UNCHANGED <<node, polled>>

\* createspend, with at least one destination or one coin and a feerate that is not 0.
AskSpend ==
    /\ cmd.at = "idle"
    /\ \E paid \in Amounts, must \in Chosen, rate \in Feerates \ {0} :
          /\ paid > 0 \/ must # {}
          /\ Give([NoCmd EXCEPT !.at = "coins", !.q.paid = paid, !.q.rate = rate,
                                !.q.must = must, !.q.cands = must])

\* The coins a client chose must be in the table and unspent; otherwise all unspent
\* coins are candidates, save those that strangers' unconfirmed transactions made.
ReadCoins ==
    /\ cmd.at = "coins"
    /\ LET cands == IF cmd.q.must # {} THEN cmd.q.must
                    ELSE ConfirmedCoins \cup {c \in UnconfirmedCoins : FromSelf(c)}
       IN  Give(IF cands \subseteq ConfirmedCoins \cup UnconfirmedCoins
                THEN [cmd EXCEPT !.at = "ancestors", !.q.cands = cands,
                                 !.left = {<<c, MadeBy[c]>> :
                                              c \in cands \cap UnconfirmedCoins}]
                ELSE NoCmd)

\* mempool_entry() of the transaction that made a coin; one that is not there any more
\* adds nothing.
ReadAncestors ==
    /\ cmd.at = "ancestors"
    /\ \E l \in cmd.left :
          LET all == IF l[2] \in node.pool THEN Ancestry(l[2], node.pool) ELSE {}
              anc == [size |-> SizeOf(all), fee |-> FeesOf(all)]
          IN  Give([cmd EXCEPT !.left = @ \ {l},
                               !.q.extra[l[1]] = Extra(anc, cmd.q.rate),
                               !.ancestry[l[1]] = all])

HaveAncestors ==
    /\ cmd.at = "ancestors" /\ cmd.left = {}
    /\ Give([cmd EXCEPT !.at = "create"])

\* rbfpsbt of a transaction that has a draft or that the table has as the unconfirmed
\* spender of a coin, and that signals for RBF.  A cancellation has no feerate.
AskRbf ==
    /\ cmd.at = "idle"
    /\ \E t \in Signaling, cancel \in BOOLEAN, rate \in Feerates :
          /\ \/ t \in Stored
             \/ t \in polled.pool /\ \E c \in Utxo : Known(c) /\ c \in Inputs[t]
          /\ cancel => rate = 0
          /\ Give([NoCmd EXCEPT !.at = "inputs", !.cancel = cancel, !.prev = Inputs[t],
                                !.q.rbf = TRUE, !.q.rate = rate,
                                !.q.paid = IF cancel THEN 0 ELSE Paid[t]])

\* Its inputs must be coins that no confirmed transaction spends.
ReadInputs ==
    /\ cmd.at = "inputs"
    /\ Give(IF \A c \in cmd.prev : Known(c) /\ SpenderOf(c) \cap polled.mined = {}
            THEN [cmd EXCEPT !.at = "spenders"]
            ELSE NoCmd)

\* mempool_txs_spending_prevouts(): one answer for each input that is spent.
ListSpenders ==
    /\ cmd.at = "spenders"
    /\ Give([cmd EXCEPT !.at = "entries",
                        !.left = {l \in cmd.prev \X node.pool : l[1] \in Inputs[l[2]]}])

\* A bug: the feerate that is replaced is enough.
EntryRateAsIs(t) == TxFee(t) \div TxSize(t)

\* The least feerate that beats that of a transaction.
EntryRate(t) == TxFee(t) \div TxSize(t) + 1

\* mempool_entry() of each of them, and the fold over the entries.
ReadSpender ==
    /\ cmd.at = "entries"
    /\ \E l \in cmd.left :
          LET t == l[2]
              rest == [cmd EXCEPT !.left = @ \ {l}]
          IN  Give(IF t \notin node.pool THEN rest
                   ELSE [rest EXCEPT !.minRate = IF EntryRate(t) > @ THEN EntryRate(t)
                                                                     ELSE @,
                                     !.q.replaced = @ + FeesOf(Descent(t, node.pool)),
                                     !.direct = @ \cup {t},
                                     !.evicted = @ \cup Descent(t, node.pool)])

\* The feerate of a cancellation is the least one; another one must not be lower.
CheckFeerate ==
    /\ cmd.at = "entries" /\ cmd.left = {}
    /\ Give(IF cmd.cancel
            THEN [cmd EXCEPT !.at = "confirmed", !.q.rate = cmd.minRate]
            ELSE IF cmd.q.rate >= cmd.minRate
            THEN [cmd EXCEPT !.at = "confirmed"]
            ELSE NoCmd)

\* The coins of the replaced transaction, and confirmed ones that it does not spend.  A
\* cancellation is first tried without the latter.
ReadConfirmed ==
    /\ cmd.at = "confirmed"
    /\ LET more == ConfirmedCoins \ cmd.prev
       IN  Give([cmd EXCEPT !.at = "create",
                            !.more = more,
                            !.q.cands = IF cmd.cancel THEN cmd.prev ELSE cmd.prev \cup more,
                            !.q.must = IF cmd.cancel THEN {} ELSE cmd.prev])

\* create_spend() of spend.rs: any selection that meets the target.
CreateTx ==
    /\ cmd.at = "create"
    /\ \E coins \in Selections(cmd.q) :
          LET tx == Spend(cmd.q, coins)
          IN  Give(IF Sane(cmd.q, tx) THEN [cmd EXCEPT !.at = "made", !.tx = tx]
                                      ELSE NoCmd)

\* A bug: the second attempt to cancel may leave out the coins of the replaced one.
AllOptional(q, more) == [q EXCEPT !.cands = @ \cup more]

\* The second attempt to cancel spends all coins of the replaced transaction.
WithMore(q, more) == [q EXCEPT !.must = q.cands, !.cands = @ \cup more]

\* No selection meets the target.
Insufficient ==
    /\ cmd.at = "create" /\ Selections(cmd.q) = {}
    /\ Give(IF cmd.cancel /\ cmd.q.must = {}
            THEN [cmd EXCEPT !.q = WithMore(@, cmd.more), !.more = {}]
            ELSE NoCmd)

Answer == cmd.at = "made" /\ Give(NoCmd)

SpendingNext ==
    \/ NodeMoves \/ PollCoins
    \/ AskSpend \/ ReadCoins \/ ReadAncestors \/ HaveAncestors
    \/ AskRbf \/ ReadInputs \/ ListSpenders \/ ReadSpender \/ CheckFeerate \/ ReadConfirmed
    \/ CreateTx \/ Insufficient \/ Answer

SpendingSpec == SpendingInit /\ [][SpendingNext]_spendingVars

-----------------------------------------------------------------------------
Replacement == cmd.at = "made" /\ cmd.q.rbf

\* A replacement pays the fees of all transactions that go with the ones it replaces,
\* and for its own size: rules 3 and 4 of the node's policy ("Compute the minimal feerate
\* and fee the replacement transaction must have to satisfy RBF rules #3, #4 and #6").
ReplacementPays == Replacement => cmd.tx.fee >= FeesOf(cmd.evicted) + cmd.tx.size

\* Its feerate is more than that of each of them: rule 6.
BeatsFeerate ==
    Replacement => \A t \in cmd.direct : cmd.tx.fee * TxSize(t) > TxFee(t) * cmd.tx.size

\* It conflicts with the transaction it is to replace, however the coins were selected
\* ("find the best solution that includes at least one of these").
Conflicting == Replacement => cmd.tx.ins \cap cmd.prev # {}

\* A spend and the unconfirmed ancestors of each of its coins have the feerate the client
\* asked for ("in order for the combined feerate to be at the target value", spend.rs:383).
PackagePays ==
    cmd.at = "made" /\ ~cmd.q.rbf =>
        \A c \in cmd.tx.ins :
            cmd.tx.fee + FeesOf(cmd.ancestry[c])
                >= cmd.q.rate * (cmd.tx.size + SizeOf(cmd.ancestry[c]))

\* What the comment says of the fees that are replaced: "The replaced fee is the fee of
\* the transaction being replaced and its descendants" (commands/mod.rs:1130).  It does
\* not hold: a transaction counts once for each of its inputs.
ReplacedFeeOnce ==
    cmd.at = "create" /\ cmd.q.rbf => cmd.q.replaced <= FeesOf(cmd.evicted)
=============================================================================
