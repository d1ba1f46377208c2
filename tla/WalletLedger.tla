---------------------------- MODULE WalletLedger ----------------------------
(***************************************************************************)
(* What the poller promises about confirmations.  The wallet shows a tip   *)
(* and, for each coin, the block it was received in and the one it was     *)
(* spent in, exactly as the chain of that tip has them ("we've got all     *)
(* updates up to this block.  But not more.", looper.rs).  It moves from   *)
(* one tip to another in one step, forward to a descendant or back to an   *)
(* ancestor, whatever the node does meanwhile.  Poller implements it.      *)
(***************************************************************************)
EXTENDS Bitcoind

VARIABLES
    ledgerTip, \* the tip the wallet shows
    received,  \* the height each coin was confirmed at, NoHeight if it is not
    spent      \* the confirmed spend of each coin: [tx, height]

ledgerVars == <<ledgerTip, received, spent>>

NotSpent == [tx |-> NoTx, height |-> NoHeight]

\* A coinbase coin need not show before it is mature.
Immature(c, b) ==
    /\ TxOf[c] \in Coinbase
    /\ Height(b) - HeightOn(TxOf[c], b) + 1 < Maturity

ReceivedOn(b) ==
    {f \in [Coin -> {HeightOn(t, b) : t \in Tx} \cup {NoHeight}] :
        \A c \in Coin : \/ f[c] = HeightOn(TxOf[c], b)
                        \/ f[c] = NoHeight /\ Immature(c, b)}

SpentOn(b) ==
    [c \in Coin |->
        IF \E t \in TxsOn(b) : c \in Ins[t]
        THEN LET t == CHOOSE t \in TxsOn(b) : c \in Ins[t]
             IN  [tx |-> t, height |-> HeightOn(t, b)]
        ELSE NotSpent]

LedgerInit ==
    /\ ChainInit
    /\ ledgerTip = 0
    /\ received = [c \in Coin |-> NoHeight]
    /\ spent = [c \in Coin |-> NotSpent]

\* The wallet shows another tip of the same chain.
Show(b) ==
    /\ ledgerTip \in Chain(b) \/ b \in Chain(ledgerTip)
    /\ ledgerTip' = b
    /\ received' \in ReceivedOn(b)
    /\ spent' = SpentOn(b)

LedgerNext ==
    \/ UNCHANGED chainVars /\ \E b \in DOMAIN blocks : Show(b)
    \/ UNCHANGED ledgerVars /\ ChainNext

LedgerSpec == LedgerInit /\ [][LedgerNext]_<<chainVars, ledgerVars>>
=============================================================================
