------------------------------ MODULE MCPoller ------------------------------
(* Instances of Poller for TLC: each is a handful of transactions, and the coins *)
(* they create for the wallet ("x" is somebody else's outpoint).                 *)
EXTENDS Poller, TLC

\* A deposit of coin a, and two conflicting spends of it with a change coin each.
SpendTx == {"dep", "s1", "s2"}
SpendCoin == {"a", "b1", "b2"}
SpendIns == [dep |-> {"x"}, s1 |-> {"a"}, s2 |-> {"a"}]
SpendTxOf == [a |-> "dep", b1 |-> "s1", b2 |-> "s2"]
SpendOutpoint == SpendCoin \cup {"x"}

\* The same, but the spends leave no change: the wallet receives nothing from them.
SweepCoin == {"a"}
SweepTxOf == [a |-> "dep"]
SweepOutpoint == SweepCoin \cup {"x"}

\* A deposit and its spend, with change.
PairTx == {"dep", "s1"}
PairCoin == {"a", "b"}
PairIns == [dep |-> {"x"}, s1 |-> {"a"}]
PairTxOf == [a |-> "dep", b |-> "s1"]
PairOutpoint == PairCoin \cup {"x"}
=============================================================================
