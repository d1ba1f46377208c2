------------------------------ MODULE MCRescan ------------------------------
(* Instances of Rescan for TLC: two blocks that are older than the wallet, the first *)
(* with a deposit of coin a, the second with its spend, and a coinbase coin b that is *)
(* yet to be mined and has to mature.                                                *)
EXTENDS Rescan, TLC

MCTx == {"old", "spend", "new"}
MCCoin == {"a", "b"}
MCIns == [old |-> {"x"}, spend |-> {"a"}, new |-> {}]
MCTxOf == [a |-> "old", b |-> "new"]
MCOutpoint == MCCoin \cup {"x"}
MCCoinbase == {"new"}
MCHistory == <<{"old"}, {"spend"}>>
=============================================================================
