--------------------------- MODULE MCPollerWorlds ---------------------------
(* Three worlds for Poller in one run of TLC: a behaviour stays in the one it       *)
(* begins in.  Two blocks may give way to others in "pair", a deposit and its        *)
(* spend.  "mature" has two conflicting deposits and a coinbase transaction that     *)
(* pays the wallet; "chained" a deposit, its spend, and a spend of the change        *)
(* together with a foreign input ("x" and "y" are somebody else's outpoints); there  *)
(* only that last spend may be evicted from the mempool.                             *)
EXTENDS Poller, TLC

WorldsTx == {"dep", "dep2", "cb", "s1", "mix"}
WorldsCoin == {"a", "a2", "k", "b", "m"}
WorldsIns == [dep |-> {"x"}, dep2 |-> {"x"}, cb |-> {}, s1 |-> {"a"}, mix |-> {"b", "y"}]
WorldsTxOf == [a |-> "dep", a2 |-> "dep2", k |-> "cb", b |-> "s1", m |-> "mix"]
WorldsOutpoint == WorldsCoin \cup {"x", "y"}

World == [pair    |-> [tx |-> {"dep", "s1"}, evict |-> {"dep", "s1"},
                     blocks |-> 4, reorgs |-> 2],
          mature  |-> [tx |-> {"dep", "dep2", "cb"}, evict |-> {"dep", "dep2"},
                     blocks |-> 3, reorgs |-> 1],
          chained |-> [tx |-> {"dep", "s1", "mix"}, evict |-> {"mix"},
                     blocks |-> 3, reorgs |-> 1]]

VARIABLE world

\* ChainNext with the transactions and the bounds of a world.
WorldNode(w) ==
    /\ \/ /\ Cardinality(DOMAIN blocks) < w.blocks
          /\ \E parent \in DOMAIN blocks, txs \in SUBSET w.tx :
                (parent = best \/ reorgs < w.reorgs) /\ Mine(parent, txs)
       \/ \E t \in w.tx : Accept(t)
       \/ \E t \in w.evict : Evict(t)
    /\ UNCHANGED pollerVars

WorldsInit == Init /\ world \in DOMAIN World
WorldsNext == (WorldNode(World[world]) \/ Poll) /\ UNCHANGED world
WorldsSpec == WorldsInit /\ [][WorldsNext]_<<vars, world>>
=============================================================================
