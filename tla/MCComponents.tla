---------------------------- MODULE MCComponents ----------------------------
(* The parts of lianad that share no state with each other in these models, for TLC *)
(* in one run: a behaviour is that of one part, and the others stay where they are. *)
(*                                                                                  *)
(* daemon: three clients for two slots, so that the accept loop has to wait, and    *)
(*   three broadcasts, so that the channel is full while another client and the     *)
(*   main thread want to send.                                                      *)
(* indexes: two threads race for the indexes 0 .. 4; the look-ahead is three        *)
(*   addresses instead of LOOK_AHEAD_LIMIT = 200, and updatederivindexes may skip   *)
(*   two instead of MAX_INCREMENT_GAP = 1000, so that both limits are met.          *)
(* drafts: two threads update and delete the draft of one spend two people sign.    *)
(* search: chains of up to seven blocks, the median time past of three.             *)
(* spending: a deposit of three coins; a payment with two of them and change, a     *)
(*   child of that change, and a payment that conflicts with the first.  Sizes are  *)
(*   so small that every rule of the fees decides somewhere.                        *)
EXTENDS Daemon, DerivIndex, SpendStore, BlockBefore, Spending, TLC

CONSTANTS c1, c2, c3, t1, t2, d1, alice, bob

MCConn == {c1, c2, c3}
MCThread == {t1, t2}
MCDraft == {d1}
MCSigner == {alice, bob}

MCSpendTx == {"deposit", "payment", "child", "other"}
MCUtxo == {"a", "b", "e", "change", "last", "otherChange"}
MCInputs == ("deposit" :> {}) @@ ("payment" :> {"a", "b"}) @@ ("child" :> {"change"})
            @@ ("other" :> {"b", "e"})
MCMadeBy == ("a" :> "deposit") @@ ("b" :> "deposit") @@ ("e" :> "deposit")
            @@ ("change" :> "payment") @@ ("last" :> "child") @@ ("otherChange" :> "other")
MCValue == ("a" :> 30) @@ ("b" :> 20) @@ ("e" :> 70)
           @@ ("change" :> 30) @@ ("last" :> 12) @@ ("otherChange" :> 57)
MCPaid == ("deposit" :> 0) @@ ("payment" :> 10) @@ ("child" :> 0) @@ ("other" :> 20)
MCStored == {"payment"}
MCSignaling == {"payment", "child", "other"}
MCChosen == {{}, {"a"}, {"change"}, {"last"}, {"e", "change"}, {"change", "otherChange"}}

VARIABLE part  \* the part that runs

partVars == <<part, daemonVars, indexVars, storeVars, searchVars, spendingVars>>

PartInit ==
    /\ part \in {"daemon", "indexes", "drafts", "search", "spending"}
    /\ DaemonInit /\ (synced => part = "daemon")
    /\ IndexInit
    /\ StoreInit /\ (ownCoins = {} \/ part = "drafts")
    /\ SearchInit
    /\ SpendingInit

PartNext ==
    /\ UNCHANGED part
    /\ \/ /\ part = "daemon" /\ DaemonNext
          /\ UNCHANGED <<indexVars, storeVars, searchVars, spendingVars>>
       \/ /\ part = "indexes" /\ IndexNext
          /\ UNCHANGED <<daemonVars, storeVars, searchVars, spendingVars>>
       \/ /\ part = "drafts" /\ StoreNext
          /\ UNCHANGED <<daemonVars, indexVars, searchVars, spendingVars>>
       \/ /\ part = "search" /\ SearchNext
          /\ UNCHANGED <<daemonVars, indexVars, storeVars, spendingVars>>
       \/ /\ part = "spending" /\ SpendingNext
          /\ UNCHANGED <<daemonVars, indexVars, storeVars, searchVars>>

\* The fairness of each part, when it is the one that runs: CommandFairness of Daemon,
\* and SearchFairness.
PartFairness ==
    /\ WF_daemonVars(part = "daemon" /\ Running /\ PollerThread)
    /\ \A c \in Conn : WF_daemonVars(part = "daemon" /\ Running /\ HandlerThread(c))
    /\ SearchFairness

ComponentsSpec == PartInit /\ [][PartNext]_partVars /\ PartFairness

\* All parts keep their types: no count, size or height is ever negative, and no table
\* has two rows for one thing.
PartsTypeOK == /\ DaemonTypeOK /\ IndexTypeOK
               /\ StoreTypeOK /\ SearchTypeOK /\ SpendingTypeOK
=============================================================================
