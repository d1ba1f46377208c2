----------------------------- MODULE DerivIndex -----------------------------
(***************************************************************************)
(* The derivation indexes of the wallet.  For each kind of address the      *)
(* database keeps the last index in use, and a lookup table from the first  *)
(* addresses to their index, with a look-ahead beyond the last index: a     *)
(* deposit to an address that is not in the table is never recorded         *)
(* (looper.rs, update_coins).                                               *)
(*                                                                         *)
(* The JSONRPC threads and the poller read an index in one query and raise  *)
(* it in a later transaction (database/sqlite/mod.rs,                       *)
(* set_derivation_index), each with a connection of its own.                *)
(***************************************************************************)
EXTENDS Integers, FiniteSets

CONSTANTS
    Thread,         \* the threads of lianad that move the indexes
    LookAheadLimit, \* LOOK_AHEAD_LIMIT
    MaxGap,         \* MAX_INCREMENT_GAP of updatederivindexes
    MaxIndex        \* bound: the highest index

Kind == {"receive", "change"}
Index == 0 .. MaxIndex
NoIndex == -1  \* Option::<u32>::None
BadIndex == -2 \* an index of the hardened range

ASSUME DerivAssumption ==
    /\ LookAheadLimit \in Nat /\ LookAheadLimit >= 2
    /\ MaxGap \in Nat
    /\ MaxIndex \in Nat

VARIABLES
    index,  \* wallets.deposit_derivation_index and change_derivation_index
    lookup, \* table addresses: the indexes it has, for both kinds alike
    given,  \* the deposit indexes that getnewaddress returned
    thread  \* what each thread is about to do, and the indexes it will set

indexVars == <<index, lookup, given, thread>>

Idle == [at |-> "idle", receive |-> NoIndex, change |-> NoIndex]

IndexTypeOK ==
    /\ index \in [Kind -> Index]
    /\ lookup \subseteq Nat
    /\ given \subseteq Index
    /\ thread \in [Thread -> [at : {"idle", "new address", "change index", "set receive",
                                    "set change", "raise", "panicked"},
                              receive : Index \cup {NoIndex},
                              change : Index \cup {NoIndex, BadIndex}]]

Highest(i) == IF i["receive"] >= i["change"] THEN i["receive"] ELSE i["change"]

\* create_fresh_db() fills the table with the first LookAheadLimit addresses.
IndexInit ==
    /\ index = [k \in Kind |-> 0]
    /\ lookup = 0 .. LookAheadLimit - 1
    /\ given = {}
    /\ thread = [t \in Thread |-> Idle]

Goto(t, at, receive, change) ==
    thread' = [thread EXCEPT ![t] =
                  [at |-> at, receive |-> receive, change |-> change]]

\* Bugs that the properties must tell from Added: the look-ahead of n alone, one index
\* too far, and one that forgets the other kind.
AddedLast(n) == {n + LookAheadLimit - 1}
AddedBeyond(n) == {i + LookAheadLimit : i \in Highest(index) + 1 .. n}
AddedReceive(n) == {i + LookAheadLimit - 1 : i \in index["receive"] + 1 .. n}

\* The look-ahead that the addresses up to n add to the table.
Added(n) == {i + LookAheadLimit - 1 : i \in Highest(index) + 1 .. n}

\* A bug: a lower index is not ignored.
SetAnyIndex(t, kind, n, next, change) ==
    /\ index' = [index EXCEPT ![kind] = IF n = NoIndex THEN @ ELSE n]
    /\ lookup' = lookup \cup Added(n)
    /\ Goto(t, next, NoIndex, change)

\* set_derivation_index(): one transaction.  A lower index is ignored, and an address
\* that is there already panics the thread.
SetIndex(t, kind, n, next, change) ==
    IF n <= index[kind]
    THEN UNCHANGED <<index, lookup>> /\ Goto(t, next, NoIndex, change)
    ELSE IF Added(n) \cap lookup # {}
    THEN UNCHANGED <<index, lookup>> /\ Goto(t, "panicked", NoIndex, NoIndex)
    ELSE /\ index' = [index EXCEPT ![kind] = n]
         /\ lookup' = lookup \cup Added(n)
         /\ Goto(t, next, NoIndex, change)

-----------------------------------------------------------------------------
\* get_new_address(): the index after the current one ...
GetNewAddress(t) ==
    /\ thread[t].at = "idle"
    /\ index["receive"] < MaxIndex
    /\ Goto(t, "new address", index["receive"] + 1, NoIndex)
    /\ UNCHANGED <<index, lookup, given>>

\* ... is set, and its address returned.
ReturnAddress(t) ==
    /\ thread[t].at = "new address"
    /\ SetIndex(t, "receive", thread[t].receive, "idle", NoIndex)
    /\ given' = IF thread'[t].at = "panicked" THEN given
                                              ELSE given \cup {thread[t].receive}

\* update_deriv_indexes(): the index to set for a wanted one, MaxGap at most above
\* the current one.
Target(wanted, current) ==
    IF wanted <= current THEN NoIndex
    ELSE IF wanted - current <= MaxGap THEN wanted ELSE current + MaxGap

\* It reads the receive index, then the change index, ...
UpdateIndexes(t) ==
    /\ thread[t].at = "idle"
    /\ \E receive \in Index \cup {NoIndex}, change \in Index \cup {NoIndex, BadIndex} :
          Goto(t, "change index", Target(receive, index["receive"]), change)
    /\ UNCHANGED <<index, lookup, given>>

ReadChangeIndex(t) ==
    /\ thread[t].at = "change index"
    /\ Goto(t, "set receive", thread[t].receive,
            IF thread[t].change = BadIndex THEN BadIndex
            ELSE Target(thread[t].change, index["change"]))
    /\ UNCHANGED <<index, lookup, given>>

\* ... then sets the first, and only then looks whether the second is valid: the
\* command may fail with half of its effect.
SetReceive(t) ==
    LET invalid == thread[t].change = BadIndex
    IN  /\ thread[t].at = "set receive"
        /\ SetIndex(t, "receive", thread[t].receive,
                    IF invalid THEN "idle" ELSE "set change",
                    IF invalid THEN NoIndex ELSE thread[t].change)
        /\ UNCHANGED given

SetChange(t) ==
    /\ thread[t].at = "set change"
    /\ SetIndex(t, "change", thread[t].change, "idle", NoIndex)
    /\ UNCHANGED given

\* The poller received a coin, or a command created a spend, with an address of the
\* wallet found in the table: maybe_increase_last_deriv_index() and update_coins()
\* compare its index with the current one ...
SeeAddress(t, kind, n) ==
    /\ thread[t].at = "idle"
    /\ n \in lookup \cap Index
    /\ n > index[kind]
    /\ Goto(t, "raise", IF kind = "receive" THEN n ELSE NoIndex,
                        IF kind = "change" THEN n ELSE NoIndex)
    /\ UNCHANGED <<index, lookup, given>>

\* ... and raise it.
Raise(t) ==
    /\ thread[t].at = "raise"
    /\ IF thread[t].receive # NoIndex
       THEN SetIndex(t, "receive", thread[t].receive, "idle", NoIndex)
       ELSE SetIndex(t, "change", thread[t].change, "idle", NoIndex)
    /\ UNCHANGED given

\* The process is restarted: what the threads were about to do is lost.
Restart ==
    /\ thread' = [t \in Thread |-> Idle]
    /\ UNCHANGED <<index, lookup, given>>

Step(t) ==
    \/ GetNewAddress(t) \/ ReturnAddress(t)
    \/ UpdateIndexes(t) \/ ReadChangeIndex(t) \/ SetReceive(t) \/ SetChange(t)
    \/ \E kind \in Kind, n \in Index : SeeAddress(t, kind, n)
    \/ Raise(t)

IndexNext == (\E t \in Thread : Step(t)) \/ Restart

IndexSpec == IndexInit /\ [][IndexNext]_indexVars

-----------------------------------------------------------------------------
\* The table has no hole: it holds every address up to the highest index in use,
\* and LookAheadLimit - 1 further ones, whatever the threads do between reading an
\* index and setting it.
Coverage == lookup = 0 .. Highest(index) + LookAheadLimit - 1

\* The table never sees the same address twice: an INSERT would break its UNIQUE
\* constraint, and "Database must be available" would panic.
NoIndexPanic == \A t \in Thread : thread[t].at # "panicked"

\* An address handed out is known to the wallet, so that a deposit to it will be
\* recorded, and so is the one the next change would go to.
GivenAreWatched ==
    /\ given \subseteq lookup
    /\ \A i \in given : i <= index["receive"]
    /\ index["change"] + 1 \in lookup

\* An index never goes back.
IndexesGrow ==
    [][\A k \in Kind : index[k] <= index'[k]]_indexVars

\* "Get a new deposit address.  This will always generate a new deposit address"
\* (commands/mod.rs).
AlwaysNewAddress ==
    [][\A t \in Thread : ReturnAddress(t) => thread[t].receive \notin given]_indexVars
=============================================================================
