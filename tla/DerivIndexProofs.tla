-------------------------- MODULE DerivIndexProofs --------------------------
(***************************************************************************)
(* The derivation indexes, for every number of threads, look-ahead, gap and *)
(* highest index: the lookup table has no hole and no repeated address, and *)
(* what getnewaddress hands out is watched.                                 *)
(*                                                                         *)
(* The inductive invariant is Coverage with the types and, of the threads,  *)
(* only that the one about to return an address has an index to return: a   *)
(* thread may hold an index however stale, because SetIndex compares it     *)
(* with the current one in the transaction that writes it.                  *)
(***************************************************************************)
EXTENDS DerivIndex, TLAPS

ThreadState == [at : {"idle", "new address", "change index", "set receive",
                      "set change", "raise", "panicked"},
                receive : Index \cup {NoIndex},
                change : Index \cup {NoIndex, BadIndex}]

\* What the invariant asks of one thread.
Going(state) ==
    /\ state \in ThreadState
    /\ state.at # "panicked"
    /\ state.at = "new address" => state.receive \in Index

\* What a call of set_derivation_index() does, as far as the invariant goes.
Raised(kind, n) ==
    /\ index' \in [Kind -> Index]
    /\ lookup' \subseteq Nat
    /\ Coverage'
    /\ \A k \in Kind : index[k] <= index'[k]
    /\ n <= index'[kind]

IInv ==
    /\ IndexTypeOK
    /\ Coverage
    /\ \A t \in Thread : Going(thread[t])
    /\ \A i \in given : i <= index["receive"]

\* The highest index in use is one of the two.
LEMMA HighestType ==
    ASSUME NEW i \in [Kind -> Index]
    PROVE  /\ Highest(i) \in Index
           /\ \A k \in Kind : i[k] <= Highest(i)
BY DerivAssumption DEF Highest, Kind, Index

\* The addresses set_derivation_index() adds follow those that are there, whatever
\* index the other kind has: they are new, and leave no hole.
LEMMA AddedExtends ==
    ASSUME IndexTypeOK, Coverage, NEW kind \in Kind, NEW n \in Index, n > index[kind]
    PROVE  /\ Added(n) \cap lookup = {}
           /\ lookup \cup Added(n) =
                0 .. Highest([index EXCEPT ![kind] = n]) + LookAheadLimit - 1
<1> DEFINE H == Highest(index)
           raised == [index EXCEPT ![kind] = n]
<1>a. LookAheadLimit \in Nat /\ LookAheadLimit >= 1 /\ MaxIndex \in Nat
    BY DerivAssumption
<1>b. index \in [Kind -> Index]
    BY DEF IndexTypeOK
<1>c. lookup = 0 .. H + LookAheadLimit - 1
    BY DEF Coverage
<1>1. /\ index \in [Kind -> Index]
      /\ lookup = 0 .. H + LookAheadLimit - 1
      /\ LookAheadLimit \in Nat /\ LookAheadLimit >= 1 /\ MaxIndex \in Nat
    BY <1>a, <1>b, <1>c
<1>2. H \in Nat /\ n \in Nat
    BY <1>1, HighestType DEF Index
<1>3. Highest(raised) = IF n > H THEN n ELSE H
    BY <1>1 DEF Highest, Kind, Index
<1>4. Added(n) = {i + LookAheadLimit - 1 : i \in H + 1 .. n}
    BY DEF Added
<1>5. Added(n) \cap lookup = {}
    BY <1>1, <1>2, <1>4
<1>6. lookup \cup Added(n) = 0 .. Highest(raised) + LookAheadLimit - 1
    <2>1. \A x : x \in Added(n) <=>
              x \in H + LookAheadLimit .. n + LookAheadLimit - 1
        <3>1. ASSUME NEW x \in H + LookAheadLimit .. n + LookAheadLimit - 1
              PROVE  x \in Added(n)
            <4>1. /\ x - LookAheadLimit + 1 \in H + 1 .. n
                  /\ x = (x - LookAheadLimit + 1) + LookAheadLimit - 1
                BY <3>1, <1>1, <1>2
            <4>2. QED BY <4>1, <1>4
        <3>2. QED BY <3>1, <1>1, <1>2, <1>4
    <2>2. QED BY <2>1, <1>1, <1>2, <1>3
<1>7. QED BY <1>5, <1>6

\* set_derivation_index() never panics, raises one index at most, and keeps the table
\* in step with it.
LEMMA SetIndexKeeps ==
    ASSUME IndexTypeOK, Coverage,
           NEW t, NEW kind \in Kind, NEW n \in Index \cup {NoIndex, BadIndex},
           NEW next, NEW change, SetIndex(t, kind, n, next, change)
    PROVE  Raised(kind, n) /\ Goto(t, next, NoIndex, change)
<1>1. index \in [Kind -> Index] /\ MaxIndex \in Nat /\ LookAheadLimit \in Nat
    BY DerivAssumption DEF IndexTypeOK
<1>2. CASE n <= index[kind]
    <2>1. UNCHANGED <<index, lookup>> /\ Goto(t, next, NoIndex, change)
        BY <1>2 DEF SetIndex
    <2>2. \A k \in Kind : index[k] <= index'[k]
        BY <1>1, <2>1 DEF Index
    <2>3. Coverage'
        BY <2>1 DEF Coverage, Highest
    <2>4. QED BY <1>1, <1>2, <2>1, <2>2, <2>3 DEF Raised, IndexTypeOK
<1>3. CASE n > index[kind]
    <2>1. n \in Index
        BY <1>1, <1>3 DEF Index, NoIndex, BadIndex
    <2>2. Added(n) \cap lookup = {}
        BY <1>3, <2>1, AddedExtends
    <2>3. /\ index' = [index EXCEPT ![kind] = n]
          /\ lookup' = lookup \cup Added(n)
          /\ Goto(t, next, NoIndex, change)
        BY <1>1, <1>3, <2>1, <2>2 DEF SetIndex, Index
    <2>4. /\ index' \in [Kind -> Index]
          /\ \A k \in Kind : index[k] <= index'[k]
          /\ n <= index'[kind]
        BY <1>1, <1>3, <2>1, <2>3 DEF Index
    <2>5. Coverage'
        BY <1>3, <2>1, <2>3, AddedExtends DEF Coverage
    <2>6. lookup' \subseteq Nat
        BY <2>4, <2>5, <1>1, HighestType DEF Coverage, Index
    <2>7. QED BY <2>3, <2>4, <2>5, <2>6 DEF Raised
<1>4. n \in Int /\ index[kind] \in Int
    BY <1>1 DEF Index, NoIndex, BadIndex
<1>5. QED BY <1>2, <1>3, <1>4

\* The indexes update_deriv_indexes() sets are in range.
LEMMA TargetType ==
    ASSUME NEW wanted \in Index \cup {NoIndex}, NEW current \in Index
    PROVE  Target(wanted, current) \in Index \cup {NoIndex}
BY DerivAssumption DEF Target, Index, NoIndex

-----------------------------------------------------------------------------
\* The initial states satisfy the invariant.
LEMMA InitIInv == IndexInit => IInv
<1> SUFFICES ASSUME IndexInit PROVE IInv
    OBVIOUS
<1>1. index = [k \in Kind |-> 0] /\ 0 \in Index
    BY DerivAssumption DEF IndexInit, Index
<1>2. Highest(index) = 0
    BY <1>1 DEF Highest, Kind
<1>3. IndexTypeOK
    BY <1>1, DerivAssumption DEF IndexInit, IndexTypeOK, Idle
<1>4. Coverage
    BY <1>2, DerivAssumption DEF IndexInit, Coverage
<1>5. \A t \in Thread : Going(thread[t])
    BY DEF IndexInit, Idle, Going, ThreadState
<1>6. QED BY <1>3, <1>4, <1>5 DEF IndexInit, IInv

\* A thread that goes on leaves the others as they are.
LEMMA ThreadGoes ==
    ASSUME IndexTypeOK, \A u \in Thread : Going(thread[u]),
           NEW t \in Thread, NEW state, Going(state),
           thread' = [thread EXCEPT ![t] = state]
    PROVE  /\ thread' \in [Thread -> ThreadState]
           /\ \A u \in Thread : Going(thread'[u])
<1>1. thread \in [Thread -> ThreadState]
    BY DEF IndexTypeOK, ThreadState
<1>2. state \in ThreadState
    BY DEF Going
<1>3. \A u \in Thread : thread'[u] = IF u = t THEN state ELSE thread[u]
    BY <1>1
<1>4. QED BY <1>1, <1>2, <1>3

\* A step that moves only thread t.
LEMMA ThreadStep ==
    ASSUME IInv, NEW t \in Thread, NEW at, NEW receive, NEW change,
           Going([at |-> at, receive |-> receive, change |-> change]),
           Goto(t, at, receive, change),
           UNCHANGED <<index, lookup, given>>
    PROVE  IInv'
<1>1. /\ thread' \in [Thread -> ThreadState]
      /\ \A u \in Thread : Going(thread'[u])
    BY ThreadGoes DEF IInv, Goto
<1>2. IndexTypeOK'
    BY <1>1 DEF IInv, IndexTypeOK, ThreadState
<1>3. Coverage'
    BY DEF IInv, Coverage, Highest
<1>4. QED BY <1>1, <1>2, <1>3 DEF IInv

\* What is below an index stays below it when the index grows.
LEMMA StaysBelow ==
    ASSUME NEW f \in [Kind -> Index], NEW g \in [Kind -> Index],
           \A k \in Kind : f[k] <= g[k],
           NEW S \in SUBSET Index, \A i \in S : i <= f["receive"]
    PROVE  \A i \in S : i <= g["receive"]
<1>1. "receive" \in Kind
    BY DEF Kind
<1>2. f["receive"] \in Int /\ g["receive"] \in Int /\ f["receive"] <= g["receive"]
    BY <1>1 DEF Index
<1>3. QED BY <1>2 DEF Index

\* A step of thread t that calls set_derivation_index() and goes on; `given` may get
\* the index that was set.
LEMMA SetStep ==
    ASSUME IInv, NEW t \in Thread, NEW kind \in Kind,
           NEW n \in Index \cup {NoIndex, BadIndex},
           NEW next \in {"idle", "set change"},
           NEW change \in Index \cup {NoIndex, BadIndex},
           SetIndex(t, kind, n, next, change),
           \/ given' = given
           \/ kind = "receive" /\ n \in Index /\ given' = given \cup {n}
    PROVE  IInv' /\ \A k \in Kind : index[k] <= index'[k]
<1>1. Raised(kind, n) /\ Goto(t, next, NoIndex, change)
    BY SetIndexKeeps DEF IInv
<1>2. Going([at |-> next, receive |-> NoIndex, change |-> change])
    BY DEF Going, ThreadState
<1>3. /\ thread' \in [Thread -> ThreadState]
      /\ \A u \in Thread : Going(thread'[u])
    BY <1>1, <1>2, ThreadGoes DEF IInv, Goto
<1>4. index \in [Kind -> Index] /\ given \subseteq Index
    BY DEF IInv, IndexTypeOK
<1>5. /\ index' \in [Kind -> Index]
      /\ lookup' \subseteq Nat
      /\ Coverage'
      /\ \A k \in Kind : index[k] <= index'[k]
      /\ n <= index'[kind]
    BY <1>1 DEF Raised
<1>6. \A i \in given : i <= index'["receive"]
    BY <1>4, <1>5, StaysBelow DEF IInv
<1>7. \A i \in given' : i <= index'["receive"]
    BY <1>5, <1>6
<1>8. IndexTypeOK'
    BY <1>3, <1>4, <1>5 DEF IndexTypeOK, ThreadState
<1>9. QED BY <1>3, <1>5, <1>7, <1>8 DEF IInv

\* What a step keeps: the invariant, and the order of the indexes.
Kept == IInv' /\ \A k \in Kind : index[k] <= index'[k]

\* A step that leaves the indexes alone lowers none.
LEMMA StillKept ==
    ASSUME IInv, IInv', UNCHANGED index
    PROVE  Kept
<1>1. index \in [Kind -> Index]
    BY DEF IInv, IndexTypeOK
<1>2. \A k \in Kind : index[k] \in Int
    BY <1>1 DEF Index
<1>3. QED BY <1>2 DEF Kept

\* A thread's step lowers no index.
LEMMA StepKeeps ==
    ASSUME IInv, NEW t \in Thread, Step(t)
    PROVE  Kept
<1>1. /\ Going(thread[t])
      /\ thread[t] \in ThreadState
      /\ index \in [Kind -> Index]
    BY DEF IInv, Going, IndexTypeOK
<1>2. CASE GetNewAddress(t)
    <2>1. index["receive"] + 1 \in Index
        <3>1. index["receive"] \in Index
            BY <1>1 DEF Kind
        <3>2. index["receive"] < MaxIndex
            BY <1>2 DEF GetNewAddress
        <3>3. QED BY <3>1, <3>2, DerivAssumption DEF Index
    <2>2. Going([at |-> "new address", receive |-> index["receive"] + 1,
                 change |-> NoIndex])
        BY <2>1 DEF Going, ThreadState
    <2>3. IInv'
        BY <1>2, <2>2, ThreadStep DEF GetNewAddress
    <2>4. QED BY <1>2, <2>3, StillKept DEF GetNewAddress
<1>3. CASE ReturnAddress(t)
    <2>1. thread[t].receive \in Index
        BY <1>1, <1>3 DEF ReturnAddress, Going
    <2>2. Goto(t, "idle", NoIndex, NoIndex)
        BY <1>3, <2>1, SetIndexKeeps DEF ReturnAddress, IInv, Kind
    <2>3. given' = given \cup {thread[t].receive}
        <3>1. thread'[t].at = "idle"
            BY <2>2 DEF Goto, IInv, IndexTypeOK
        <3>2. QED BY <1>3, <3>1 DEF ReturnAddress
    <2>4. QED BY <1>3, <2>1, <2>3, SetStep DEF ReturnAddress, Kept, Kind
<1>4. CASE UpdateIndexes(t)
    <2>1. PICK receive \in Index \cup {NoIndex},
               change \in Index \cup {NoIndex, BadIndex} :
                  Goto(t, "change index", Target(receive, index["receive"]), change)
        BY <1>4 DEF UpdateIndexes
    <2>2. Target(receive, index["receive"]) \in Index \cup {NoIndex}
        BY <1>1, TargetType DEF Kind
    <2>3. Going([at |-> "change index",
                 receive |-> Target(receive, index["receive"]), change |-> change])
        BY <2>2 DEF Going, ThreadState
    <2>4. IInv'
        BY <1>4, <2>1, <2>3, ThreadStep DEF UpdateIndexes
    <2>5. QED BY <1>4, <2>4, StillKept DEF UpdateIndexes
<1>5. CASE ReadChangeIndex(t)
    <2> DEFINE change == IF thread[t].change = BadIndex THEN BadIndex
                         ELSE Target(thread[t].change, index["change"])
    <2>1. change \in Index \cup {NoIndex, BadIndex}
        <3>1. CASE thread[t].change = BadIndex
            BY <3>1
        <3>2. CASE thread[t].change # BadIndex
            <4>1. thread[t].change \in Index \cup {NoIndex}
                BY <1>1, <3>2 DEF ThreadState
            <4>2. index["change"] \in Index
                BY <1>1 DEF Kind
            <4>3. QED BY <3>2, <4>1, <4>2, TargetType
        <3>3. QED BY <3>1, <3>2
    <2>2. Going([at |-> "set receive", receive |-> thread[t].receive,
                 change |-> change])
        BY <1>1, <2>1 DEF Going, ThreadState
    <2>3. Goto(t, "set receive", thread[t].receive, change)
        BY <1>5 DEF ReadChangeIndex
    <2>4. IInv'
        BY <1>5, <2>2, <2>3, ThreadStep DEF ReadChangeIndex
    <2>5. QED BY <1>5, <2>4, StillKept DEF ReadChangeIndex
<1>6. CASE SetReceive(t)
    <2>1. thread[t].receive \in Index \cup {NoIndex, BadIndex}
        BY <1>1 DEF ThreadState
    <2>2. thread[t].change \in Index \cup {NoIndex, BadIndex}
        BY <1>1 DEF ThreadState
    <2>3. CASE thread[t].change = BadIndex
        <3>1. SetIndex(t, "receive", thread[t].receive, "idle", NoIndex)
            BY <1>6, <2>3 DEF SetReceive
        <3>2. QED BY <1>6, <2>1, <3>1, SetStep DEF SetReceive, Kept, Kind
    <2>4. CASE thread[t].change # BadIndex
        <3>1. SetIndex(t, "receive", thread[t].receive, "set change",
                       thread[t].change)
            BY <1>6, <2>4 DEF SetReceive
        <3>2. QED BY <1>6, <2>1, <2>2, <3>1, SetStep DEF SetReceive, Kept, Kind
    <2>5. QED BY <2>3, <2>4
<1>7. CASE SetChange(t)
    <2>1. thread[t].change \in Index \cup {NoIndex, BadIndex}
        BY <1>1 DEF ThreadState
    <2>2. QED BY <1>7, <2>1, SetStep DEF SetChange, Kept, Kind
<1>8. CASE \E kind \in Kind, n \in Index : SeeAddress(t, kind, n)
    <2>1. PICK kind \in Kind, n \in Index : SeeAddress(t, kind, n)
        BY <1>8
    <2> DEFINE receive == IF kind = "receive" THEN n ELSE NoIndex
               change == IF kind = "change" THEN n ELSE NoIndex
    <2>2. Going([at |-> "raise", receive |-> receive, change |-> change])
        BY DEF Going, ThreadState
    <2>3. Goto(t, "raise", receive, change)
        BY <2>1 DEF SeeAddress
    <2>4. IInv'
        BY <2>1, <2>2, <2>3, ThreadStep DEF SeeAddress
    <2>5. QED BY <2>1, <2>4, StillKept DEF SeeAddress
<1>9. CASE Raise(t)
    <2>1. /\ thread[t].receive \in Index \cup {NoIndex, BadIndex}
          /\ thread[t].change \in Index \cup {NoIndex, BadIndex}
        BY <1>1 DEF ThreadState
    <2>2. CASE thread[t].receive # NoIndex
        <3>1. SetIndex(t, "receive", thread[t].receive, "idle", NoIndex)
            BY <1>9, <2>2 DEF Raise
        <3>2. QED BY <1>9, <2>1, <3>1, SetStep DEF Raise, Kept, Kind
    <2>3. CASE thread[t].receive = NoIndex
        <3>1. SetIndex(t, "change", thread[t].change, "idle", NoIndex)
            BY <1>9, <2>3 DEF Raise
        <3>2. QED BY <1>9, <2>1, <3>1, SetStep DEF Raise, Kept, Kind
    <2>4. QED BY <2>2, <2>3
<1>10. QED
    BY <1>2, <1>3, <1>4, <1>5, <1>6, <1>7, <1>8, <1>9 DEF Step

\* No step lowers an index.
LEMMA NextKeeps == IInv /\ [IndexNext]_indexVars => Kept
<1> SUFFICES ASSUME IInv, [IndexNext]_indexVars PROVE Kept
    OBVIOUS
<1>1. CASE \E t \in Thread : Step(t)
    BY <1>1, StepKeeps
<1>2. CASE Restart
    <2>1. \A t \in Thread : Going(thread'[t])
        BY <1>2 DEF Restart, Idle, Going, ThreadState
    <2>2. IndexTypeOK'
        BY <1>2 DEF IInv, Restart, IndexTypeOK, Idle
    <2>3. Coverage'
        BY <1>2 DEF IInv, Restart, Coverage, Highest
    <2>4. IInv'
        BY <1>2, <2>1, <2>2, <2>3 DEF IInv, Restart
    <2>5. QED BY <1>2, <2>4, StillKept DEF Restart
<1>3. CASE UNCHANGED indexVars
    <2>1. IInv'
        BY <1>3 DEF indexVars, IInv, IndexTypeOK, Coverage, Highest, Going
    <2>2. QED BY <1>3, <2>1, StillKept DEF indexVars
<1>4. QED BY <1>1, <1>2, <1>3 DEF IndexNext

\* The invariant holds in every reachable state.
LEMMA Invariant == IndexSpec => []IInv
<1>1. IInv /\ [IndexNext]_indexVars => IInv'
    BY NextKeeps DEF Kept
<1>2. QED BY InitIInv, <1>1, PTL DEF IndexSpec

-----------------------------------------------------------------------------
\* The indexes, the table, the addresses handed out and the threads keep their types:
\* no thread ever holds an index beyond the last one (get_new_address,
\* update_deriv_indexes).
THEOREM Typed == IndexSpec => []IndexTypeOK
<1>1. IInv => IndexTypeOK
    BY DEF IInv
<1>2. QED BY Invariant, <1>1, PTL

\* The lookup table has no hole and its look-ahead is exact, however the threads
\* interleave the reads and the writes of an index (set_derivation_index).
THEOREM Covered == IndexSpec => []Coverage
<1>1. IInv => Coverage
    BY DEF IInv
<1>2. QED BY Invariant, <1>1, PTL

\* No INSERT of an address breaks the UNIQUE constraint of the table, so that no thread
\* panics in db_exec (set_derivation_index).
THEOREM NoPanic == IndexSpec => []NoIndexPanic
<1>1. IInv => NoIndexPanic
    BY DEF IInv, Going, NoIndexPanic
<1>2. QED BY Invariant, <1>1, PTL

\* A deposit to any address that getnewaddress returned, or a change output at the
\* next index, is found in the table (update_coins).
THEOREM Watched == IndexSpec => []GivenAreWatched
<1>1. ASSUME IInv PROVE GivenAreWatched
    <2>1. /\ index \in [Kind -> Index]
          /\ lookup = 0 .. Highest(index) + LookAheadLimit - 1
          /\ given \subseteq Index
          /\ \A i \in given : i <= index["receive"]
        BY <1>1 DEF IInv, IndexTypeOK, Coverage
    <2>2. /\ Highest(index) \in Nat
          /\ index["receive"] \in Nat /\ index["receive"] <= Highest(index)
          /\ index["change"] \in Nat /\ index["change"] <= Highest(index)
        BY <2>1, HighestType DEF Kind, Index
    <2>3. given \subseteq lookup
        BY <2>1, <2>2, DerivAssumption DEF Index
    <2>4. index["change"] + 1 \in lookup
        BY <2>1, <2>2, DerivAssumption
    <2>5. QED BY <2>1, <2>3, <2>4 DEF GivenAreWatched
<1>2. QED BY Invariant, <1>1, PTL

\* An index never goes back, although the threads set values they computed from an
\* older one (set_derivation_index ignores a lower index).
THEOREM Grow == IndexSpec => IndexesGrow
<1>1. IInv /\ [IndexNext]_indexVars => [\A k \in Kind : index[k] <= index'[k]]_indexVars
    BY NextKeeps DEF Kept
<1>2. QED BY Invariant, <1>1, PTL DEF IndexSpec, IndexesGrow
=============================================================================
