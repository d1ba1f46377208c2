---------------------------- MODULE BlockBeforeProofs ----------------------------
(***************************************************************************)
(* Proofs about BlockBefore, for any median window, block times and number of *)
(* reorganisations.                                                          *)
(*                                                                         *)
(* The times are not ordered, so that nothing is known of the blocks the       *)
(* bisection did not look at.  The invariant says what it knows of the two     *)
(* ends: the block at startHeight is before the date, and either the one after *)
(* endHeight is not, or endHeight is the tip it began with, which is later.    *)
(*                                                                         *)
(* That few blocks are skipped wrongly follows from the rule of the medians,   *)
(* which every chain keeps.                                                    *)
(***************************************************************************)
EXTENDS BlockBefore, TLAPS, FiniteSetTheorems, WellFoundedInduction

Below(h) == h = 0 \/ TimeAt(h) < target

\* What is known while the search runs on a chain that lost no block.
EndsKnown ==
    searchPc = "searching" /\ ~moved =>
        /\ TimeAt(0) <= target
        /\ Below(startHeight)
        /\ \/ TimeAt(endHeight) > target
           \/ endHeight < TipHeight /\ TimeAt(endHeight + 1) >= target

SearchInv == SearchTypeOK /\ SearchInRange /\ EndsKnown /\ FoundLast

-----------------------------------------------------------------------------
\* A longer chain keeps its blocks.
LEMMA LongerChain ==
    ASSUME NEW ts \in Seq(Time), NEW us \in Longer(ts)
    PROVE  /\ us \in Seq(Time) /\ us # <<>>
           /\ Len(us) = Len(ts) + 1
           /\ \A i \in 1 .. Len(ts) : us[i] = ts[i]
  <1>1. PICK t \in Time : us = Append(ts, t)
    BY DEF Longer
  <1> QED
    BY <1>1

\* The tip has a height, the genesis a time.
LEMMA Tip == ASSUME SearchTypeOK PROVE TipHeight \in Nat /\ TimeAt(0) \in Nat
  <1>1. Len(times) \in Nat /\ Len(times) # 0
    BY DEF SearchTypeOK
  <1>2. times[1] \in Time
    BY <1>1 DEF SearchTypeOK
  <1> QED
    BY <1>1, <1>2, BlockBeforeAssumption DEF TipHeight, TimeAt, Time

\* Every block of the chain has a time.
LEMMA BlockTime ==
    ASSUME SearchTypeOK, NEW h \in 0 .. TipHeight PROVE TimeAt(h) \in Nat
  <1>1. h + 1 \in 1 .. Len(times)
    BY DEF SearchTypeOK, TipHeight
  <1> QED
    BY <1>1, BlockBeforeAssumption DEF SearchTypeOK, TimeAt, Time

\* The height it looks at next is above the start and not above the end.
LEMMA NextIsBetween ==
    ASSUME startHeight \in Nat, endHeight \in Nat, startHeight < endHeight
    PROVE  NextHeight \in startHeight + 1 .. endHeight
  <1>1. (endHeight - startHeight) \div 2 \in 0 .. endHeight - startHeight - 1
    OBVIOUS
  <1> QED
    BY <1>1 DEF NextHeight

\* The initial states satisfy the invariant.
LEMMA InitInv == SearchInit => SearchInv
  <1> SUFFICES ASSUME SearchInit PROVE SearchInv
    OBVIOUS
  <1>1. 0 \in Time
    BY BlockBeforeAssumption DEF Time
  <1>2. <<0>> \in Seq(Time) /\ <<0>> # <<>>
    BY <1>1
  <1>3. SearchTypeOK
    BY <1>1, <1>2 DEF SearchInit, SearchTypeOK
  <1> QED
    BY <1>3 DEF SearchInit, SearchInv, SearchInRange, EndsKnown, FoundLast

-----------------------------------------------------------------------------
(* Every step. *)

\* A new block keeps the invariant.
LEMMA ExtendInv == ASSUME SearchInv, Extend PROVE SearchInv'
  <1>1. /\ times' \in Seq(Time) /\ times' # <<>>
        /\ Len(times') = Len(times) + 1
        /\ \A i \in 1 .. Len(times) : times'[i] = times[i]
    BY LongerChain DEF SearchInv, SearchTypeOK, Extend
  <1>2. UNCHANGED <<losses, searchPc, target, startHeight, endHeight, moved>>
    BY DEF Extend, search
  <1>3. SearchTypeOK'
    BY <1>1, <1>2 DEF SearchInv, SearchTypeOK
  <1>4. TipHeight' = TipHeight + 1 /\ TipHeight \in Nat
    BY <1>1, Tip DEF SearchInv, SearchTypeOK, TipHeight
  <1>5. \A h \in 0 .. TipHeight : TimeAt(h)' = TimeAt(h)
    BY <1>1 DEF SearchInv, SearchTypeOK, TipHeight, TimeAt
  <1>6. SearchInRange'
    BY <1>2, <1>4 DEF SearchInv, SearchTypeOK, SearchInRange
  <1>7. EndsKnown'
    <2> SUFFICES ASSUME searchPc = "searching", ~moved PROVE EndsKnown'
      BY <1>2 DEF EndsKnown
    <2>1. /\ startHeight \in 0 .. TipHeight /\ endHeight \in 0 .. TipHeight
          /\ 0 \in 0 .. TipHeight
      BY <1>4 DEF SearchInv, SearchTypeOK, SearchInRange
    <2>2. endHeight < TipHeight => endHeight + 1 \in 0 .. TipHeight
      BY <1>4, <2>1
    <2>3. /\ TimeAt(0)' = TimeAt(0) /\ TimeAt(startHeight)' = TimeAt(startHeight)
          /\ TimeAt(endHeight)' = TimeAt(endHeight)
          /\ endHeight < TipHeight => TimeAt(endHeight + 1)' = TimeAt(endHeight + 1)
      BY <1>2, <1>5, <2>1, <2>2 DEF TimeAt
    <2>4. endHeight < TipHeight => endHeight' < TipHeight'
      BY <1>2, <1>4, <2>1
    <2> QED
      BY <1>2, <2>3, <2>4 DEF SearchInv, EndsKnown, Below, TimeAt
  <1>8. FoundLast'
    <2> SUFFICES ASSUME searchPc = "found", ~moved PROVE FoundLast'
      BY <1>2 DEF FoundLast
    <2>1. /\ startHeight < TipHeight
          /\ startHeight \in 0 .. TipHeight /\ startHeight + 1 \in 0 .. TipHeight
      BY <1>4 DEF SearchInv, SearchTypeOK, FoundLast
    <2>2. /\ TimeAt(startHeight)' = TimeAt(startHeight)
          /\ TimeAt(startHeight + 1)' = TimeAt(startHeight + 1)
          /\ startHeight' < TipHeight'
      BY <1>2, <1>4, <1>5, <2>1 DEF TimeAt
    <2> QED
      BY <1>2, <2>2 DEF SearchInv, FoundLast, TimeAt
  <1> QED
    BY <1>3, <1>6, <1>7, <1>8 DEF SearchInv

\* A reorganisation keeps the invariant.
LEMMA ReorganiseInv == ASSUME SearchInv, Reorganise PROVE SearchInv'
  <1> DEFINE kept == SubSeq(times, 1, TipHeight)
  <1>1. PICK ts \in Longer(kept) : times' \in Longer(ts)
    BY DEF Reorganise
  <1>2. kept \in Seq(Time) /\ Len(kept) = TipHeight
    BY DEF SearchInv, SearchTypeOK, TipHeight, Reorganise
  <1>3. ts \in Seq(Time) /\ Len(ts) = TipHeight + 1
    BY <1>2, LongerChain
  <1>4. times' \in Seq(Time) /\ times' # <<>> /\ Len(times') = TipHeight + 2
    BY <1>1, <1>3, LongerChain, Tip DEF SearchInv
  <1>5. /\ UNCHANGED <<searchPc, target, startHeight, endHeight>>
        /\ losses' = losses + 1 /\ moved' = TRUE
    BY DEF Reorganise, search
  <1>6. SearchTypeOK'
    BY <1>4, <1>5 DEF SearchInv, SearchTypeOK
  <1>7. TipHeight' = TipHeight + 1 /\ TipHeight \in Nat
    BY <1>4, Tip DEF SearchInv, TipHeight
  <1>8. SearchInRange'
    BY <1>5, <1>7 DEF SearchInv, SearchTypeOK, SearchInRange
  <1> QED
    BY <1>5, <1>6, <1>8 DEF SearchInv, EndsKnown, FoundLast

\* The start of a search keeps the invariant.
LEMMA BeginInv == ASSUME SearchInv, Begin PROVE SearchInv'
  <1>1. PICK t \in Time :
           /\ target' = t
           /\ searchPc' = IF TimeAt(0) <= t /\ t < TimeAt(TipHeight) THEN "searching"
                                                                     ELSE "none"
    BY DEF Begin
  <1>2. /\ startHeight' = 0 /\ endHeight' = TipHeight /\ moved' = FALSE
        /\ times' = times /\ losses' = losses
    BY DEF Begin, chainOfTimes
  <1>3. TipHeight' = TipHeight /\ TipHeight \in Nat
    BY <1>2, Tip DEF SearchInv, TipHeight
  <1>4. SearchTypeOK'
    BY <1>1, <1>2, <1>3 DEF SearchInv, SearchTypeOK
  <1>5. SearchInRange'
    BY <1>2, <1>3 DEF SearchInRange
  <1>6. EndsKnown'
    <2> SUFFICES ASSUME searchPc' = "searching" PROVE EndsKnown'
      BY DEF EndsKnown
    <2>1. TimeAt(0) <= t /\ t < TimeAt(TipHeight)
      BY <1>1
    <2>2. TimeAt(0)' = TimeAt(0) /\ TimeAt(TipHeight)' = TimeAt(TipHeight)
      BY <1>2, <1>3 DEF TimeAt
    <2>3. TimeAt(TipHeight) \in Nat /\ t \in Nat
      BY <1>3, BlockTime, BlockBeforeAssumption DEF SearchInv, Time
    <2>4. TimeAt(endHeight)' > target' /\ TimeAt(0)' <= target'
      BY <1>1, <1>2, <1>3, <2>1, <2>2, <2>3 DEF TimeAt
    <2> QED
      BY <1>2, <2>4 DEF EndsKnown, Below
  <1>7. FoundLast'
    BY <1>1 DEF FoundLast
  <1> QED
    BY <1>4, <1>5, <1>6, <1>7 DEF SearchInv

\* A step of the bisection keeps the invariant.
LEMMA BisectInv == ASSUME SearchInv, Bisect PROVE SearchInv'
  <1>1. /\ searchPc = "searching" /\ startHeight < endHeight
        /\ UNCHANGED <<times, losses, searchPc, target, moved>>
        /\ startHeight \in Nat /\ endHeight \in Nat /\ target \in Nat
    BY BlockBeforeAssumption DEF Bisect, chainOfTimes, SearchInv, SearchTypeOK, Time
  <1>2. endHeight <= TipHeight /\ TipHeight \in Nat /\ TipHeight' = TipHeight
    BY <1>1, Tip DEF SearchInv, SearchInRange, TipHeight
  <1>3. NextHeight \in startHeight + 1 .. endHeight
    BY <1>1, NextIsBetween
  <1>4. NextHeight \in 1 .. TipHeight /\ TimeAt(NextHeight) \in Nat
    <2>1. NextHeight \in 1 .. TipHeight
      BY <1>1, <1>2, <1>3
    <2> QED
      BY <1>2, <2>1, BlockTime DEF SearchInv
  <1>5. FoundLast'
    BY <1>1 DEF FoundLast
  <1>6. CASE /\ target > TimeAt(NextHeight)
             /\ startHeight' = NextHeight /\ endHeight' = endHeight
    <2>1. SearchTypeOK' /\ SearchInRange'
      BY <1>1, <1>2, <1>3, <1>4, <1>6 DEF SearchInv, SearchTypeOK, SearchInRange
    <2>2. TimeAt(startHeight)' < target'
      BY <1>1, <1>4, <1>6 DEF TimeAt
    <2>3. EndsKnown'
      BY <1>1, <1>2, <1>6, <2>2 DEF SearchInv, EndsKnown, Below, TimeAt
    <2> QED
      BY <1>5, <2>1, <2>3 DEF SearchInv
  <1>7. CASE /\ ~(target > TimeAt(NextHeight))
             /\ endHeight' = NextHeight - 1 /\ startHeight' = startHeight
    <2>1. SearchTypeOK' /\ SearchInRange'
      BY <1>1, <1>2, <1>3, <1>4, <1>7 DEF SearchInv, SearchTypeOK, SearchInRange
    <2>2. endHeight' + 1 = NextHeight
      BY <1>4, <1>7
    <2>3. endHeight' < TipHeight' /\ TimeAt(endHeight + 1)' >= target'
      BY <1>1, <1>2, <1>4, <1>7, <2>2 DEF TimeAt
    <2>4. EndsKnown'
      BY <1>1, <1>7, <2>3 DEF SearchInv, EndsKnown, Below, TimeAt
    <2> QED
      BY <1>5, <2>1, <2>4 DEF SearchInv
  <1> QED
    BY <1>6, <1>7 DEF Bisect

\* The end of a search keeps the invariant.
LEMMA FoundInv == ASSUME SearchInv, Found PROVE SearchInv'
  <1>1. /\ searchPc = "searching" /\ searchPc' = "found" /\ startHeight >= endHeight
        /\ UNCHANGED <<times, losses, target, startHeight, endHeight, moved>>
    BY DEF Found, chainOfTimes
  <1>2. /\ startHeight \in Nat /\ startHeight = endHeight /\ endHeight <= TipHeight
        /\ target \in Nat /\ TipHeight \in Nat /\ TimeAt(0) \in Nat
    BY <1>1, Tip, BlockBeforeAssumption DEF SearchInv, SearchTypeOK, SearchInRange, Time
  <1>3. SearchTypeOK'
    BY <1>1 DEF SearchInv, SearchTypeOK
  <1>4. SearchInRange' /\ EndsKnown'
    BY <1>1 DEF SearchInRange, EndsKnown
  <1>5. FoundLast'
    <2> SUFFICES ASSUME ~moved
                 PROVE  /\ startHeight < TipHeight
                        /\ startHeight = 0 \/ TimeAt(startHeight) < target
                        /\ TimeAt(startHeight + 1) >= target
      BY <1>1 DEF FoundLast, TipHeight, TimeAt
    <2>1. TimeAt(startHeight) \in Nat
      BY <1>2, BlockTime DEF SearchInv
    <2>2. TimeAt(0) <= target /\ (startHeight = 0 \/ TimeAt(startHeight) < target)
      BY <1>1 DEF SearchInv, EndsKnown, Below
    <2>3. ~(TimeAt(endHeight) > target)
      BY <1>2, <2>1, <2>2
    <2> QED
      BY <1>1, <1>2, <2>2, <2>3 DEF SearchInv, EndsKnown
  <1> QED
    BY <1>3, <1>4, <1>5 DEF SearchInv

\* Every step keeps the invariant.
LEMMA NextInv == SearchInv /\ [SearchNext]_searchVars => SearchInv'
  <1>1. ASSUME SearchInv, UNCHANGED searchVars PROVE SearchInv'
    BY <1>1 DEF searchVars, chainOfTimes, search, SearchInv, SearchTypeOK, SearchInRange,
                EndsKnown, FoundLast, Below, TipHeight, TimeAt
  <1> QED
    BY <1>1, ExtendInv, ReorganiseInv, BeginInv, BisectInv, FoundInv DEF SearchNext

-----------------------------------------------------------------------------
(* The theorems. *)

\* The invariant holds in every reachable state.
LEMMA Invariant == SearchSpec => []SearchInv
  BY InitInv, NextInv, PTL DEF SearchSpec

\* The heights and times keep their types: no height is ever negative.
THEOREM Typed == SearchSpec => []SearchTypeOK
  <1>1. SearchInv => SearchTypeOK
    BY DEF SearchInv
  <1> QED
    BY Invariant, <1>1, PTL

\* The search never asks for a block that is not there, and its interval never turns
\* over, even when the chain is reorganised under it (block_before_date()).
THEOREM InRange == SearchSpec => []SearchInRange
  <1>1. SearchInv => SearchInRange
    BY DEF SearchInv
  <1> QED
    BY Invariant, <1>1, PTL

\* What it finds is before the date and the block after it is not, in whatever order the
\* times of the blocks are, as long as the chain loses no block meanwhile.
THEOREM Last == SearchSpec => []FoundLast
  <1>1. SearchInv => FoundLast
    BY DEF SearchInv
  <1> QED
    BY Invariant, <1>1, PTL

-----------------------------------------------------------------------------
(* Medians. *)

\* The blocks of a window before a time, and those that are not.
Earlier(ts, n, t) == {i \in WindowAt(n) : ts[i] < t}
Late(ts, n, t) == {i \in WindowAt(n) : ts[i] >= t}

\* Most of the window before a block is earlier than the block.
EachPastMedian(ts) ==
    \A n \in 1 .. Len(ts) - 1 :
        2 * Cardinality(Earlier(ts, n, ts[n + 1])) > Cardinality(WindowAt(n))

\* Windows and their parts are finite.
LEMMA WindowFinite ==
    ASSUME NEW n \in Nat, NEW X \in SUBSET WindowAt(n)
    PROVE  IsFiniteSet(X) /\ Cardinality(X) \in Nat
  <1>1. IsFiniteSet(1 .. n)
    BY FS_Interval
  <1>2. X \subseteq 1 .. n
    BY DEF WindowAt
  <1> QED
    BY <1>1, <1>2, FS_Subset, FS_CardinalityType

\* A block that follows the rule keeps it for the chain.
LEMMA LongerPastMedian ==
    ASSUME NEW ts \in Seq(Time), EachPastMedian(ts), NEW us \in Longer(ts)
    PROVE  EachPastMedian(us)
  <1>1. PICK t \in Time : us = Append(ts, t) /\ PastMedian(t, ts)
    BY DEF Longer
  <1>2. /\ Len(us) = Len(ts) + 1 /\ Len(ts) \in Nat
        /\ us[Len(ts) + 1] = t /\ \A i \in 1 .. Len(ts) : us[i] = ts[i]
    BY <1>1
  <1> SUFFICES ASSUME NEW n \in 1 .. Len(us) - 1
               PROVE  2 * Cardinality(Earlier(us, n, us[n + 1])) > Cardinality(WindowAt(n))
    BY DEF EachPastMedian
  <1>3. \A i \in WindowAt(n) : us[i] = ts[i]
    BY <1>2 DEF WindowAt
  <1>4. Earlier(us, n, us[n + 1]) = Earlier(ts, n, us[n + 1])
    BY <1>3 DEF Earlier
  <1>5. CASE n = Len(ts)
    <2>1. us[n + 1] = t
      BY <1>2, <1>5
    <2>2. 2 * Cardinality(Earlier(ts, n, t)) > Cardinality(WindowAt(n))
      BY <1>1, <1>5 DEF PastMedian, Earlier
    <2> QED
      BY <1>4, <2>1, <2>2
  <1>6. CASE n # Len(ts)
    <2>1. n \in 1 .. Len(ts) - 1 /\ n + 1 \in 1 .. Len(ts)
      BY <1>2, <1>6
    <2>2. us[n + 1] = ts[n + 1]
      BY <1>2, <2>1
    <2> QED
      BY <1>4, <2>1, <2>2 DEF EachPastMedian
  <1> QED
    BY <1>5, <1>6

\* A chain that lost its last block still follows the rule.
LEMMA ShorterPastMedian ==
    ASSUME NEW ts \in Seq(Time), EachPastMedian(ts), NEW k \in 0 .. Len(ts)
    PROVE  EachPastMedian(SubSeq(ts, 1, k)) /\ SubSeq(ts, 1, k) \in Seq(Time)
  <1> DEFINE us == SubSeq(ts, 1, k)
  <1>1. /\ us \in Seq(Time) /\ Len(us) = k /\ \A i \in 1 .. k : us[i] = ts[i]
        /\ k \in Nat /\ Len(ts) \in Nat /\ k <= Len(ts)
    OBVIOUS
  <1> HIDE DEF us
  <1>2. ASSUME NEW n \in 1 .. Len(us) - 1
        PROVE  2 * Cardinality(Earlier(us, n, us[n + 1])) > Cardinality(WindowAt(n))
    <2>1. n \in 1 .. Len(ts) - 1 /\ n + 1 \in 1 .. k
      BY <1>1
    <2>2. us[n + 1] = ts[n + 1] /\ \A i \in WindowAt(n) : us[i] = ts[i]
      BY <1>1, <2>1 DEF WindowAt
    <2>3. Earlier(us, n, us[n + 1]) = Earlier(ts, n, ts[n + 1])
      BY <2>2 DEF Earlier
    <2> QED
      BY <2>1, <2>3 DEF EachPastMedian
  <1>3. EachPastMedian(us)
    BY <1>2 DEF EachPastMedian
  <1> QED
    BY <1>1, <1>3 DEF us

\* When most of a window is not before a date, neither is the next block, and most of the
\* next window is not before it either.
LEMMA LateStaysLate ==
    ASSUME NEW ts \in Seq(Time), NEW n \in 1 .. Len(ts) - 1, NEW t \in Nat,
           EachPastMedian(ts),
           2 * Cardinality(Late(ts, n, t)) > Cardinality(WindowAt(n))
    PROVE  /\ ts[n + 1] >= t
           /\ 2 * Cardinality(Late(ts, n + 1, t)) > Cardinality(WindowAt(n + 1))
  <1> DEFINE W == WindowAt(n)
             V == WindowAt(n + 1)
             A == Late(ts, n, t)
             B == Late(ts, n + 1, t)
             E == Earlier(ts, n, ts[n + 1])
  <1>1. \A i \in 1 .. Len(ts) : ts[i] \in Nat
    BY BlockBeforeAssumption DEF Time
  <1>2. n \in Nat /\ n + 1 \in 1 .. Len(ts) /\ \A i \in W : i \in 1 .. Len(ts)
    BY DEF WindowAt
  <1>3. A \in SUBSET W /\ E \in SUBSET W /\ B \in SUBSET V
    BY DEF Late, Earlier
  <1>4. /\ IsFiniteSet(W) /\ IsFiniteSet(A) /\ IsFiniteSet(E)
        /\ IsFiniteSet(V) /\ IsFiniteSet(B)
    <2> HIDE DEF W, V, A, B, E
    <2>1. W \in SUBSET WindowAt(n) /\ V \in SUBSET WindowAt(n + 1)
      BY DEF W, V
    <2> QED
      BY <1>2, <1>3, <2>1, WindowFinite DEF W, V
  <1>5. 2 * Cardinality(E) > Cardinality(W) /\ 2 * Cardinality(A) > Cardinality(W)
    BY DEF EachPastMedian
  <1>6. /\ Cardinality(W) \in Nat /\ Cardinality(A) \in Nat /\ Cardinality(E) \in Nat
        /\ Cardinality(V) \in Nat /\ Cardinality(B) \in Nat
    <2> HIDE DEF W, V, A, B, E
    <2> QED
      BY <1>4, FS_CardinalityType
  <1>7. ts[n + 1] >= t
    <2>1. A \cap E # {}
      <3> HIDE DEF W, A, E
      <3> QED
        BY <1>3, <1>4, <1>5, <1>6, FS_MajoritiesIntersect
    <2>2. PICK i \in W : ts[i] >= t /\ ts[i] < ts[n + 1]
      BY <2>1 DEF Late, Earlier
    <2> QED
      BY <1>1, <1>2, <2>2
  <1>8. n + 1 \in V /\ n + 1 \in B /\ n + 1 \notin W /\ n + 1 \notin A
    BY <1>2, <1>7, BlockBeforeAssumption DEF WindowAt, Late
  <1>9. CASE n < Window
    <2>1. V = W \cup {n + 1} /\ B = A \cup {n + 1}
      BY <1>2, <1>7, <1>9, BlockBeforeAssumption DEF WindowAt, Late
    <2>2. Cardinality(V) = Cardinality(W) + 1 /\ Cardinality(B) = Cardinality(A) + 1
      <3> HIDE DEF W, V, A, B
      <3> QED
        BY <1>4, <1>8, <2>1, FS_AddElement
    <2> HIDE DEF W, V, A, B
    <2>3. 2 * Cardinality(B) > Cardinality(V)
      BY <1>5, <1>6, <2>2
    <2> QED
      BY <1>7, <2>3 DEF B, V
  <1>10. CASE n >= Window
    <2> DEFINE x == n + 1 - Window
    <2>1. V = (W \ {x}) \cup {n + 1} /\ x \in W /\ B = (A \ {x}) \cup {n + 1}
      BY <1>2, <1>7, <1>10, BlockBeforeAssumption DEF WindowAt, Late
    <2>2. n + 1 \notin W \ {x} /\ n + 1 \notin A \ {x}
      BY <1>8
    <2> HIDE DEF W, V, A, B, x
    <2>3. /\ IsFiniteSet(W \ {x}) /\ Cardinality(W \ {x}) = Cardinality(W) - 1
          /\ IsFiniteSet(A \ {x}) /\ Cardinality(A \ {x}) >= Cardinality(A) - 1
          /\ Cardinality(A \ {x}) \in Nat
      <3>1. IsFiniteSet(W \ {x}) /\ Cardinality(W \ {x}) = Cardinality(W) - 1
        BY <1>4, <2>1, FS_RemoveElement
      <3>2. /\ IsFiniteSet(A \ {x})
            /\ Cardinality(A \ {x}) = IF x \in A THEN Cardinality(A) - 1 ELSE Cardinality(A)
        BY <1>4, FS_RemoveElement
      <3>3. Cardinality(A \ {x}) \in Nat
        BY <3>2, FS_CardinalityType
      <3>4. Cardinality(A \ {x}) >= Cardinality(A) - 1
        BY <1>6, <3>2
      <3> QED
        BY <3>1, <3>2, <3>3, <3>4
    <2>4. /\ Cardinality(V) = Cardinality(W \ {x}) + 1
          /\ Cardinality(B) = Cardinality(A \ {x}) + 1
      BY <2>1, <2>2, <2>3, FS_AddElement
    <2>5. 2 * Cardinality(B) > Cardinality(V)
      <3>1. Cardinality(V) = Cardinality(W)
        BY <1>6, <2>3, <2>4
      <3>2. Cardinality(B) >= Cardinality(A)
        BY <1>6, <2>3, <2>4
      <3> QED
        BY <1>5, <1>6, <3>1, <3>2
    <2> QED
      BY <1>7, <2>5 DEF B, V
  <1> QED
    BY <1>2, <1>9, <1>10, BlockBeforeAssumption

\* A set of numbers up to m that is not empty has a last one.
LEMMA LastOf ==
    ASSUME NEW m \in Nat, NEW X \in SUBSET (1 .. m), X # {}
    PROVE  \E n \in X : \A k \in X : k <= n
  <1> DEFINE Y == {m - k : k \in X}
  <1>1. Y \in SUBSET Nat /\ Y # {}
    <2>1. \A k \in X : m - k \in Nat
      OBVIOUS
    <2> QED
      BY <2>1
  <1>2. PICK y \in Y : \A z \in Y : ~(<<z, y>> \in OpToRel(<, Nat))
    <2> HIDE DEF Y
    <2> QED
      BY <1>1, NatLessThanWellFounded, WFMin
  <1>3. \A z \in Y : ~(z < y)
    <2> HIDE DEF Y
    <2> QED
      BY <1>1, <1>2 DEF OpToRel
  <1>4. PICK n \in X : y = m - n
    OBVIOUS
  <1>5. ASSUME NEW k \in X PROVE k <= n
    <2>1. m - k \in Y /\ n \in 1 .. m /\ k \in 1 .. m
      OBVIOUS
    <2> HIDE DEF Y
    <2>2. ~(m - k < m - n)
      BY <1>3, <1>4, <2>1
    <2> QED
      BY <2>1, <2>2
  <1> QED
    BY <1>5

\* So no window below a block that is before the date is mostly late.
LEMMA NoLateWindow ==
    ASSUME NEW ts \in Seq(Time), EachPastMedian(ts), NEW t \in Nat,
           NEW m \in 1 .. Len(ts) - 1, ts[m + 1] < t
    PROVE  \A n \in 1 .. m : 2 * Cardinality(Late(ts, n, t)) <= Cardinality(WindowAt(n))
  <1> DEFINE Mostly(n) == 2 * Cardinality(Late(ts, n, t)) > Cardinality(WindowAt(n))
             Q == {n \in 1 .. m : Mostly(n)}
  <1>1. Q = {}
    <2> SUFFICES ASSUME Q # {} PROVE FALSE
      OBVIOUS
    <2>1. PICK n \in Q : \A k \in Q : k <= n
      <3> HIDE DEF Q
      <3>1. Q \in SUBSET (1 .. m) /\ m \in Nat
        BY DEF Q
      <3> QED
        BY <3>1, LastOf
    <2>2. n \in 1 .. Len(ts) - 1 /\ Mostly(n)
      BY <2>1
    <2>3. ts[n + 1] >= t /\ Mostly(n + 1)
      <3>1. n \in 1 .. Len(ts) - 1
        BY <2>2
      <3>2. 2 * Cardinality(Late(ts, n, t)) > Cardinality(WindowAt(n))
        BY <2>2
      <3>3. ts[n + 1] >= t
        BY <3>1, <3>2, LateStaysLate
      <3>4. 2 * Cardinality(Late(ts, n + 1, t)) > Cardinality(WindowAt(n + 1))
        BY <3>1, <3>2, LateStaysLate
      <3> QED
        BY <3>3, <3>4
    <2>4. CASE n = m
      <3> HIDE DEF Q, Mostly
      <3>1. Len(ts) \in Nat /\ m + 1 \in 1 .. Len(ts)
        OBVIOUS
      <3>2. ts[m + 1] \in Time
        BY <3>1
      <3>3. ts[m + 1] \in Nat
        BY <3>2, BlockBeforeAssumption DEF Time
      <3> QED
        BY <2>3, <2>4, <3>3
    <2>5. CASE n # m
      <3>1. n + 1 \in 1 .. m
        BY <2>1, <2>5
      <3> HIDE DEF Mostly
      <3> QED
        BY <2>1, <2>3, <3>1
    <2> QED
      BY <2>4, <2>5
  <1>2. ASSUME NEW n \in 1 .. m
        PROVE  2 * Cardinality(Late(ts, n, t)) <= Cardinality(WindowAt(n))
    <2>1. ~Mostly(n)
      BY <1>1
    <2>2. /\ Late(ts, n, t) \in SUBSET WindowAt(n) /\ WindowAt(n) \in SUBSET WindowAt(n)
          /\ n \in Nat
      BY DEF Late
    <2>3. Cardinality(Late(ts, n, t)) \in Nat /\ Cardinality(WindowAt(n)) \in Nat
      BY <2>2, WindowFinite
    <2> QED
      BY <2>1, <2>3
  <1> QED
    BY <1>2

\* The chain follows the rule in every reachable state.
LEMMA ChainInvariant == SearchSpec => []EachPastMedian(times)
  <1>1. SearchInit => EachPastMedian(times)
    BY DEF SearchInit, EachPastMedian
  <1>2. ASSUME SearchInv, EachPastMedian(times), [SearchNext]_searchVars
        PROVE  EachPastMedian(times)'
    <2>1. times \in Seq(Time) /\ Len(times) \in Nat
      BY <1>2 DEF SearchInv, SearchTypeOK
    <2>2. CASE Extend
      BY <1>2, <2>1, <2>2, LongerPastMedian DEF Extend
    <2>3. CASE Reorganise
      <3> DEFINE kept == SubSeq(times, 1, TipHeight)
      <3>1. PICK ts \in Longer(kept) : times' \in Longer(ts)
        BY <2>3 DEF Reorganise
      <3>2. TipHeight \in 0 .. Len(times)
        BY <1>2, <2>1, Tip DEF SearchInv, TipHeight
      <3>3. EachPastMedian(kept) /\ kept \in Seq(Time)
        BY <1>2, <2>1, <3>2, ShorterPastMedian
      <3> HIDE DEF kept
      <3>4. EachPastMedian(ts) /\ ts \in Seq(Time)
        BY <3>1, <3>3, LongerPastMedian, LongerChain
      <3> QED
        BY <3>1, <3>4, LongerPastMedian
    <2>4. CASE UNCHANGED times
      BY <1>2, <2>4
    <2> QED
      BY <1>2, <2>2, <2>3, <2>4
      DEF SearchNext, Begin, Bisect, Found, chainOfTimes, searchVars
  <1> QED
    BY <1>1, <1>2, Invariant, PTL DEF SearchSpec

\* What the rescan skips are outliers: below the block that is found, no window of the
\* median is mostly later than the date, for a window of any length.
THEOREM Few == SearchSpec => []SkippedAreFew
  <1>1. ASSUME SearchInv, EachPastMedian(times) PROVE SkippedAreFew
    <2> SUFFICES ASSUME searchPc = "found", ~moved, NEW n \in 1 .. startHeight
                 PROVE  2 * Cardinality(Late(times, n, target)) <= Cardinality(WindowAt(n))
      BY DEF SkippedAreFew, Late
    <2>1. /\ startHeight \in Nat /\ times \in Seq(Time) /\ target \in Nat
          /\ startHeight < TipHeight /\ TipHeight \in Nat
          /\ startHeight = 0 \/ TimeAt(startHeight) < target
      BY <1>1, Tip, BlockBeforeAssumption DEF SearchInv, SearchTypeOK, FoundLast, Time
    <2>2. startHeight \in 1 .. Len(times) - 1 /\ times[startHeight + 1] < target
      BY <2>1 DEF TipHeight, TimeAt
    <2> QED
      BY <1>1, <2>1, <2>2, NoLateWindow
  <1> QED
    BY <1>1, Invariant, ChainInvariant, PTL
=============================================================================
