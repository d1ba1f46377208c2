------------------------------- MODULE BlockBefore -------------------------------
(***************************************************************************)
(* The search for the last block before a date, with which the poller goes    *)
(* back after a rescan: block_before_date() (bitcoin/d/utils.rs), a bisection  *)
(* over the heights of the active chain, one call to bitcoind per step, while  *)
(* the chain moves.  The times of its blocks are not ordered: bitcoind only    *)
(* requires a block to be later than the median of the last Window ones.       *)
(***************************************************************************)
EXTENDS Integers, Sequences, FiniteSets

CONSTANTS
    Window,       \* the blocks of the median time past, 11 for bitcoind
    MaxTime,      \* bound: the times of blocks are 0 .. MaxTime
    MaxHeight,    \* bound: of the chain
    MaxReorgs     \* bound: how often the chain loses its last block

ASSUME BlockBeforeAssumption ==
    /\ Window \in Nat \ {0}
    /\ {MaxTime, MaxHeight, MaxReorgs} \subseteq Nat

VARIABLES
    times,        \* the times of the active chain's blocks, the genesis block first
    losses,       \* how often the chain lost blocks
    searchPc,     \* block_before_date(): "searching", "found", "none"
    target,       \* target_timestamp
    startHeight,  \* start_height, and the result's height
    endHeight,    \* end_height
    moved         \* the chain lost blocks since the search began

chainOfTimes == <<times, losses>>
search == <<searchPc, target, startHeight, endHeight>>
searchVars == <<chainOfTimes, search, moved>>

Time == 0 .. MaxTime

\* The time of the block at a height; the genesis block is at 0.
TimeAt(h) == times[h + 1]
TipHeight == Len(times) - 1

SearchTypeOK ==
    /\ times \in Seq(Time) /\ times # <<>>
    /\ losses \in Nat
    /\ searchPc \in {"idle", "searching", "found", "none"}
    /\ target \in Time
    /\ startHeight \in Nat /\ endHeight \in Nat
    /\ moved \in BOOLEAN

SearchInit ==
    /\ times = <<0>> /\ losses = 0
    /\ searchPc = "idle" /\ target = 0 /\ startHeight = 0 /\ endHeight = 0
    /\ moved = FALSE

-----------------------------------------------------------------------------
(* The chain. *)

\* The window that ends with the n-th of a sequence of blocks.
WindowAt(n) == {i \in 1 .. n : i > n - Window}

\* Whether a block of time t may follow: most of the last window is earlier.
PastMedian(t, ts) ==
    2 * Cardinality({i \in WindowAt(Len(ts)) : ts[i] < t})
        > Cardinality(WindowAt(Len(ts)))

\* The chains one block longer.
Longer(ts) == {Append(ts, t) : t \in {u \in Time : PastMedian(u, ts)}}

Extend ==
    /\ TipHeight < MaxHeight
    /\ times' \in Longer(times)
    /\ UNCHANGED <<losses, search, moved>>

\* The last block gives way to two others.
Reorganise ==
    /\ losses < MaxReorgs /\ 0 < TipHeight /\ TipHeight < MaxHeight
    /\ times' \in UNION {Longer(ts) : ts \in Longer(SubSeq(times, 1, TipHeight))}
    /\ losses' = losses + 1
    /\ moved' = TRUE
    /\ UNCHANGED search

-----------------------------------------------------------------------------
(* block_before_date().                                                        *)

\* The tip is read; the date must be in the range of the chain.
Begin ==
    /\ searchPc \in {"idle", "found", "none"}
    /\ \E t \in Time :
          /\ target' = t
          /\ searchPc' = IF TimeAt(0) <= t /\ t < TimeAt(TipHeight) THEN "searching"
                                                                    ELSE "none"
    /\ startHeight' = 0 /\ endHeight' = TipHeight
    /\ moved' = FALSE
    /\ UNCHANGED chainOfTimes

NextHeight == startHeight + (endHeight - startHeight) \div 2 + 1

\* A bug: the block after the one that is before the date is taken for before it, too.
BisectPast ==
    /\ searchPc = "searching" /\ startHeight < endHeight
    /\ IF target > TimeAt(NextHeight)
       THEN startHeight' = NextHeight + 1 /\ UNCHANGED endHeight
       ELSE endHeight' = NextHeight - 1 /\ UNCHANGED startHeight
    /\ UNCHANGED <<chainOfTimes, searchPc, target, moved>>

\* A bug: the search goes the wrong way.
BisectBackwards ==
    /\ searchPc = "searching" /\ startHeight < endHeight
    /\ IF target <= TimeAt(NextHeight)
       THEN startHeight' = NextHeight /\ UNCHANGED endHeight
       ELSE endHeight' = NextHeight - 1 /\ UNCHANGED startHeight
    /\ UNCHANGED <<chainOfTimes, searchPc, target, moved>>

\* A bug: the middle is rounded so that the search does not end.
BisectForever ==
    /\ searchPc = "searching" /\ startHeight < endHeight
    /\ IF target > TimeAt(NextHeight - 1)
       THEN startHeight' = NextHeight - 1 /\ UNCHANGED endHeight
       ELSE endHeight' = NextHeight - 1 /\ UNCHANGED startHeight
    /\ UNCHANGED <<chainOfTimes, searchPc, target, moved>>

\* The block after the middle is before the date, or the last one is at the middle.
Bisect ==
    /\ searchPc = "searching" /\ startHeight < endHeight
    /\ IF target > TimeAt(NextHeight)
       THEN startHeight' = NextHeight /\ UNCHANGED endHeight
       ELSE endHeight' = NextHeight - 1 /\ UNCHANGED startHeight
    /\ UNCHANGED <<chainOfTimes, searchPc, target, moved>>

Found ==
    /\ searchPc = "searching" /\ startHeight >= endHeight
    /\ searchPc' = "found"
    /\ UNCHANGED <<chainOfTimes, target, startHeight, endHeight, moved>>

SearchNext == Extend \/ Reorganise \/ Begin \/ Bisect \/ Found

SearchFairness == WF_searchVars(Bisect \/ Found)

SearchSpec == SearchInit /\ [][SearchNext]_searchVars

-----------------------------------------------------------------------------
\* Every height the search asks for is in the chain, so that get_hash() finds it, and
\* the interval never turns over: checked_sub() and the assertion hold (utils.rs:48-60).
SearchInRange ==
    searchPc = "searching" => /\ startHeight <= endHeight
                              /\ endHeight <= TipHeight

\* The block found is before the date, or it is the first block, and the next one is
\* not, unless the chain lost blocks meanwhile ("the last block with a timestamp below
\* this", bitcoin/mod.rs:119).
FoundLast ==
    searchPc = "found" /\ ~moved =>
        /\ startHeight < TipHeight
        /\ startHeight = 0 \/ TimeAt(startHeight) < target
        /\ TimeAt(startHeight + 1) >= target

\* What the rescan skips although its time is not before the date are outliers: in no
\* window at or below the block found they are half of the blocks ("There could
\* technically be a timestamp above the target a bit down this height", utils.rs:64).
SkippedAreFew ==
    searchPc = "found" /\ ~moved =>
        \A n \in 1 .. startHeight :
            2 * Cardinality({i \in WindowAt(n) : times[i] >= target})
                <= Cardinality(WindowAt(n))

\* The search ends, however the chain grows.
SearchEnds == searchPc = "searching" ~> searchPc # "searching"
=============================================================================
