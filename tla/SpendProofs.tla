------------------------------- MODULE SpendProofs -------------------------------
(***************************************************************************)
(* Proofs about the drafts of spends (SpendStore), for any number of threads,  *)
(* drafts and signers, and about the commands that make transactions           *)
(* (Spending), for any transactions, coins, sizes and feerates.                *)
(*                                                                         *)
(* SignaturesKept is not inductive: a thread that stores what it read may      *)
(* only do so because nobody wrote the draft meanwhile.  The invariant says    *)
(* what a thread knows of the row while the draft is not raced.                *)
(*                                                                         *)
(* Nor is any property of a transaction that was made: the invariant says      *)
(* what is known of what the node told the command, and what the fee pays for  *)
(* follows when the transaction is created.  The sums it speaks of are over    *)
(* finite sets, and what holds of them is shown by a least counterexample.     *)
(***************************************************************************)
EXTENDS SpendStore, Spending, TLAPS, FiniteSetTheorems, WellFoundedInduction

\* A row for which signatures were accepted exists.
AcceptedIsStored == \A d \in Draft : stored[d] = {} => accepted[d] = {}

\* A thread never forgets the signatures it was given.
GivenIsHeld ==
    \A t \in Updater : update[t].at # "idle" => update[t].given \subseteq update[t].psbt.sigs

\* A thread that found no row is right as long as nobody else wrote the draft ...
CheckingIsNew ==
    \A t \in Updater : update[t].at = "checking" /\ update[t].draft \notin raced =>
                           stored[update[t].draft] = {}

\* ... and one that is about to write it keeps what the row has.
StoringKeeps ==
    \A t \in Updater : update[t].at = "storing" /\ update[t].draft \notin raced =>
        \A p \in stored[update[t].draft] :
            /\ p.sigs \subseteq update[t].psbt.sigs
            /\ p.keySig \in {NoSigner, update[t].psbt.keySig}

StoreInv == /\ StoreTypeOK
            /\ AcceptedIsStored
            /\ GivenIsHeld
            /\ CheckingIsNew
            /\ StoringKeeps
            /\ SignaturesKept

-----------------------------------------------------------------------------
(* Types. *)

\* What the record of a thread holds, by what it is doing.
LEMMA UpdateFields ==
    ASSUME StoreTypeOK, NEW t \in Updater
    PROVE  /\ update[t].at \in {"idle", "reading", "checking", "storing"}
           /\ update[t].at # "idle" => /\ update[t] \in [at : {"reading", "checking", "storing"},
                                                         draft : Draft, psbt : Psbt,
                                                         given : SUBSET Signer]
  BY DEF StoreTypeOK, Update, NoUpdate

\* The merge of two drafts is a draft, with the signatures of both.
LEMMA MergeType ==
    ASSUME NEW old \in Psbt, NEW new \in Psbt
    PROVE  /\ Merge(old, new) \in Psbt
           /\ Merge(old, new).sigs = old.sigs \cup new.sigs
           /\ old.keySig \in {NoSigner, Merge(old, new).keySig}
  BY DEF Merge, Psbt

\* At most one row.
LEMMA OneRow ==
    ASSUME StoreTypeOK, NEW d \in Draft, NEW p \in stored[d]
    PROVE  /\ p \in Psbt
           /\ stored[d] = {p}
  BY DEF StoreTypeOK, Rows

\* The initial states satisfy the invariant.
LEMMA InitInv == StoreInit => StoreInv
  <1> SUFFICES ASSUME StoreInit PROVE StoreInv
    OBVIOUS
  <1>1. StoreTypeOK
    BY DEF StoreInit, StoreTypeOK, Rows, Update, NoUpdate
  <1>2. AcceptedIsStored /\ SignaturesKept
    BY DEF StoreInit, AcceptedIsStored, SignaturesKept
  <1>3. GivenIsHeld /\ CheckingIsNew /\ StoringKeeps
    BY DEF StoreInit, GivenIsHeld, CheckingIsNew, StoringKeeps
  <1> QED
    BY <1>1, <1>2, <1>3 DEF StoreInv

-----------------------------------------------------------------------------
(* Every step. *)

\* A client asking for an update keeps the invariant.
LEMMA AskUpdateInv ==
    ASSUME StoreInv, NEW t \in Updater, AskUpdate(t)
    PROVE  StoreInv'
  <1>1. PICK d \in Draft, p \in Psbt :
           update' = [update EXCEPT ![t] = [at |-> "reading", draft |-> d, psbt |-> p,
                                            given |-> p.sigs]]
    BY DEF AskUpdate
  <1>2. UNCHANGED <<stored, ownCoins, accepted, raced>>
    BY DEF AskUpdate
  <1>3. p.sigs \subseteq Signer
    BY DEF Psbt
  <1>4. StoreTypeOK'
    BY <1>1, <1>2, <1>3 DEF StoreInv, StoreTypeOK, Update, NoUpdate
  <1>5. \A u \in Updater \ {t} : update'[u] = update[u]
    BY <1>1 DEF StoreInv, StoreTypeOK
  <1>6. update'[t].at = "reading" /\ update'[t].given = p.sigs /\ update'[t].psbt = p
    BY <1>1 DEF StoreInv, StoreTypeOK
  <1>7. AcceptedIsStored' /\ SignaturesKept'
    BY <1>2 DEF StoreInv, AcceptedIsStored, SignaturesKept
  <1>8. GivenIsHeld' /\ CheckingIsNew' /\ StoringKeeps'
    BY <1>2, <1>5, <1>6 DEF StoreInv, GivenIsHeld, CheckingIsNew, StoringKeeps
  <1> QED
    BY <1>4, <1>7, <1>8 DEF StoreInv

\* Reading the stored draft keeps the invariant.
LEMMA ReadDraftInv ==
    ASSUME StoreInv, NEW t \in Updater, ReadDraft(t)
    PROVE  StoreInv'
  <1> DEFINE d == update[t].draft
  <1>1. /\ update[t].at = "reading"
        /\ update[t] \in [at : {"reading", "checking", "storing"}, draft : Draft,
                          psbt : Psbt, given : SUBSET Signer]
        /\ UNCHANGED <<stored, ownCoins, accepted, raced>>
    BY UpdateFields DEF ReadDraft, StoreInv
  <1>2. AcceptedIsStored' /\ SignaturesKept'
    BY <1>1 DEF StoreInv, AcceptedIsStored, SignaturesKept
  <1>3. CASE stored[d] = {} /\ update' = [update EXCEPT ![t].at = "checking"]
    <2>1. /\ update'[t] = [update[t] EXCEPT !.at = "checking"]
          /\ \A u \in Updater \ {t} : update'[u] = update[u]
      BY <1>3 DEF StoreInv, StoreTypeOK
    <2>2. /\ update'[t].at = "checking" /\ update'[t].draft = d
          /\ update'[t].psbt = update[t].psbt /\ update'[t].given = update[t].given
          /\ update'[t] \in Update
      BY <1>1, <2>1 DEF Update
    <2>3. StoreTypeOK'
      BY <1>1, <1>3, <2>1, <2>2 DEF StoreInv, StoreTypeOK
    <2>4. GivenIsHeld' /\ CheckingIsNew' /\ StoringKeeps'
      BY <1>1, <1>3, <2>1, <2>2 DEF StoreInv, GivenIsHeld, CheckingIsNew, StoringKeeps
    <2> QED
      BY <1>2, <2>3, <2>4 DEF StoreInv
  <1>4. ASSUME NEW p \in stored[d],
               update' = [update EXCEPT ![t].at = "storing", ![t].psbt = Merge(p, @)]
        PROVE  StoreInv'
    <2>1. p \in Psbt /\ stored[d] = {p}
      BY <1>1, OneRow DEF StoreInv
    <2>2. /\ update'[t] = [update[t] EXCEPT !.at = "storing",
                                            !.psbt = Merge(p, update[t].psbt)]
          /\ \A u \in Updater \ {t} : update'[u] = update[u]
      BY <1>4 DEF StoreInv, StoreTypeOK
    <2>3. /\ Merge(p, update[t].psbt) \in Psbt
          /\ Merge(p, update[t].psbt).sigs = p.sigs \cup update[t].psbt.sigs
          /\ p.keySig \in {NoSigner, Merge(p, update[t].psbt).keySig}
      BY <1>1, <2>1, MergeType
    <2>4. /\ update'[t].at = "storing" /\ update'[t].draft = d
          /\ update'[t].psbt = Merge(p, update[t].psbt)
          /\ update'[t].given = update[t].given
          /\ update'[t] \in Update
      BY <1>1, <2>2, <2>3 DEF Update
    <2>5. StoreTypeOK'
      BY <1>1, <1>4, <2>2, <2>4 DEF StoreInv, StoreTypeOK
    <2>6. GivenIsHeld'
      BY <1>1, <2>2, <2>3, <2>4 DEF StoreInv, GivenIsHeld
    <2>7. CheckingIsNew'
      <3> SUFFICES ASSUME NEW u \in Updater, update'[u].at = "checking",
                          update'[u].draft \notin raced'
                   PROVE  stored'[update'[u].draft] = {}
        BY DEF CheckingIsNew
      <3>1. update'[u] = update[u] /\ stored' = stored /\ raced' = raced
        BY <1>1, <2>2, <2>4
      <3> QED
        BY <3>1 DEF StoreInv, CheckingIsNew
    <2>8. /\ stored'[d] = {p} /\ p.sigs \subseteq update'[t].psbt.sigs
          /\ p.keySig \in {NoSigner, update'[t].psbt.keySig}
      BY <1>1, <2>1, <2>3, <2>4
    <2>9. StoringKeeps'
      <3> SUFFICES ASSUME NEW u \in Updater, update'[u].at = "storing",
                          update'[u].draft \notin raced',
                          NEW x \in stored'[update'[u].draft]
                   PROVE  /\ x.sigs \subseteq update'[u].psbt.sigs
                          /\ x.keySig \in {NoSigner, update'[u].psbt.keySig}
        BY DEF StoringKeeps
      <3>1. CASE u = t
        <4>1. x = p
          BY <2>4, <2>8, <3>1
        <4> QED
          BY <2>8, <3>1, <4>1
      <3>2. CASE u # t
        <4>1. update'[u] = update[u] /\ stored' = stored /\ raced' = raced
          BY <1>1, <2>2, <3>2
        <4> QED
          BY <4>1 DEF StoreInv, StoringKeeps
      <3> QED
        BY <3>1, <3>2
    <2> QED
      BY <1>2, <2>5, <2>6, <2>7, <2>9 DEF StoreInv
  <1> QED
    BY <1>1, <1>3, <1>4 DEF ReadDraft

\* Checking the coins keeps the invariant.
LEMMA CheckCoinsInv ==
    ASSUME StoreInv, NEW t \in Updater, CheckCoins(t)
    PROVE  StoreInv'
  <1> DEFINE d == update[t].draft
  <1>1. /\ update[t].at = "checking"
        /\ update[t] \in [at : {"reading", "checking", "storing"}, draft : Draft,
                          psbt : Psbt, given : SUBSET Signer]
        /\ UNCHANGED <<stored, ownCoins, accepted, raced>>
    BY UpdateFields DEF CheckCoins, StoreInv
  <1>2. AcceptedIsStored' /\ SignaturesKept'
    BY <1>1 DEF StoreInv, AcceptedIsStored, SignaturesKept
  <1>3. d \notin raced => stored[d] = {}
    BY <1>1 DEF StoreInv, CheckingIsNew
  <1>4. \A u \in Updater \ {t} : update'[u] = update[u]
    BY DEF CheckCoins, StoreInv, StoreTypeOK
  <1>5. CASE d \in ownCoins
    <2>1. update'[t] = [update[t] EXCEPT !.at = "storing"]
      BY <1>5 DEF CheckCoins, StoreInv, StoreTypeOK
    <2>2. /\ update'[t].at = "storing" /\ update'[t].draft = d
          /\ update'[t].psbt = update[t].psbt /\ update'[t].given = update[t].given
          /\ update'[t] \in Update
      BY <1>1, <2>1 DEF Update
    <2>3. StoreTypeOK'
      BY <1>1, <1>4, <2>2 DEF CheckCoins, StoreInv, StoreTypeOK
    <2>4. GivenIsHeld' /\ CheckingIsNew' /\ StoringKeeps'
      BY <1>1, <1>3, <1>4, <2>2 DEF StoreInv, GivenIsHeld, CheckingIsNew, StoringKeeps
    <2> QED
      BY <1>2, <2>3, <2>4 DEF StoreInv
  <1>6. CASE d \notin ownCoins
    <2>1. update'[t] = [at |-> "idle"]
      BY <1>6 DEF CheckCoins, StoreInv, StoreTypeOK
    <2>2. update'[t].at = "idle" /\ update'[t] \in Update
      BY <2>1 DEF Update, NoUpdate
    <2>3. StoreTypeOK'
      BY <1>1, <1>4, <2>2 DEF CheckCoins, StoreInv, StoreTypeOK
    <2>4. GivenIsHeld' /\ CheckingIsNew' /\ StoringKeeps'
      BY <1>1, <1>4, <2>2 DEF StoreInv, GivenIsHeld, CheckingIsNew, StoringKeeps
    <2> QED
      BY <1>2, <2>3, <2>4 DEF StoreInv
  <1> QED
    BY <1>5, <1>6

\* A draft that a thread writes is not raced only if no other thread is about to.
LEMMA NotRaced ==
    ASSUME NEW t \in Updater, NEW d \in Draft, MarkRace(d, t), NEW e \in Draft \ raced'
    PROVE  /\ e \notin raced
           /\ e = d => \A u \in Updater \ {t} :
                          update[u].at \in {"checking", "storing"} => update[u].draft # d
  BY DEF MarkRace, Updating

\* Storing the draft keeps the invariant.
LEMMA StoreDraftInv ==
    ASSUME StoreInv, NEW t \in Updater, StoreDraft(t)
    PROVE  StoreInv'
  <1> DEFINE d == update[t].draft
             psbt == update[t].psbt
  <1>1. /\ update[t].at = "storing"
        /\ update[t] \in [at : {"reading", "checking", "storing"}, draft : Draft,
                          psbt : Psbt, given : SUBSET Signer]
    BY UpdateFields DEF StoreDraft, StoreInv
  <1>2. d \in Draft /\ psbt \in Psbt /\ update[t].given \subseteq Signer
    BY <1>1
  <1>3. /\ stored' = [stored EXCEPT ![d] = {psbt}]
        /\ accepted' = [accepted EXCEPT ![d] = @ \cup update[t].given]
        /\ update' = [update EXCEPT ![t] = [at |-> "idle"]]
        /\ ownCoins' = ownCoins
        /\ MarkRace(d, t)
    BY DEF StoreDraft
  <1>4. /\ stored'[d] = {psbt}
        /\ \A e \in Draft \ {d} : stored'[e] = stored[e] /\ accepted'[e] = accepted[e]
        /\ accepted'[d] = accepted[d] \cup update[t].given
        /\ update'[t] = [at |-> "idle"]
        /\ \A u \in Updater \ {t} : update'[u] = update[u]
    BY <1>2, <1>3 DEF StoreInv, StoreTypeOK
  <1>5. StoreTypeOK'
    <2>1. stored' \in [Draft -> Rows]
      BY <1>2, <1>3 DEF StoreInv, StoreTypeOK, Rows
    <2>2. accepted' \in [Draft -> SUBSET Signer]
      BY <1>2, <1>3 DEF StoreInv, StoreTypeOK
    <2>3. update' \in [Updater -> Update]
      BY <1>3 DEF StoreInv, StoreTypeOK, Update, NoUpdate
    <2>4. raced' \subseteq Draft
      BY <1>2, <1>3 DEF StoreInv, StoreTypeOK, MarkRace
    <2> QED
      BY <1>3, <2>1, <2>2, <2>3, <2>4 DEF StoreInv, StoreTypeOK
  <1>6. AcceptedIsStored'
    BY <1>4 DEF StoreInv, AcceptedIsStored
  <1>7. GivenIsHeld'
    BY <1>4 DEF StoreInv, GivenIsHeld
  <1>8. CheckingIsNew' /\ StoringKeeps'
    <2> SUFFICES ASSUME NEW u \in Updater, update'[u].at \in {"checking", "storing"},
                        update'[u].draft \notin raced'
                 PROVE  /\ update'[u].at = "checking" => stored'[update'[u].draft] = {}
                        /\ update'[u].at = "storing" =>
                              \A p \in stored'[update'[u].draft] :
                                 /\ p.sigs \subseteq update'[u].psbt.sigs
                                 /\ p.keySig \in {NoSigner, update'[u].psbt.keySig}
      BY DEF CheckingIsNew, StoringKeeps
    <2>1. u # t /\ update'[u] = update[u]
      BY <1>4
    <2>2. update[u].draft \in Draft
      BY <2>1, UpdateFields DEF StoreInv
    <2>3. update[u].draft # d /\ update[u].draft \notin raced
      BY <1>2, <1>3, <2>1, <2>2, NotRaced
    <2>4. stored'[update[u].draft] = stored[update[u].draft]
      BY <1>4, <2>2, <2>3
    <2> QED
      BY <2>1, <2>3, <2>4 DEF StoreInv, CheckingIsNew, StoringKeeps
  <1>9. SignaturesKept'
    <2> SUFFICES ASSUME NEW e \in Draft \ raced', accepted'[e] # {}
                 PROVE  \E p \in stored'[e] : accepted'[e] \subseteq p.sigs
      BY DEF SignaturesKept
    <2>1. e \notin raced
      BY <1>2, <1>3, NotRaced
    <2>2. CASE e = d
      <3>1. update[t].given \subseteq psbt.sigs
        BY <1>1 DEF StoreInv, GivenIsHeld
      <3>2. accepted[d] \subseteq psbt.sigs
        <4>1. CASE accepted[d] = {}
          BY <4>1
        <4>2. CASE accepted[d] # {}
          <5>1. PICK p \in stored[d] : accepted[d] \subseteq p.sigs
            BY <1>2, <2>1, <2>2, <4>2 DEF StoreInv, SignaturesKept
          <5>2. p.sigs \subseteq psbt.sigs
            BY <1>1, <2>1, <2>2, <5>1 DEF StoreInv, StoringKeeps
          <5> QED
            BY <5>1, <5>2
        <4> QED
          BY <4>1, <4>2
      <3> QED
        BY <1>4, <2>2, <3>1, <3>2
    <2>3. CASE e # d
      BY <1>4, <2>1, <2>3 DEF StoreInv, SignaturesKept
    <2> QED
      BY <2>2, <2>3
  <1> QED
    BY <1>5, <1>6, <1>7, <1>8, <1>9 DEF StoreInv

\* Deleting a draft keeps the invariant.
LEMMA DeleteDraftInv ==
    ASSUME StoreInv, NEW t \in Updater, DeleteDraft(t)
    PROVE  StoreInv'
  <1>1. PICK d \in Draft : /\ stored' = [stored EXCEPT ![d] = {}]
                           /\ accepted' = [accepted EXCEPT ![d] = {}]
                           /\ MarkRace(d, t)
    BY DEF DeleteDraft
  <1>2. update[t].at = "idle" /\ UNCHANGED <<update, ownCoins>>
    BY DEF DeleteDraft
  <1>3. /\ stored'[d] = {} /\ accepted'[d] = {}
        /\ \A e \in Draft \ {d} : stored'[e] = stored[e] /\ accepted'[e] = accepted[e]
    BY <1>1 DEF StoreInv, StoreTypeOK
  <1>4. StoreTypeOK'
    <2>1. stored' \in [Draft -> Rows] /\ accepted' \in [Draft -> SUBSET Signer]
      BY <1>1 DEF StoreInv, StoreTypeOK, Rows
    <2>2. raced' \subseteq Draft
      BY <1>1 DEF StoreInv, StoreTypeOK, MarkRace
    <2> QED
      BY <1>2, <2>1, <2>2 DEF StoreInv, StoreTypeOK
  <1>5. AcceptedIsStored' /\ GivenIsHeld'
    BY <1>2, <1>3 DEF StoreInv, AcceptedIsStored, GivenIsHeld
  <1>6. CheckingIsNew' /\ StoringKeeps'
    <2> SUFFICES ASSUME NEW u \in Updater, update[u].at \in {"checking", "storing"},
                        update[u].draft \notin raced'
                 PROVE  /\ update[u].at = "checking" => stored'[update[u].draft] = {}
                        /\ update[u].at = "storing" =>
                              \A p \in stored'[update[u].draft] :
                                 /\ p.sigs \subseteq update[u].psbt.sigs
                                 /\ p.keySig \in {NoSigner, update[u].psbt.keySig}
      BY <1>2 DEF CheckingIsNew, StoringKeeps
    <2>1. u # t
      BY <1>2
    <2>2. update[u].draft \in Draft
      BY UpdateFields DEF StoreInv
    <2>3. update[u].draft # d /\ update[u].draft \notin raced
      BY <1>1, <2>1, <2>2, NotRaced
    <2>4. stored'[update[u].draft] = stored[update[u].draft]
      BY <1>3, <2>2, <2>3
    <2> QED
      BY <2>3, <2>4 DEF StoreInv, CheckingIsNew, StoringKeeps
  <1>7. SignaturesKept'
    <2> SUFFICES ASSUME NEW e \in Draft \ raced', accepted'[e] # {}
                 PROVE  \E p \in stored'[e] : accepted'[e] \subseteq p.sigs
      BY DEF SignaturesKept
    <2>1. e \notin raced /\ e # d
      BY <1>1, <1>3, NotRaced
    <2> QED
      BY <1>3, <2>1 DEF StoreInv, SignaturesKept
  <1> QED
    BY <1>4, <1>5, <1>6, <1>7 DEF StoreInv

\* Every step keeps the invariant.
LEMMA NextInv == StoreInv /\ [StoreNext]_storeVars => StoreInv'
  <1> SUFFICES ASSUME StoreInv, [StoreNext]_storeVars PROVE StoreInv'
    OBVIOUS
  <1>1. ASSUME NEW t \in Updater,
               AskUpdate(t) \/ ReadDraft(t) \/ CheckCoins(t) \/ StoreDraft(t)
               \/ DeleteDraft(t)
        PROVE  StoreInv'
    BY <1>1, AskUpdateInv, ReadDraftInv, CheckCoinsInv, StoreDraftInv, DeleteDraftInv
  <1>2. CASE CoinsChange
    BY <1>2 DEF CoinsChange, StoreInv, StoreTypeOK, AcceptedIsStored, GivenIsHeld,
                CheckingIsNew, StoringKeeps, SignaturesKept
  <1>3. CASE UNCHANGED storeVars
    BY <1>3 DEF storeVars, StoreInv, StoreTypeOK, AcceptedIsStored, GivenIsHeld,
                CheckingIsNew, StoringKeeps, SignaturesKept
  <1> QED
    BY <1>1, <1>2, <1>3 DEF StoreNext

-----------------------------------------------------------------------------
(* The theorems. *)

\* The invariant holds in every reachable state.
LEMMA Invariant == StoreSpec => []StoreInv
  BY InitInv, NextInv, PTL DEF StoreSpec

\* The rows, the threads and what they hold keep their types; there is at most one row
\* for a draft (store_spend()).
THEOREM Typed == StoreSpec => []StoreTypeOK
  <1>1. StoreInv => StoreTypeOK
    BY DEF StoreInv
  <1> QED
    BY Invariant, <1>1, PTL

\* No signature that updatespend accepted is lost, however many threads update how many
\* drafts, unless two accesses to the same draft overlapped (update_spend()).
THEOREM Kept == StoreSpec => []SignaturesKept
  <1>1. StoreInv => SignaturesKept
    BY DEF StoreInv
  <1> QED
    BY Invariant, <1>1, PTL

\* Nor is the signature of the key path ever replaced.
THEOREM KeySigStays == StoreSpec => KeySigKept
  <1> DEFINE Stays == \A d \in Draft \ raced' : \A p \in stored[d], q \in stored'[d] :
                          p.keySig \in {NoSigner, q.keySig}
  <1>1. StoreInv /\ [StoreNext]_storeVars => [Stays]_storeVars
    <2> SUFFICES ASSUME StoreInv, StoreNext, NEW d \in Draft \ raced',
                        NEW p \in stored[d], NEW q \in stored'[d]
                 PROVE  p.keySig \in {NoSigner, q.keySig}
      OBVIOUS
    <2>1. CASE stored'[d] = stored[d]
      BY <2>1, OneRow DEF StoreInv
    <2>2. ASSUME NEW t \in Updater, AskUpdate(t) \/ ReadDraft(t) \/ CheckCoins(t)
          PROVE  stored'[d] = stored[d]
      BY <2>2 DEF AskUpdate, ReadDraft, CheckCoins
    <2>3. ASSUME NEW t \in Updater, StoreDraft(t)
          PROVE  p.keySig \in {NoSigner, q.keySig}
      <3>1. update[t].at = "storing" /\ update[t].draft \in Draft
        BY <2>3, UpdateFields DEF StoreDraft, StoreInv
      <3>2. stored' = [stored EXCEPT ![update[t].draft] = {update[t].psbt}]
            /\ MarkRace(update[t].draft, t)
        BY <2>3 DEF StoreDraft
      <3>3. d \notin raced
        BY <3>1, <3>2, NotRaced
      <3>4. CASE d = update[t].draft
        <4>1. q = update[t].psbt
          BY <3>1, <3>2, <3>4 DEF StoreInv, StoreTypeOK
        <4> QED
          BY <3>1, <3>3, <3>4, <4>1 DEF StoreInv, StoringKeeps
      <3>5. CASE d # update[t].draft
        <4>1. stored'[d] = stored[d]
          BY <3>2, <3>5 DEF StoreInv, StoreTypeOK
        <4> QED
          BY <2>1, <4>1
      <3> QED
        BY <3>4, <3>5
    <2>4. ASSUME NEW t \in Updater, DeleteDraft(t)
          PROVE  stored'[d] = stored[d]
      <3>1. PICK e \in Draft : stored' = [stored EXCEPT ![e] = {}]
        BY <2>4 DEF DeleteDraft
      <3>2. d # e
        BY <3>1 DEF StoreInv, StoreTypeOK
      <3> QED
        BY <3>1, <3>2 DEF StoreInv, StoreTypeOK
    <2>5. CASE CoinsChange
      BY <2>1, <2>5 DEF CoinsChange
    <2> QED
      BY <2>1, <2>2, <2>3, <2>4, <2>5 DEF StoreNext
  <1> QED
    BY Invariant, <1>1, PTL DEF StoreSpec, KeySigKept

-----------------------------------------------------------------------------
(* Sums over finite sets.                                                       *)

\* The member a sum starts with, and what the function of partial sums is.
Pick(S) == CHOOSE x \in S : TRUE
PartialSums(f, S, g) ==
    g = [s \in SUBSET S |-> IF s = {} THEN 0 ELSE f[Pick(s)] + g[s \ {Pick(s)}]]

\* Among subsets of a finite set there is one with no other below it.
LEMMA LeastSubset ==
    ASSUME NEW U, IsFiniteSet(U), NEW Q \in SUBSET SUBSET U, Q # {}
    PROVE  \E S \in Q : \A T \in SUBSET S : T # S => T \notin Q
<1> DEFINE R == StrictSubsetOrdering(U)
<1>1. IsWellFoundedOn(R, FiniteSubsetsOf(U))
    BY FS_StrictSubsetOrderingWellFounded
<1>2. Q \subseteq FiniteSubsetsOf(U)
    BY FS_Subset DEF FiniteSubsetsOf
<1>3. \E S \in Q : \A T \in Q : ~ (<<T, S>> \in R)
    <2> HIDE DEF R
    <2>1. QED BY <1>1, <1>2, WFMin
<1>4. PICK S \in Q : \A T \in Q : ~ (<<T, S>> \in R)
    BY <1>3
<1>5. \A T \in SUBSET S : T # S => T \notin Q
    <2> SUFFICES ASSUME NEW T \in SUBSET S, T # S, T \in Q PROVE FALSE
        OBVIOUS
    <2>1. <<T, S>> \in R
        BY DEF StrictSubsetOrdering
    <2>2. QED BY <1>4, <2>1
<1>6. QED BY <1>5

\* There is one function of partial sums of a finite set.
LEMMA PartialSumsUnique ==
    ASSUME NEW f, NEW S, IsFiniteSet(S), NEW g, NEW h,
           PartialSums(f, S, g), PartialSums(f, S, h)
    PROVE  g = h
<1> DEFINE Q == {s \in SUBSET S : g[s] # h[s]}
<1>1. Q = {}
    <2> SUFFICES ASSUME Q # {} PROVE FALSE
        OBVIOUS
    <2>1. PICK s \in Q : \A t \in SUBSET s : t # s => t \notin Q
        <3> HIDE DEF Q
        <3>1. Q \in SUBSET SUBSET S
            BY DEF Q
        <3>2. QED BY <3>1, LeastSubset
    <2>2. CASE s = {}
        BY <2>1, <2>2 DEF PartialSums
    <2>3. CASE s # {}
        <3>1. Pick(s) \in s
            BY <2>3 DEF Pick
        <3>2. g[s \ {Pick(s)}] = h[s \ {Pick(s)}]
            BY <2>1, <3>1
        <3>3. /\ g[s] = f[Pick(s)] + g[s \ {Pick(s)}]
              /\ h[s] = f[Pick(s)] + h[s \ {Pick(s)}]
            BY <2>1, <2>3 DEF PartialSums
        <3>4. QED BY <2>1, <3>2, <3>3
    <2>4. QED BY <2>2, <2>3
<1>2. \A s \in SUBSET S : g[s] = h[s]
    BY <1>1
<1>3. QED BY <1>2 DEF PartialSums

\* A total is the last of the partial sums.
LEMMA TotalIsPartialSum ==
    ASSUME NEW f, NEW S
    PROVE  Total(f, S) = (CHOOSE g : PartialSums(f, S, g))[S]
  BY DEF Total, MapThenSumSet, MapThenFoldSet, PartialSums, Pick

\* The total of a set when its partial sums exist.
LEMMA TotalFrom ==
    ASSUME NEW f, NEW S, IsFiniteSet(S), NEW g, PartialSums(f, S, g)
    PROVE  \A T \in SUBSET S : Total(f, T) = g[T]
<1>1. ASSUME NEW T \in SUBSET S
      PROVE  Total(f, T) = g[T]
    <2> DEFINE h == [s \in SUBSET T |-> g[s]]
    <2>1. PartialSums(f, T, h)
        <3>1. \A s \in SUBSET T : s \ {Pick(s)} \in SUBSET T
            OBVIOUS
        <3>2. \A s \in SUBSET T :
                 g[s] = IF s = {} THEN 0 ELSE f[Pick(s)] + g[s \ {Pick(s)}]
            BY DEF PartialSums
        <3>3. QED BY <3>1, <3>2 DEF PartialSums
    <2> HIDE DEF h
    <2>2. IsFiniteSet(T)
        BY FS_Subset
    <2> DEFINE k == CHOOSE k : PartialSums(f, T, k)
    <2>3. PartialSums(f, T, k)
        BY <2>1
    <2>4. k = h
        <3> HIDE DEF k
        <3>1. QED BY <2>1, <2>2, <2>3, PartialSumsUnique
    <2>5. Total(f, T) = k[T]
        BY TotalIsPartialSum
    <2>6. QED BY <2>4, <2>5 DEF h
<1>2. QED BY <1>1

\* Every finite set has partial sums.
LEMMA PartialSumsExist ==
    ASSUME NEW f, NEW U, IsFiniteSet(U)
    PROVE  \E g : PartialSums(f, U, g)
<1> DEFINE Q == {S \in SUBSET U : ~ \E g : PartialSums(f, S, g)}
<1>1. Q = {}
    <2> SUFFICES ASSUME Q # {} PROVE FALSE
        OBVIOUS
    <2>1. PICK S \in Q : \A T \in SUBSET S : T # S => T \notin Q
        <3> HIDE DEF Q
        <3>1. Q \in SUBSET SUBSET U
            BY DEF Q
        <3>2. QED BY <3>1, LeastSubset
    <2> DEFINE g == [s \in SUBSET S |->
                        IF s = {} THEN 0 ELSE f[Pick(s)] + Total(f, s \ {Pick(s)})]
    <2>2. ASSUME NEW T \in SUBSET S, T # S
          PROVE  g[T] = Total(f, T)
        <3>1. PICK h : PartialSums(f, T, h)
            BY <2>1, <2>2
        <3>2. IsFiniteSet(T)
            BY FS_Subset
        <3>3. \A V \in SUBSET T : Total(f, V) = h[V]
            BY <3>1, <3>2, TotalFrom
        <3>4. T = {} \/ Pick(T) \in T
            BY DEF Pick
        <3>5. h[T] = IF T = {} THEN 0 ELSE f[Pick(T)] + h[T \ {Pick(T)}]
            BY <3>1 DEF PartialSums
        <3>6. QED BY <3>3, <3>4, <3>5
    <2>3. ASSUME NEW s \in SUBSET S, s # {}
          PROVE  g[s \ {Pick(s)}] = Total(f, s \ {Pick(s)})
        <3>1. Pick(s) \in s
            BY <2>3 DEF Pick
        <3>2. s \ {Pick(s)} \in SUBSET S /\ s \ {Pick(s)} # S
            BY <3>1
        <3> HIDE DEF g
        <3>3. QED BY <2>2, <3>2
    <2>4. PartialSums(f, S, g)
        BY <2>3 DEF PartialSums
    <2>5. QED BY <2>1, <2>4
<1>2. QED BY <1>1

\* A sum, one member at a time.
LEMMA TotalPick ==
    ASSUME NEW f, NEW S, IsFiniteSet(S)
    PROVE  /\ Total(f, {}) = 0
           /\ S # {} => Total(f, S) = f[Pick(S)] + Total(f, S \ {Pick(S)})
<1>1. PICK g : PartialSums(f, S, g)
    BY PartialSumsExist
<1>2. \A T \in SUBSET S : Total(f, T) = g[T]
    BY <1>1, TotalFrom
<1>3. \A s \in SUBSET S :
         g[s] = IF s = {} THEN 0 ELSE f[Pick(s)] + g[s \ {Pick(s)}]
    BY <1>1 DEF PartialSums
<1>4. {} \in SUBSET S /\ S \in SUBSET S /\ S \ {Pick(S)} \in SUBSET S
    OBVIOUS
<1>5. QED BY <1>2, <1>3, <1>4

\* A sum of naturals is one.
LEMMA TotalNat ==
    ASSUME NEW U, IsFiniteSet(U), NEW f \in [U -> Nat], NEW S \in SUBSET U
    PROVE  Total(f, S) \in Nat
<1> DEFINE Q == {V \in SUBSET U : Total(f, V) \notin Nat}
<1>1. Q = {}
    <2> SUFFICES ASSUME Q # {} PROVE FALSE
        OBVIOUS
    <2>1. PICK V \in Q : \A T \in SUBSET V : T # V => T \notin Q
        <3> HIDE DEF Q
        <3>1. Q \in SUBSET SUBSET U
            BY DEF Q
        <3>2. QED BY <3>1, LeastSubset
    <2>2. IsFiniteSet(V)
        BY FS_Subset
    <2>3. CASE V = {}
        <3>1. Total(f, {}) = 0
            BY FS_EmptySet, TotalPick
        <3>2. QED BY <2>1, <2>3, <3>1
    <2>4. CASE V # {}
        <3>1. Pick(V) \in V
            BY <2>4 DEF Pick
        <3>2. Total(f, V \ {Pick(V)}) \in Nat
            BY <2>1, <3>1
        <3>3. Total(f, V) = f[Pick(V)] + Total(f, V \ {Pick(V)})
            BY <2>2, <2>4, TotalPick
        <3>4. QED BY <2>1, <3>1, <3>2, <3>3
    <2>5. QED BY <2>3, <2>4
<1>2. QED BY <1>1

\* Any member may be the one to start with.
LEMMA TotalMember ==
    ASSUME NEW U, IsFiniteSet(U), NEW f \in [U -> Nat], NEW S \in SUBSET U, NEW x \in S
    PROVE  Total(f, S) = f[x] + Total(f, S \ {x})
<1> DEFINE Q == {V \in SUBSET U : \E y \in V : Total(f, V) # f[y] + Total(f, V \ {y})}
<1>1. Q = {}
    <2> SUFFICES ASSUME Q # {} PROVE FALSE
        OBVIOUS
    <2>1. PICK V \in Q : \A T \in SUBSET V : T # V => T \notin Q
        <3> HIDE DEF Q
        <3>1. Q \in SUBSET SUBSET U
            BY DEF Q
        <3>2. QED BY <3>1, LeastSubset
    <2>2. PICK y \in V : Total(f, V) # f[y] + Total(f, V \ {y})
        BY <2>1
    <2> DEFINE p == Pick(V)
    <2>3. p \in V /\ IsFiniteSet(V)
        BY FS_Subset DEF Pick
    <2>4. Total(f, V) = f[p] + Total(f, V \ {p})
        BY <2>3, TotalPick
    <2> HIDE DEF p
    <2>5. p # y
        BY <2>2, <2>4
    <2>6. Total(f, V \ {p}) = f[y] + Total(f, (V \ {p}) \ {y})
        BY <2>1, <2>3, <2>5
    <2>7. Total(f, V \ {y}) = f[p] + Total(f, (V \ {y}) \ {p})
        BY <2>1, <2>3, <2>5
    <2>8. (V \ {p}) \ {y} = (V \ {y}) \ {p} /\ (V \ {p}) \ {y} \in SUBSET U
        OBVIOUS
    <2>9. Total(f, (V \ {p}) \ {y}) \in Nat /\ f[p] \in Nat /\ f[y] \in Nat
        BY <2>3, <2>8, TotalNat
    <2>10. Total(f, (V \ {y}) \ {p}) = Total(f, (V \ {p}) \ {y})
        BY <2>8
    <2> DEFINE rest == Total(f, (V \ {p}) \ {y})
    <2>11. Total(f, V) = f[p] + (f[y] + rest) /\ Total(f, V \ {y}) = f[p] + rest
        BY <2>4, <2>6, <2>7, <2>10
    <2>12. rest \in Nat
        BY <2>9
    <2> HIDE DEF rest
    <2>13. f[p] + (f[y] + rest) = f[y] + (f[p] + rest)
        BY <2>9, <2>12
    <2>14. QED BY <2>2, <2>11, <2>13
<1>2. QED BY <1>1

\* No member gives more than all together.
LEMMA TotalAtLeast ==
    ASSUME NEW U, IsFiniteSet(U), NEW f \in [U -> Nat], NEW S \in SUBSET U, NEW x \in S
    PROVE  Total(f, S) >= f[x]
<1>1. Total(f, S \ {x}) \in Nat /\ f[x] \in Nat
    BY TotalNat
<1>2. Total(f, S) = f[x] + Total(f, S \ {x})
    BY TotalMember
<1>3. QED BY <1>1, <1>2

\* What is in both of two sets counts once in their union.
LEMMA TotalUnion ==
    ASSUME NEW U, IsFiniteSet(U), NEW f \in [U -> Nat], NEW A \in SUBSET U, NEW B \in SUBSET U
    PROVE  Total(f, A \cup B) <= Total(f, A) + Total(f, B)
<1> DEFINE Q == {V \in SUBSET U : ~(Total(f, A \cup V) <= Total(f, A) + Total(f, V))}
<1>1. Q = {}
    <2> SUFFICES ASSUME Q # {} PROVE FALSE
        OBVIOUS
    <2>1. PICK V \in Q : \A T \in SUBSET V : T # V => T \notin Q
        <3> HIDE DEF Q
        <3>1. Q \in SUBSET SUBSET U
            BY DEF Q
        <3>2. QED BY <3>1, LeastSubset
    <2>2. ~(Total(f, A \cup V) <= Total(f, A) + Total(f, V)) /\ V \in SUBSET U
        BY <2>1
    <2>3. Total(f, A) \in Nat /\ Total(f, V) \in Nat
        BY <2>2, TotalNat
    <2>4. CASE V = {}
        <3>1. Total(f, A \cup V) = Total(f, A)
            <4>1. A \cup V = A
                BY <2>4
            <4>2. QED BY <4>1
        <3>2. QED BY <2>2, <2>3, <3>1
    <2>5. CASE V # {}
        <3>1. PICK x \in V : TRUE
            BY <2>5
        <3> DEFINE W == V \ {x}
        <3>2. W \in SUBSET U
            BY <2>2
        <3>3. Total(f, A \cup W) <= Total(f, A) + Total(f, W)
            BY <2>1, <3>1
        <3>4. Total(f, V) = f[x] + Total(f, W)
            BY <2>2, TotalMember
        <3>5. f[x] \in Nat /\ Total(f, W) \in Nat /\ Total(f, A \cup W) \in Nat
            BY <2>2, <3>2, TotalNat
        <3>6. CASE x \in A
            <4>1. A \cup V = A \cup W
                BY <3>6
            <4> HIDE DEF W
            <4>2. QED BY <2>2, <2>3, <3>3, <3>4, <3>5, <4>1
        <3>7. CASE x \notin A
            <4>1. (A \cup V) \ {x} = A \cup W /\ x \in A \cup V /\ A \cup V \in SUBSET U
                BY <2>2, <3>7
            <4>2. Total(f, A \cup V) = f[x] + Total(f, (A \cup V) \ {x})
                BY <4>1, TotalMember
            <4> HIDE DEF W
            <4>3. Total(f, A \cup V) = f[x] + Total(f, A \cup W)
                BY <4>1, <4>2
            <4>4. QED BY <2>2, <2>3, <3>3, <3>4, <3>5, <4>3
        <3>8. QED BY <3>6, <3>7
    <2>6. QED BY <2>4, <2>5
<1>2. QED BY <1>1

-----------------------------------------------------------------------------
(* Sizes and fees.                                                             *)

\* Products of naturals, for leaves that need no more of them.
LEMMA TimesGrows ==
    ASSUME NEW a \in Nat, NEW b \in Nat, NEW c \in Nat, b <= c
    PROVE  a * b \in Nat /\ a * c \in Nat /\ a * b <= a * c
  OBVIOUS

\* What the rate for two sizes is.
LEMMA TimesSum ==
    ASSUME NEW a \in Int, NEW b \in Int, NEW c \in Int
    PROVE  a * (b + c) = a * b + a * c
  OBVIOUS

\* What the division of a fee by a rate or a size leaves.
LEMMA DivBounds ==
    ASSUME NEW a \in Nat, NEW b \in Nat \ {0}
    PROVE  /\ a \div b \in Nat
           /\ b * (a \div b) <= a
           /\ a < b * (a \div b + 1)
  OBVIOUS

\* A transaction has a size.
LEMMA SizeNat ==
    ASSUME NEW ins \in Nat, NEW outs \in Nat
    PROVE  Size(ins, outs) \in Nat \ {0}
<1>1. BaseSize \in Nat \ {0} /\ InSize \in Nat /\ OutSize \in Nat
    BY SpendingAssumption
<1>2. InSize * ins \in Nat /\ OutSize * outs \in Nat
    BY <1>1
<1> DEFINE x == InSize * ins
           y == OutSize * outs
<1>3. x \in Nat /\ y \in Nat
    BY <1>2
<1>4. Size(ins, outs) = BaseSize + x + y
    BY DEF Size
<1> HIDE DEF x, y
<1>5. QED BY <1>1, <1>3, <1>4

\* There is a payment, or there is none.
LEMMA OutsNat == ASSUME NEW paid PROVE Outs(paid) \in {0, 1}
  BY DEF Outs

\* Coins can be counted.
LEMMA CoinsFinite ==
    ASSUME NEW coins \in SUBSET Utxo
    PROVE  IsFiniteSet(coins) /\ Cardinality(coins) \in Nat
  BY SpendingAssumption, FS_Subset, FS_CardinalityType

\* So has each transaction of the wallet.
LEMMA TxSizeNat == ASSUME NEW t \in SpendTx PROVE TxSize(t) \in Nat \ {0}
<1>1. Inputs[t] \in SUBSET Utxo /\ Made(t) \in SUBSET Utxo
    BY SpendingAssumption DEF Made
<1>2. Cardinality(Inputs[t]) \in Nat /\ Cardinality(Made(t)) \in Nat
    BY <1>1, CoinsFinite
<1>3. Outs(Paid[t]) + Cardinality(Made(t)) \in Nat
    BY <1>2, OutsNat
<1>4. QED BY <1>2, <1>3, SizeNat DEF TxSize

\* Coins have a worth.
LEMMA WorthNat == ASSUME NEW coins \in SUBSET Utxo PROVE WorthOf(coins) \in Nat
  BY SpendingAssumption, TotalNat DEF WorthOf

\* Transactions have a fee.
LEMMA TxFeeNat == ASSUME NEW t \in SpendTx PROVE TxFee(t) \in Nat
<1>1. Inputs[t] \in SUBSET Utxo /\ Made(t) \in SUBSET Utxo /\ Paid[t] \in Nat
    BY SpendingAssumption DEF Made
<1>2. WorthOf(Inputs[t]) \in Nat /\ WorthOf(Made(t)) \in Nat /\ TxSize(t) \in Nat
    BY <1>1, WorthNat, TxSizeNat
<1>3. TxFee(t) >= 0
    BY FeesAssumption
<1>4. TxFee(t) \in Int
    BY <1>1, <1>2 DEF TxFee
<1>5. QED BY <1>3, <1>4

\* So have sets of transactions, and a size.
LEMMA FeesAndSizes ==
    ASSUME NEW txs \in SUBSET SpendTx
    PROVE  FeesOf(txs) \in Nat /\ SizeOf(txs) \in Nat
<1>1. [t \in SpendTx |-> TxFee(t)] \in [SpendTx -> Nat]
    BY TxFeeNat
<1>2. [t \in SpendTx |-> TxSize(t)] \in [SpendTx -> Nat]
    BY TxSizeNat
<1>3. IsFiniteSet(SpendTx)
    BY SpendingAssumption
<1> DEFINE f == [t \in SpendTx |-> TxFee(t)]
           g == [t \in SpendTx |-> TxSize(t)]
<1>4. FeesOf(txs) = Total(f, txs) /\ SizeOf(txs) = Total(g, txs)
    BY DEF FeesOf, SizeOf
<1>5. f \in [SpendTx -> Nat] /\ g \in [SpendTx -> Nat]
    BY <1>1, <1>2
<1> HIDE DEF f, g
<1>6. QED BY <1>3, <1>4, <1>5, TotalNat

\* No transaction has no fee and no size.
LEMMA NoFees == FeesOf({}) = 0 /\ SizeOf({}) = 0
  BY FS_EmptySet, TotalPick DEF FeesOf, SizeOf

\* What is evicted with two transactions pays no more than what is evicted with each.
LEMMA FeesUnion ==
    ASSUME NEW A \in SUBSET SpendTx, NEW B \in SUBSET SpendTx
    PROVE  FeesOf(A \cup B) <= FeesOf(A) + FeesOf(B)
<1> DEFINE f == [t \in SpendTx |-> TxFee(t)]
<1>1. f \in [SpendTx -> Nat] /\ IsFiniteSet(SpendTx)
    BY TxFeeNat, SpendingAssumption
<1>2. \A S : FeesOf(S) = Total(f, S)
    BY DEF FeesOf
<1> HIDE DEF f
<1>3. QED BY <1>1, <1>2, TotalUnion

\* What a coin adds to a spend pays for what its ancestors do not.
LEMMA ExtraPays ==
    ASSUME NEW anc \in [size : Nat, fee : Nat], NEW rate \in Nat \ {0}
    PROVE  /\ Extra(anc, rate) \in Nat
           /\ rate * Extra(anc, rate) + anc.fee >= rate * anc.size
<1> DEFINE paidFor == anc.fee \div rate
           size == anc.size
           fee == anc.fee
<1>1. paidFor \in Nat /\ rate * paidFor <= fee
    BY DivBounds
<1>2. size \in Nat /\ fee \in Nat
    OBVIOUS
<1>3. Extra(anc, rate) = IF size > paidFor THEN size - paidFor ELSE 0
    BY DEF Extra
<1> HIDE DEF paidFor, size, fee
<1>4. CASE size > paidFor
    <2>1. size = paidFor + (size - paidFor) /\ size - paidFor \in Nat
        BY <1>1, <1>2, <1>4
    <2>2. rate * size = rate * paidFor + rate * (size - paidFor)
        BY <1>1, <2>1, TimesSum
    <2>3. rate * paidFor \in Nat /\ rate * (size - paidFor) \in Nat
        BY <1>1, <2>1
    <2> DEFINE x == rate * paidFor
               y == rate * (size - paidFor)
    <2>4. rate * size = x + y /\ x \in Nat /\ y \in Nat /\ x <= fee
        BY <1>1, <2>2, <2>3
    <2>5. rate * Extra(anc, rate) = y
        BY <1>3, <1>4
    <2>6. Extra(anc, rate) \in Nat
        BY <1>3, <1>4, <2>1
    <2> HIDE DEF x, y
    <2>7. rate * Extra(anc, rate) + fee >= rate * size
        BY <1>2, <2>4, <2>5
    <2>8. QED BY <2>6, <2>7 DEF fee, size
<1>5. CASE ~(size > paidFor)
    <2>1. rate * size <= rate * paidFor /\ rate * size \in Nat
        BY <1>1, <1>2, <1>5, TimesGrows
    <2>2. Extra(anc, rate) = 0 /\ rate * 0 = 0 /\ rate * paidFor \in Nat
        BY <1>1, <1>3, <1>5
    <2> DEFINE x == rate * paidFor
               y == rate * size
    <2>3. x \in Nat /\ y \in Nat /\ y <= x /\ x <= fee
        BY <1>1, <2>1, <2>2
    <2>4. rate * Extra(anc, rate) = 0
        BY <2>2
    <2> HIDE DEF x
    <2>5. 0 + fee >= y
        <3> HIDE DEF y
        <3>1. QED BY <1>2, <2>3
    <2>6. QED BY <2>2, <2>4, <2>5 DEF fee, size
<1>6. QED BY <1>4, <1>5

\* What the coins of a selection add, and what each of them adds.
LEMMA ExtraNat ==
    ASSUME NEW q \in Query, NEW coins \in SUBSET Utxo
    PROVE  /\ Total(q.extra, coins) \in Nat
           /\ \A c \in coins : Total(q.extra, coins) >= q.extra[c]
<1>1. q.extra \in [Utxo -> Nat] /\ IsFiniteSet(Utxo)
    BY SpendingAssumption DEF Query
<1>2. QED BY <1>1, TotalNat, TotalAtLeast

\* What the fee that is asked for covers.
LEMMA FeeForCovers ==
    ASSUME NEW q \in Query, NEW coins \in SUBSET Utxo, NEW outs \in Nat
    PROVE  LET size == Size(Cardinality(coins), outs)
               extra == Total(q.extra, coins)
           IN  /\ FeeFor(q, coins, outs) \in Nat
               /\ q.rate * (size + extra) \in Nat
               /\ FeeFor(q, coins, outs) >= q.rate * (size + extra)
               /\ q.rbf => FeeFor(q, coins, outs) >= q.replaced + size + extra
<1> DEFINE size == Size(Cardinality(coins), outs)
           extra == Total(q.extra, coins)
           byRate == q.rate * (size + extra)
           toReplace == q.replaced + (size + extra)
<1>1. size \in Nat /\ extra \in Nat /\ q.rate \in Nat /\ q.replaced \in Nat
    BY CoinsFinite, SizeNat, ExtraNat DEF Query
<1>2. byRate \in Nat /\ toReplace \in Nat /\ toReplace = q.replaced + size + extra
    <2> HIDE DEF size, extra
    <2>1. QED BY <1>1
<1>3. FeeFor(q, coins, outs) = IF q.rbf /\ toReplace > byRate THEN toReplace ELSE byRate
    BY DEF FeeFor
<1> HIDE DEF byRate, toReplace
<1>4. /\ FeeFor(q, coins, outs) \in Nat
      /\ FeeFor(q, coins, outs) >= byRate
      /\ q.rbf => FeeFor(q, coins, outs) >= toReplace
    BY <1>2, <1>3
<1>5. QED BY <1>2, <1>4 DEF byRate

\* The fee of the transaction that is made is at least the one that was asked for, for
\* the outputs it has.
LEMMA SpendPays ==
    ASSUME NEW q \in Query, NEW coins \in SUBSET Utxo, Meets(q, coins)
    PROVE  LET tx == Spend(q, coins)
               extra == Total(q.extra, coins)
           IN  /\ tx.ins = coins /\ coins # {}
               /\ tx.size \in Nat \ {0} /\ tx.fee \in Nat
               /\ tx.fee >= q.rate * (tx.size + extra)
               /\ q.rbf => tx.fee >= q.replaced + tx.size + extra
<1> DEFINE outs == Outs(q.paid) + (IF Change(q, coins) > 0 THEN 1 ELSE 0)
           fee == WorthOf(coins) - q.paid - Change(q, coins)
           worth == WorthOf(coins)
           paid == q.paid
           tx == Spend(q, coins)
<1>1. worth \in Nat /\ paid \in Nat /\ MinChange \in Nat /\ Outs(q.paid) \in {0, 1}
    BY WorthNat, SpendingAssumption, OutsNat DEF Query
<1>2. tx = [ins |-> coins, size |-> Size(Cardinality(coins), outs), fee |-> fee]
    BY DEF Spend
<1>3. outs \in Nat /\ fee >= FeeFor(q, coins, outs) /\ fee \in Int
    <2>1. CASE Change(q, coins) > 0
        <3> DEFINE asked == FeeFor(q, coins, Outs(q.paid) + 1)
        <3>1. asked \in Nat
            BY <1>1, FeeForCovers
        <3>2. MaxChange(q, coins) = worth - paid - asked
            BY DEF MaxChange
        <3>3. Change(q, coins) = worth - paid - asked
            <4> HIDE DEF asked, worth, paid
            <4>1. QED BY <2>1, <3>2 DEF Change
        <3>4. outs = Outs(q.paid) + 1
            BY <2>1
        <3>5. fee = worth - paid - (worth - paid - asked)
            BY <3>3
        <3>6. asked = FeeFor(q, coins, outs)
            BY <3>4
        <3> HIDE DEF asked, worth, paid, fee, outs
        <3>7. fee = asked
            BY <1>1, <3>1, <3>5
        <3>8. QED BY <1>1, <3>1, <3>4, <3>6, <3>7
    <2>2. CASE ~(Change(q, coins) > 0)
        <3>1. paid > 0 /\ worth >= paid + FeeFor(q, coins, 1)
            BY <2>2 DEF Meets
        <3>2. Change(q, coins) = 0
            <4> DEFINE left == MaxChange(q, coins)
            <4>1. left \in Int
                <5>1. FeeFor(q, coins, Outs(q.paid) + 1) \in Nat
                    BY <1>1, FeeForCovers
                <5>2. QED BY <1>1, <5>1 DEF MaxChange
            <4>2. Change(q, coins) = IF left > MinChange THEN left ELSE 0
                BY DEF Change
            <4> HIDE DEF left
            <4>3. QED BY <1>1, <2>2, <4>1, <4>2
        <3>3. outs = 1
            BY <1>1, <3>1, <3>2 DEF Outs
        <3>4. fee = worth - paid - 0
            BY <3>2
        <3>5. FeeFor(q, coins, outs) = FeeFor(q, coins, 1) /\ FeeFor(q, coins, 1) \in Nat
            BY <3>3, FeeForCovers
        <3> DEFINE asked == FeeFor(q, coins, 1)
        <3>6. asked \in Nat /\ worth >= paid + asked /\ asked = FeeFor(q, coins, outs)
            BY <3>1, <3>5
        <3> HIDE DEF asked, worth, paid, fee, outs
        <3>7. QED BY <1>1, <3>3, <3>4, <3>6
    <2>3. QED BY <2>1, <2>2
<1>4. coins # {}
    <2>0. SUFFICES ASSUME coins = {} PROVE FALSE
        OBVIOUS
    <2>1. worth = 0
        BY <2>0, FS_EmptySet, TotalPick DEF WorthOf
    <2>2. FeeFor(q, coins, Outs(q.paid) + 1) \in Nat /\ FeeFor(q, coins, 1) \in Nat
        BY <1>1, FeeForCovers
    <2> DEFINE asked == FeeFor(q, coins, Outs(q.paid) + 1)
               one == FeeFor(q, coins, 1)
    <2>3. asked \in Nat /\ one \in Nat /\ MaxChange(q, coins) = worth - paid - asked
        BY <2>2 DEF MaxChange
    <2>4. Change(q, coins) > 0 \/ (paid > 0 /\ worth >= paid + one)
        BY DEF Meets
    <2>5. Change(q, coins) = IF MaxChange(q, coins) > MinChange THEN MaxChange(q, coins) ELSE 0
        BY DEF Change
    <2> HIDE DEF asked, one, worth, paid
    <2>6. QED BY <1>1, <2>1, <2>3, <2>4, <2>5
<1> DEFINE size == Size(Cardinality(coins), outs)
           extra == Total(q.extra, coins)
<1>5. size \in Nat \ {0}
    BY <1>3, CoinsFinite, SizeNat
<1>6. /\ FeeFor(q, coins, outs) \in Nat
      /\ q.rate * (size + extra) \in Nat
      /\ FeeFor(q, coins, outs) >= q.rate * (size + extra)
      /\ q.rbf => FeeFor(q, coins, outs) >= q.replaced + size + extra
    <2> HIDE DEF outs
    <2>1. QED BY <1>3, FeeForCovers
<1>7. q.replaced + size + extra \in Nat
    <2>1. q.replaced \in Nat /\ extra \in Nat
        BY ExtraNat DEF Query
    <2> HIDE DEF size, extra
    <2>2. QED BY <1>5, <2>1
<1>8. tx.ins = coins /\ tx.size = size /\ tx.fee = fee
    BY <1>2
<1>9. /\ fee \in Nat /\ fee >= q.rate * (size + extra)
      /\ q.rbf => fee >= q.replaced + size + extra
    <2> DEFINE asked == FeeFor(q, coins, outs)
               byRate == q.rate * (size + extra)
               toReplace == q.replaced + size + extra
    <2>1. /\ asked \in Nat /\ byRate \in Nat /\ toReplace \in Nat
          /\ fee \in Int /\ fee >= asked /\ asked >= byRate
          /\ q.rbf => asked >= toReplace
        BY <1>3, <1>6, <1>7
    <2>2. fee \in Nat /\ fee >= byRate /\ (q.rbf => fee >= toReplace)
        <3> HIDE DEF asked, byRate, toReplace, fee
        <3>1. QED BY <2>1
    <2>3. QED BY <2>2
<1> HIDE DEF tx, size, fee
<1>10. QED BY <1>4, <1>5, <1>8, <1>9 DEF tx

-----------------------------------------------------------------------------
(* The invariant.  All of it is about the command, with what it has read.         *)

\* Which command runs, by what it does next.
CommandKnown(c) ==
    /\ c.at \in {"idle", "coins", "ancestors"} => ~c.q.rbf
    /\ c.at \in {"inputs", "spenders", "entries", "confirmed"} => c.q.rbf
    /\ c.cancel => c.q.rbf

\* What a coin adds to a spend pays for what its ancestors do not.
AncestorsPaid(c) ==
    ~c.q.rbf =>
        /\ c.at # "idle" => c.q.rate > 0
        /\ \A u \in Utxo :
              c.q.rate * c.q.extra[u] + FeesOf(c.ancestry[u])
                  >= c.q.rate * SizeOf(c.ancestry[u])

\* The fees that are added up are not less than those of what is evicted, and the least
\* feerate beats that of each transaction that is replaced.
ReplacedCounted(c) ==
    /\ FeesOf(c.evicted) <= c.q.replaced
    /\ \A t \in c.direct : EntryRate(t) <= c.minRate
    /\ c.q.rbf /\ c.at \in {"confirmed", "create", "made"} => c.q.rate >= c.minRate

\* Every selection for a replacement has a coin of the transaction it is to replace.
PrevSelected(c) ==
    c.q.rbf =>
        /\ c.prev # {}
        /\ c.at = "create" => \/ c.q.must = c.prev
                              \/ c.q.must = {} /\ c.q.cands = c.prev

\* What the properties say of a transaction that was made.
ReplacementSound(c) ==
    c.at = "made" /\ c.q.rbf =>
        /\ c.tx.fee >= FeesOf(c.evicted) + c.tx.size
        /\ \A t \in c.direct : c.tx.fee * TxSize(t) > TxFee(t) * c.tx.size
        /\ c.tx.ins \cap c.prev # {}

PackageSound(c) ==
    c.at = "made" /\ ~c.q.rbf =>
        \A u \in c.tx.ins :
            c.tx.fee + FeesOf(c.ancestry[u]) >= c.q.rate * (c.tx.size + SizeOf(c.ancestry[u]))

CommandInv(c) ==
    /\ c \in Command
    /\ c.q.must \subseteq c.q.cands /\ c.direct \subseteq c.evicted
    /\ CommandKnown(c)
    /\ AncestorsPaid(c)
    /\ ReplacedCounted(c)
    /\ PrevSelected(c)
    /\ ReplacementSound(c) /\ PackageSound(c)

SpendInv == node \in View /\ polled \in View /\ CommandInv(cmd)

\* What the invariant is for.
LEMMA SpendInvImplies ==
    ASSUME SpendInv
    PROVE  SpendingTypeOK /\ ReplacementPays /\ BeatsFeerate /\ Conflicting /\ PackagePays
  BY DEF SpendInv, CommandInv, ReplacementSound, PackageSound, SpendingTypeOK,
         ReplacementPays, BeatsFeerate, Conflicting, PackagePays, Replacement

\* No command is the state to start with, and to end with.
LEMMA NoCmdInv == CommandInv(NoCmd)
<1>1. NoCmd \in Command
    BY DEF NoCmd, Command, Query
<1>2. FeesOf({}) = 0 /\ SizeOf({}) = 0
    BY NoFees
<1>3. CommandKnown(NoCmd) /\ PrevSelected(NoCmd) /\ ReplacementSound(NoCmd) /\ PackageSound(NoCmd)
    BY DEF NoCmd, CommandKnown, PrevSelected, ReplacementSound, PackageSound
<1>4. AncestorsPaid(NoCmd)
    BY <1>2 DEF NoCmd, AncestorsPaid
<1>5. ReplacedCounted(NoCmd)
    BY <1>2 DEF NoCmd, ReplacedCounted
<1>6. QED BY <1>1, <1>3, <1>4, <1>5 DEF CommandInv, NoCmd

\* What is in blocks or the mempool are transactions of the wallet.
LEMMA ViewSets ==
    ASSUME NEW v \in View
    PROVE  v.mined \in SUBSET SpendTx /\ v.pool \in SUBSET SpendTx
  BY DEF View

\* Ancestors in the mempool are in the mempool.
LEMMA AncestryIn == ASSUME NEW t, NEW pool PROVE Ancestry(t, pool) \in SUBSET pool
  BY DEF Ancestry

\* So are descendants, and a transaction is one of its own.
LEMMA DescentIn ==
    ASSUME NEW pool, NEW t \in pool
    PROVE  Descent(t, pool) \in SUBSET pool /\ t \in Descent(t, pool)
  BY DEF Ancestry, Descent

-----------------------------------------------------------------------------
(* Each step of a command keeps it.                                            *)

\* A request for a spend.
LEMMA AskSpendStep == ASSUME SpendInv, AskSpend PROVE CommandInv(cmd')
<1>1. PICK paid \in Amounts, must \in Chosen, rate \in Feerates \ {0} :
          cmd' = [NoCmd EXCEPT !.at = "coins", !.q.paid = paid, !.q.rate = rate,
                               !.q.must = must, !.q.cands = must]
    BY DEF AskSpend, Give
<1>2. paid \in Nat /\ must \in SUBSET Utxo /\ rate \in Nat \ {0}
    BY SpendingAssumption
<1> DEFINE q == [NoCmd.q EXCEPT !.paid = paid, !.rate = rate, !.must = must,
                                !.cands = must]
           d == [NoCmd EXCEPT !.at = "coins", !.q = q]
<1>3. cmd' = d
    BY <1>1
<1>4. NoCmd \in Command
    BY NoCmdInv DEF CommandInv
<1>5. d \in Command
    BY <1>2, <1>4 DEF Command, Query
<1>6. /\ d.at = "coins" /\ d.cancel = NoCmd.cancel /\ d.direct = NoCmd.direct
      /\ d.evicted = NoCmd.evicted /\ d.ancestry = NoCmd.ancestry /\ d.minRate = NoCmd.minRate
      /\ d.q.rate = rate /\ d.q.must = must /\ d.q.cands = must /\ d.q.extra = NoCmd.q.extra
      /\ d.q.rbf = NoCmd.q.rbf /\ d.q.replaced = NoCmd.q.replaced
    BY <1>4 DEF Command, Query
<1>7. /\ ~NoCmd.q.rbf /\ ~NoCmd.cancel /\ NoCmd.direct = {} /\ NoCmd.evicted = {}
      /\ NoCmd.ancestry = [c \in Utxo |-> {}] /\ NoCmd.q.extra = [c \in Utxo |-> 0]
      /\ NoCmd.q.replaced = 0
    BY DEF NoCmd
<1> HIDE DEF d
<1>8. AncestorsPaid(d)
    <2>1. FeesOf({}) = 0 /\ SizeOf({}) = 0
        BY NoFees
    <2>2. rate * 0 = 0
        BY <1>2
    <2>3. QED BY <1>2, <1>6, <1>7, <2>1, <2>2 DEF AncestorsPaid
<1>9. ReplacedCounted(d)
    BY <1>6, <1>7, NoFees DEF ReplacedCounted
<1>10. CommandKnown(d) /\ PrevSelected(d) /\ ReplacementSound(d) /\ PackageSound(d)
    BY <1>6, <1>7 DEF CommandKnown, PrevSelected, ReplacementSound, PackageSound
<1>11. QED BY <1>3, <1>5, <1>6, <1>7, <1>8, <1>9, <1>10 DEF CommandInv

\* The candidates are read.
LEMMA ReadCoinsStep == ASSUME SpendInv, ReadCoins PROVE CommandInv(cmd')
<1> DEFINE cands == IF cmd.q.must # {} THEN cmd.q.must
                    ELSE ConfirmedCoins \cup {c \in UnconfirmedCoins : FromSelf(c)}
           left == {<<c, MadeBy[c]>> : c \in cands \cap UnconfirmedCoins}
           d == [cmd EXCEPT !.at = "ancestors", !.q = [@ EXCEPT !.cands = cands],
                            !.left = left]
<1>1. cmd' = d \/ cmd' = NoCmd
    BY DEF ReadCoins, Give
<1>2. cands \in SUBSET Utxo
    BY DEF SpendInv, CommandInv, Command, Query, ConfirmedCoins, UnconfirmedCoins
<1>3. left \in SUBSET (Utxo \X SpendTx)
    BY <1>2, SpendingAssumption
<1>4. cmd.q.must \subseteq cands /\ cmd.at = "coins"
    BY DEF ReadCoins
<1> HIDE DEF cands, left
<1>5. CommandInv(d)
    <2>1. CommandInv(cmd)
        BY DEF SpendInv
    <2>2. d \in Command
        BY <1>2, <1>3, <2>1 DEF CommandInv, Command, Query
    <2>3. /\ d.at = "ancestors" /\ d.q.must = cmd.q.must /\ d.q.cands = cands
          /\ d.q.rate = cmd.q.rate /\ d.q.extra = cmd.q.extra /\ d.q.rbf = cmd.q.rbf
          /\ d.q.replaced = cmd.q.replaced /\ d.ancestry = cmd.ancestry
          /\ d.cancel = cmd.cancel /\ d.prev = cmd.prev
          /\ d.direct = cmd.direct /\ d.evicted = cmd.evicted /\ d.minRate = cmd.minRate
        BY <2>1 DEF CommandInv, Command, Query
    <2> HIDE DEF d
    <2>4. CommandKnown(d) /\ AncestorsPaid(d) /\ ReplacedCounted(d) /\ PrevSelected(d)
        BY <1>4, <2>1, <2>3
        DEF CommandInv, CommandKnown, AncestorsPaid, ReplacedCounted, PrevSelected
    <2>5. ReplacementSound(d) /\ PackageSound(d)
        BY <2>3 DEF ReplacementSound, PackageSound
    <2>6. QED BY <1>4, <2>1, <2>2, <2>3, <2>4, <2>5 DEF CommandInv
<1>6. QED BY <1>1, <1>5, NoCmdInv

\* What a coin adds for its ancestors is what they do not pay for.
LEMMA ReadAncestorsStep == ASSUME SpendInv, ReadAncestors PROVE CommandInv(cmd')
<1>1. PICK l \in cmd.left :
          LET all == IF l[2] \in node.pool THEN Ancestry(l[2], node.pool) ELSE {}
              anc == [size |-> SizeOf(all), fee |-> FeesOf(all)]
          IN  cmd' = [cmd EXCEPT !.left = @ \ {l},
                                 !.q.extra[l[1]] = Extra(anc, cmd.q.rate),
                                 !.ancestry[l[1]] = all]
    BY DEF ReadAncestors, Give
<1> DEFINE all == IF l[2] \in node.pool THEN Ancestry(l[2], node.pool) ELSE {}
           anc == [size |-> SizeOf(all), fee |-> FeesOf(all)]
           x == Extra(anc, cmd.q.rate)
           extra == [cmd.q.extra EXCEPT ![l[1]] = x]
           ancestry == [cmd.ancestry EXCEPT ![l[1]] = all]
           d == [cmd EXCEPT !.left = cmd.left \ {l}, !.q = [cmd.q EXCEPT !.extra = extra],
                            !.ancestry = ancestry]
<1>2. CommandInv(cmd) /\ node \in View /\ cmd.at = "ancestors"
    BY DEF SpendInv, ReadAncestors
<1>3. l[1] \in Utxo
    BY <1>2 DEF CommandInv, Command
<1>4. all \in SUBSET SpendTx
    BY <1>2, ViewSets, AncestryIn
<1>5. ~cmd.q.rbf /\ cmd.q.rate \in Nat \ {0}
    BY <1>2 DEF CommandInv, CommandKnown, AncestorsPaid, Command, Query
<1>6. anc \in [size : Nat, fee : Nat]
    <2> HIDE DEF all
    <2>1. QED BY <1>4, FeesAndSizes
<1>7. x \in Nat /\ cmd.q.rate * x + FeesOf(all) >= cmd.q.rate * SizeOf(all)
    <2>1. anc.fee = FeesOf(all) /\ anc.size = SizeOf(all)
        OBVIOUS
    <2> HIDE DEF anc
    <2>2. QED BY <1>5, <1>6, <2>1, ExtraPays
<1>8. cmd' = d
    BY <1>1
<1> HIDE DEF all, x
<1>9. extra \in [Utxo -> Nat] /\ ancestry \in [Utxo -> SUBSET SpendTx]
    BY <1>2, <1>3, <1>4, <1>7 DEF CommandInv, Command, Query
<1>10. \A u \in Utxo : /\ extra[u] = IF u = l[1] THEN x ELSE cmd.q.extra[u]
                       /\ ancestry[u] = IF u = l[1] THEN all ELSE cmd.ancestry[u]
    BY <1>2 DEF CommandInv, Command, Query
<1> HIDE DEF extra, ancestry
<1>11. d \in Command
    BY <1>2, <1>9 DEF CommandInv, Command, Query
<1>12. /\ d.at = cmd.at /\ d.q.must = cmd.q.must /\ d.q.cands = cmd.q.cands
       /\ d.q.rate = cmd.q.rate /\ d.q.extra = extra /\ d.q.rbf = cmd.q.rbf
       /\ d.q.replaced = cmd.q.replaced /\ d.ancestry = ancestry
       /\ d.cancel = cmd.cancel /\ d.prev = cmd.prev
       /\ d.direct = cmd.direct /\ d.evicted = cmd.evicted /\ d.minRate = cmd.minRate
    BY <1>2 DEF CommandInv, Command, Query
<1> HIDE DEF d
<1>13. AncestorsPaid(d)
    <2>1. ASSUME NEW u \in Utxo
          PROVE  cmd.q.rate * extra[u] + FeesOf(ancestry[u]) >= cmd.q.rate * SizeOf(ancestry[u])
        <3>1. CASE u = l[1]
            BY <1>7, <1>10, <3>1
        <3>2. CASE u # l[1]
            BY <1>2, <1>5, <1>10, <3>2 DEF CommandInv, AncestorsPaid
        <3>3. QED BY <3>1, <3>2
    <2>2. QED BY <1>5, <1>12, <2>1 DEF AncestorsPaid
<1>14. CommandKnown(d) /\ ReplacedCounted(d) /\ PrevSelected(d)
    BY <1>2, <1>12 DEF CommandInv, CommandKnown, ReplacedCounted, PrevSelected
<1>15. ReplacementSound(d) /\ PackageSound(d)
    BY <1>2, <1>12 DEF ReplacementSound, PackageSound
<1>16. QED BY <1>2, <1>8, <1>11, <1>12, <1>13, <1>14, <1>15 DEF CommandInv

\* A step that only changes what is done next, and the answers that are left, keeps the
\* invariant where it asks no more of the next state.
LEMMA MovesOn ==
    ASSUME NEW c, CommandInv(c), NEW at, NEW left \in SUBSET (Utxo \X SpendTx),
           at \in {"create", "spenders", "entries"},
           at = "create" => c.at = "ancestors",
           at = "spenders" => c.at = "inputs",
           at = "entries" => c.at = "spenders"
    PROVE  CommandInv([c EXCEPT !.at = at, !.left = left])
<1> DEFINE d == [c EXCEPT !.at = at, !.left = left]
<1>1. d \in Command
    BY DEF CommandInv, Command
<1>2. /\ d.at = at /\ d.q = c.q /\ d.ancestry = c.ancestry /\ d.cancel = c.cancel
      /\ d.prev = c.prev /\ d.direct = c.direct /\ d.evicted = c.evicted
      /\ d.minRate = c.minRate
    BY DEF CommandInv, Command
<1> HIDE DEF d
<1>3. CommandKnown(d) /\ AncestorsPaid(d)
    BY <1>2 DEF CommandInv, CommandKnown, AncestorsPaid
<1>4. ReplacedCounted(d) /\ PrevSelected(d)
    BY <1>2 DEF CommandInv, CommandKnown, ReplacedCounted, PrevSelected
<1>5. ReplacementSound(d) /\ PackageSound(d)
    BY <1>2 DEF ReplacementSound, PackageSound
<1>6. CommandInv(d)
    BY <1>1, <1>2, <1>3, <1>4, <1>5 DEF CommandInv
<1>7. QED BY <1>6 DEF d

\* All ancestors are known.
LEMMA HaveAncestorsStep == ASSUME SpendInv, HaveAncestors PROVE CommandInv(cmd')
<1>1. CommandInv(cmd) /\ cmd.at = "ancestors" /\ cmd.left \in SUBSET (Utxo \X SpendTx)
    BY DEF SpendInv, HaveAncestors, CommandInv, Command
<1>2. CommandInv([cmd EXCEPT !.at = "create", !.left = cmd.left])
    BY <1>1, MovesOn
<1>3. cmd' = [cmd EXCEPT !.at = "create", !.left = cmd.left]
    BY <1>1 DEF HaveAncestors, Give, CommandInv, Command
<1>4. QED BY <1>2, <1>3

\* The coins of the replaced transaction are looked up.
LEMMA ReadInputsStep == ASSUME SpendInv, ReadInputs PROVE CommandInv(cmd')
<1>1. CommandInv(cmd) /\ cmd.at = "inputs" /\ cmd.left \in SUBSET (Utxo \X SpendTx)
    BY DEF SpendInv, ReadInputs, CommandInv, Command
<1>2. CommandInv([cmd EXCEPT !.at = "spenders", !.left = cmd.left])
    BY <1>1, MovesOn
<1>3. cmd' = [cmd EXCEPT !.at = "spenders", !.left = cmd.left] \/ cmd' = NoCmd
    BY <1>1 DEF ReadInputs, Give, CommandInv, Command
<1>4. QED BY <1>2, <1>3, NoCmdInv

\* The node names the transactions that are replaced.
LEMMA ListSpendersStep == ASSUME SpendInv, ListSpenders PROVE CommandInv(cmd')
<1> DEFINE left == {l \in cmd.prev \X node.pool : l[1] \in Inputs[l[2]]}
<1>1. CommandInv(cmd) /\ cmd.at = "spenders" /\ cmd.prev \in SUBSET Utxo /\ node \in View
    BY DEF SpendInv, ListSpenders, CommandInv, Command
<1>2. left \in SUBSET (Utxo \X SpendTx)
    BY <1>1, ViewSets
<1>3. cmd' = [cmd EXCEPT !.at = "entries", !.left = left]
    BY DEF ListSpenders, Give
<1> HIDE DEF left
<1>4. QED BY <1>1, <1>2, <1>3, MovesOn

\* A request for a replacement.
LEMMA AskRbfStep == ASSUME SpendInv, AskRbf PROVE CommandInv(cmd')
<1>0. PICK t \in Signaling, cancel \in BOOLEAN, rate \in Feerates :
          Give([NoCmd EXCEPT !.at = "inputs", !.cancel = cancel, !.prev = Inputs[t],
                             !.q.rbf = TRUE, !.q.rate = rate,
                             !.q.paid = IF cancel THEN 0 ELSE Paid[t]])
    BY ZenonT(60) DEF AskRbf
<1>1. cmd' = [NoCmd EXCEPT !.at = "inputs", !.cancel = cancel, !.prev = Inputs[t],
                           !.q.rbf = TRUE, !.q.rate = rate,
                           !.q.paid = IF cancel THEN 0 ELSE Paid[t]]
    BY <1>0 DEF Give
<1> DEFINE paid == IF cancel THEN 0 ELSE Paid[t]
           q == [NoCmd.q EXCEPT !.rbf = TRUE, !.rate = rate, !.paid = paid]
           d == [NoCmd EXCEPT !.at = "inputs", !.cancel = cancel, !.prev = Inputs[t], !.q = q]
<1>2. paid \in Nat /\ rate \in Nat /\ Inputs[t] \in SUBSET Utxo /\ Inputs[t] # {}
    BY SpendingAssumption
<1>3. cmd' = d
    BY <1>1
<1> HIDE DEF paid
<1>4. NoCmd \in Command
    BY NoCmdInv DEF CommandInv
<1>5. d \in Command
    BY <1>2, <1>4 DEF Command, Query
<1>6. /\ d.at = "inputs" /\ d.cancel = cancel /\ d.direct = NoCmd.direct
      /\ d.evicted = NoCmd.evicted /\ d.prev = Inputs[t]
      /\ d.q.rbf = TRUE /\ d.q.replaced = NoCmd.q.replaced
      /\ d.q.must = NoCmd.q.must /\ d.q.cands = NoCmd.q.cands
    BY <1>4 DEF Command, Query
<1>7. /\ NoCmd.direct = {} /\ NoCmd.evicted = {} /\ NoCmd.q.replaced = 0
      /\ NoCmd.q.must = {} /\ NoCmd.q.cands = {}
    BY DEF NoCmd
<1> HIDE DEF d
<1>8. ReplacedCounted(d)
    BY <1>6, <1>7, NoFees DEF ReplacedCounted
<1>9. CommandKnown(d) /\ AncestorsPaid(d) /\ PrevSelected(d)
    BY <1>2, <1>6 DEF CommandKnown, AncestorsPaid, PrevSelected
<1>10. ReplacementSound(d) /\ PackageSound(d)
    BY <1>6 DEF ReplacementSound, PackageSound
<1>11. QED BY <1>3, <1>5, <1>6, <1>7, <1>8, <1>9, <1>10 DEF CommandInv

\* The least feerate to beat a transaction is one.
LEMMA EntryRateNat == ASSUME NEW t \in SpendTx PROVE EntryRate(t) \in Nat \ {0}
<1>1. TxFee(t) \in Nat /\ TxSize(t) \in Nat \ {0}
    BY TxFeeNat, TxSizeNat
<1>2. TxFee(t) \div TxSize(t) \in Nat
    BY <1>1, DivBounds
<1>3. QED BY <1>2 DEF EntryRate

\* An answer that the transaction is gone.
LEMMA SpenderGone ==
    ASSUME NEW c, CommandInv(c), c.at = "entries", NEW l
    PROVE  CommandInv([c EXCEPT !.left = c.left \ {l}])
<1> DEFINE d == [c EXCEPT !.left = c.left \ {l}]
<1>1. d \in Command
    BY DEF CommandInv, Command
<1>2. /\ d.at = c.at /\ d.q = c.q /\ d.ancestry = c.ancestry /\ d.cancel = c.cancel
      /\ d.prev = c.prev /\ d.direct = c.direct /\ d.evicted = c.evicted
      /\ d.minRate = c.minRate
    BY DEF CommandInv, Command
<1> HIDE DEF d
<1>3. CommandKnown(d) /\ AncestorsPaid(d) /\ ReplacedCounted(d) /\ PrevSelected(d)
    BY <1>2 DEF CommandInv, CommandKnown, AncestorsPaid, ReplacedCounted, PrevSelected
<1>4. ReplacementSound(d) /\ PackageSound(d)
    BY <1>2 DEF ReplacementSound, PackageSound
<1>5. CommandInv(d)
    BY <1>1, <1>2, <1>3, <1>4 DEF CommandInv
<1>6. QED BY <1>5 DEF d

\* The fees of what is evicted are added to those that are replaced.
LEMMA ReadSpenderStep == ASSUME SpendInv, ReadSpender PROVE CommandInv(cmd')
<1>1. PICK l \in cmd.left :
          LET t == l[2]
              rest == [cmd EXCEPT !.left = @ \ {l}]
          IN  cmd' = IF t \notin node.pool THEN rest
                     ELSE [rest EXCEPT !.minRate = IF EntryRate(t) > @ THEN EntryRate(t)
                                                                       ELSE @,
                                       !.q.replaced = @ + FeesOf(Descent(t, node.pool)),
                                       !.direct = @ \cup {t},
                                       !.evicted = @ \cup Descent(t, node.pool)]
    BY DEF ReadSpender, Give
<1>2. CommandInv(cmd) /\ node \in View /\ cmd.at = "entries"
    BY DEF SpendInv, ReadSpender
<1> DEFINE t == l[2]
           gone == Descent(t, node.pool)
           minRate == IF EntryRate(t) > cmd.minRate THEN EntryRate(t) ELSE cmd.minRate
           replaced == cmd.q.replaced + FeesOf(gone)
           direct == cmd.direct \cup {t}
           evicted == cmd.evicted \cup gone
           d == [cmd EXCEPT !.left = cmd.left \ {l}, !.minRate = minRate,
                            !.q = [cmd.q EXCEPT !.replaced = replaced],
                            !.direct = direct, !.evicted = evicted]
<1>3. CASE t \notin node.pool
    BY <1>1, <1>2, <1>3, SpenderGone
<1>4. CASE t \in node.pool
    <2>1. t \in SpendTx /\ gone \in SUBSET SpendTx /\ t \in gone
        BY <1>2, <1>4, ViewSets, DescentIn
    <2>2. EntryRate(t) \in Nat \ {0} /\ cmd.minRate \in Nat \ {0}
        BY <1>2, <2>1, EntryRateNat DEF CommandInv, Command
    <2>3. /\ FeesOf(gone) \in Nat /\ cmd.q.replaced \in Nat
          /\ cmd.evicted \in SUBSET SpendTx /\ cmd.direct \in SUBSET SpendTx
          /\ cmd.direct \subseteq cmd.evicted /\ FeesOf(cmd.evicted) <= cmd.q.replaced
        <3> HIDE DEF gone
        <3>1. QED BY <1>2, <2>1, FeesAndSizes
                  DEF CommandInv, Command, Query, ReplacedCounted
    <2>4. cmd' = d
        <3>1. t = l[2] /\ l[2] \in node.pool
            BY <1>4
        <3>2. cmd' = [[cmd EXCEPT !.left = cmd.left \ {l}]
                         EXCEPT !.minRate = IF EntryRate(t) > @ THEN EntryRate(t) ELSE @,
                                !.q.replaced = @ + FeesOf(Descent(t, node.pool)),
                                !.direct = @ \cup {t},
                                !.evicted = @ \cup Descent(t, node.pool)]
            BY <1>1, <3>1
        <3> DEFINE rest == [cmd EXCEPT !.left = cmd.left \ {l}]
        <3>3. /\ rest.minRate = cmd.minRate /\ rest.q = cmd.q
              /\ rest.direct = cmd.direct /\ rest.evicted = cmd.evicted
            BY <1>2 DEF CommandInv, Command
        <3>4. QED BY <3>2, <3>3
    <2> HIDE DEF t, gone
    <2>5. /\ minRate \in Nat \ {0} /\ minRate >= cmd.minRate /\ minRate >= EntryRate(t)
          /\ replaced \in Nat
        BY <2>2, <2>3
    <2>6. direct \in SUBSET SpendTx /\ evicted \in SUBSET SpendTx /\ direct \subseteq evicted
        BY <2>1, <2>3
    <2>7. FeesOf(evicted) <= replaced
        <3>1. FeesOf(evicted) <= FeesOf(cmd.evicted) + FeesOf(gone)
            BY <2>1, <2>3, FeesUnion
        <3>2. FeesOf(evicted) \in Nat /\ FeesOf(cmd.evicted) \in Nat
            BY <2>3, <2>6, FeesAndSizes
        <3> DEFINE e == FeesOf(evicted)
        <3>3. e <= FeesOf(cmd.evicted) + FeesOf(gone) /\ e \in Nat
            BY <3>1, <3>2
        <3> HIDE DEF e, evicted
        <3>4. e <= replaced
            BY <2>3, <3>2, <3>3
        <3>5. QED BY <3>4 DEF e
    <2>8. \A u \in direct : EntryRate(u) <= minRate
        <3>1. ASSUME NEW u \in cmd.direct
              PROVE  EntryRate(u) <= minRate
            <4>1. EntryRate(u) <= cmd.minRate /\ u \in SpendTx
                BY <1>2, <2>3 DEF CommandInv, ReplacedCounted
            <4>2. EntryRate(u) \in Nat
                BY <4>1, EntryRateNat
            <4> HIDE DEF minRate
            <4>3. QED BY <2>2, <2>5, <4>1, <4>2
        <3>2. EntryRate(t) <= minRate
            <4> HIDE DEF minRate
            <4>1. QED BY <2>2, <2>5
        <3> HIDE DEF minRate
        <3>3. QED BY <3>1, <3>2
    <2> HIDE DEF minRate, replaced, direct, evicted
    <2>9. d \in Command
        BY <1>2, <2>5, <2>6 DEF CommandInv, Command, Query
    <2>10. /\ d.at = cmd.at /\ d.q.must = cmd.q.must /\ d.q.cands = cmd.q.cands
           /\ d.q.rate = cmd.q.rate /\ d.q.extra = cmd.q.extra /\ d.q.rbf = cmd.q.rbf
           /\ d.q.replaced = replaced /\ d.ancestry = cmd.ancestry
           /\ d.cancel = cmd.cancel /\ d.prev = cmd.prev
           /\ d.direct = direct /\ d.evicted = evicted /\ d.minRate = minRate
        BY <1>2 DEF CommandInv, Command, Query
    <2> HIDE DEF d
    <2>11. ReplacedCounted(d)
        BY <1>2, <2>7, <2>8, <2>10 DEF ReplacedCounted
    <2>12. CommandKnown(d) /\ AncestorsPaid(d) /\ PrevSelected(d)
        BY <1>2, <2>10 DEF CommandInv, CommandKnown, AncestorsPaid, PrevSelected
    <2>13. ReplacementSound(d) /\ PackageSound(d)
        BY <1>2, <2>10 DEF ReplacementSound, PackageSound
    <2>14. QED BY <1>2, <2>4, <2>6, <2>9, <2>10, <2>11, <2>12, <2>13 DEF CommandInv
<1>5. QED BY <1>3, <1>4

\* The feerate of a replacement is not below the least one.
LEMMA CheckFeerateStep == ASSUME SpendInv, CheckFeerate PROVE CommandInv(cmd')
<1> DEFINE rate == IF cmd.cancel THEN cmd.minRate ELSE cmd.q.rate
           d == [cmd EXCEPT !.at = "confirmed", !.q = [cmd.q EXCEPT !.rate = rate]]
<1>1. CommandInv(cmd) /\ cmd.at = "entries"
    BY DEF SpendInv, CheckFeerate
<1>2. cmd.minRate \in Nat /\ cmd.q.rate \in Nat
    BY <1>1 DEF CommandInv, Command, Query
<1>3. (cmd' = d /\ rate >= cmd.minRate) \/ cmd' = NoCmd
    <2>1. CASE cmd.cancel
        BY <1>2, <2>1 DEF CheckFeerate, Give
    <2>2. CASE ~cmd.cancel
        <3>1. CASE cmd.q.rate >= cmd.minRate
            <4>1. cmd' = [cmd EXCEPT !.at = "confirmed"]
                BY <2>2, <3>1 DEF CheckFeerate, Give
            <4>2. [cmd.q EXCEPT !.rate = cmd.q.rate] = cmd.q
                BY <1>1 DEF CommandInv, Command, Query
            <4>3. [cmd EXCEPT !.at = "confirmed", !.q = cmd.q] = [cmd EXCEPT !.at = "confirmed"]
                BY <1>1 DEF CommandInv, Command
            <4>4. rate = cmd.q.rate
                BY <2>2
            <4>5. QED BY <3>1, <4>1, <4>2, <4>3, <4>4
        <3>2. CASE ~(cmd.q.rate >= cmd.minRate)
            BY <2>2, <3>2 DEF CheckFeerate, Give
        <3>3. QED BY <3>1, <3>2
    <2>3. QED BY <2>1, <2>2
<1>4. rate \in Nat
    BY <1>2
<1> HIDE DEF rate
<1>5. ASSUME rate >= cmd.minRate PROVE CommandInv(d)
    <2>1. d \in Command
        BY <1>1, <1>4 DEF CommandInv, Command, Query
    <2>2. /\ d.at = "confirmed" /\ d.q.must = cmd.q.must /\ d.q.cands = cmd.q.cands
          /\ d.q.rate = rate /\ d.q.rbf = cmd.q.rbf
          /\ d.q.replaced = cmd.q.replaced
          /\ d.cancel = cmd.cancel /\ d.prev = cmd.prev
          /\ d.direct = cmd.direct /\ d.evicted = cmd.evicted /\ d.minRate = cmd.minRate
        BY <1>1 DEF CommandInv, Command, Query
    <2> HIDE DEF d
    <2>3. ReplacedCounted(d) /\ PrevSelected(d)
        BY <1>1, <1>5, <2>2 DEF CommandInv, ReplacedCounted, PrevSelected
    <2>4. CommandKnown(d) /\ AncestorsPaid(d)
        BY <1>1, <2>2 DEF CommandInv, CommandKnown, AncestorsPaid
    <2>5. ReplacementSound(d) /\ PackageSound(d)
        BY <2>2 DEF ReplacementSound, PackageSound
    <2>6. QED BY <1>1, <2>1, <2>2, <2>3, <2>4, <2>5 DEF CommandInv
<1>6. QED BY <1>3, <1>5, NoCmdInv

\* The coins of the replaced transaction are candidates.
LEMMA ReadConfirmedStep == ASSUME SpendInv, ReadConfirmed PROVE CommandInv(cmd')
<1> DEFINE more == ConfirmedCoins \ cmd.prev
           cands == IF cmd.cancel THEN cmd.prev ELSE cmd.prev \cup more
           must == IF cmd.cancel THEN {} ELSE cmd.prev
           d == [cmd EXCEPT !.at = "create", !.more = more,
                            !.q = [cmd.q EXCEPT !.cands = cands, !.must = must]]
<1>1. CommandInv(cmd) /\ cmd.at = "confirmed"
    BY DEF SpendInv, ReadConfirmed
<1>2. cmd.prev \in SUBSET Utxo /\ more \in SUBSET Utxo
    BY <1>1 DEF CommandInv, Command, ConfirmedCoins
<1>3. cmd' = d
    BY DEF ReadConfirmed, Give
<1>4. /\ cands \in SUBSET Utxo /\ must \in SUBSET Utxo /\ must \subseteq cands
      /\ must = cmd.prev \/ (must = {} /\ cands = cmd.prev)
    BY <1>2
<1> HIDE DEF more, cands, must
<1>5. d \in Command
    BY <1>1, <1>2, <1>4 DEF CommandInv, Command, Query
<1>6. /\ d.at = "create" /\ d.q.must = must /\ d.q.cands = cands
      /\ d.q.rate = cmd.q.rate /\ d.q.rbf = cmd.q.rbf
      /\ d.q.replaced = cmd.q.replaced
      /\ d.cancel = cmd.cancel /\ d.prev = cmd.prev
      /\ d.direct = cmd.direct /\ d.evicted = cmd.evicted /\ d.minRate = cmd.minRate
    BY <1>1 DEF CommandInv, Command, Query
<1> HIDE DEF d
<1>7. ReplacedCounted(d) /\ PrevSelected(d)
    BY <1>1, <1>4, <1>6 DEF CommandInv, ReplacedCounted, PrevSelected
<1>8. CommandKnown(d) /\ AncestorsPaid(d)
    BY <1>1, <1>6 DEF CommandInv, CommandKnown, AncestorsPaid
<1>9. ReplacementSound(d) /\ PackageSound(d)
    BY <1>6 DEF ReplacementSound, PackageSound
<1>10. QED BY <1>1, <1>3, <1>4, <1>5, <1>6, <1>7, <1>8, <1>9 DEF CommandInv

\* The second attempt of a cancellation must spend them.
LEMMA InsufficientStep == ASSUME SpendInv, Insufficient PROVE CommandInv(cmd')
<1> DEFINE cands == cmd.q.cands \cup cmd.more
           d == [cmd EXCEPT !.q = [cmd.q EXCEPT !.must = cmd.q.cands, !.cands = cands],
                            !.more = {}]
<1>1. CommandInv(cmd) /\ cmd.at = "create"
    BY DEF SpendInv, Insufficient
<1>2. (cmd' = d /\ cmd.cancel /\ cmd.q.must = {}) \/ cmd' = NoCmd
    BY DEF Insufficient, Give, WithMore
<1>3. ASSUME cmd.cancel, cmd.q.must = {} PROVE CommandInv(d)
    <2>1. cmd.q.rbf /\ cmd.q.cands = cmd.prev
        BY <1>1, <1>3 DEF CommandInv, CommandKnown, PrevSelected
    <2>2. cmd.q.cands \in SUBSET Utxo /\ cands \in SUBSET Utxo /\ cmd.q.cands \subseteq cands
        BY <1>1 DEF CommandInv, Command, Query
    <2> HIDE DEF cands
    <2>3. d \in Command
        BY <1>1, <2>2 DEF CommandInv, Command, Query
    <2>4. /\ d.at = "create" /\ d.q.must = cmd.q.cands /\ d.q.cands = cands
          /\ d.q.rate = cmd.q.rate /\ d.q.rbf = cmd.q.rbf
          /\ d.q.replaced = cmd.q.replaced
          /\ d.cancel = cmd.cancel /\ d.prev = cmd.prev
          /\ d.direct = cmd.direct /\ d.evicted = cmd.evicted /\ d.minRate = cmd.minRate
        BY <1>1 DEF CommandInv, Command, Query
    <2> HIDE DEF d
    <2>5. ReplacedCounted(d) /\ PrevSelected(d)
        BY <1>1, <2>1, <2>4 DEF CommandInv, ReplacedCounted, PrevSelected
    <2>6. CommandKnown(d) /\ AncestorsPaid(d)
        BY <2>1, <2>4 DEF CommandKnown, AncestorsPaid
    <2>7. ReplacementSound(d) /\ PackageSound(d)
        BY <2>4 DEF ReplacementSound, PackageSound
    <2>8. QED BY <1>1, <2>2, <2>3, <2>4, <2>5, <2>6, <2>7 DEF CommandInv
<1>4. QED BY <1>2, <1>3, NoCmdInv

\* A fee for a rate that is above that of a transaction beats it, byte for byte.
LEMMA Outbids ==
    ASSUME NEW t \in SpendTx, NEW rate \in Nat, rate >= EntryRate(t),
           NEW size \in Nat \ {0}, NEW fee \in Nat, fee >= rate * size
    PROVE  fee * TxSize(t) > TxFee(t) * size
<1> DEFINE f == TxFee(t)
           s == TxSize(t)
           r == EntryRate(t)
<1>1. f \in Nat /\ s \in Nat \ {0} /\ r \in Nat /\ r = f \div s + 1
    BY TxFeeNat, TxSizeNat, EntryRateNat DEF EntryRate
<1>2. f < s * r
    <2> HIDE DEF f, s, r
    <2>1. f < s * (f \div s + 1)
        BY <1>1, DivBounds
    <2>2. QED BY <1>1, <2>1
<1> HIDE DEF f, s, r
<1>3. f * size < (s * r) * size
    <2>1. s * r \in Nat /\ f + 1 <= s * r
        BY <1>1, <1>2
    <2> DEFINE x == s * r
    <2> HIDE DEF x
    <2>2. x \in Nat /\ f + 1 <= x
        BY <2>1 DEF x
    <2>3. size * (f + 1) <= size * x
        BY <1>1, <2>2, TimesGrows
    <2>4. size * (f + 1) = size * f + size
        BY <1>1
    <2>5. size * f = f * size /\ size * x = x * size
        BY <1>1, <2>2
    <2>6. f * size \in Nat /\ x * size \in Nat
        BY <1>1, <2>2
    <2> DEFINE y == f * size
               z == x * size
    <2>7. y \in Nat /\ z \in Nat /\ y + size <= z
        BY <2>3, <2>4, <2>5, <2>6
    <2>8. y < z
        <3> HIDE DEF y, z
        <3>1. QED BY <2>7
    <2>9. QED BY <2>8 DEF x
<1>4. (s * r) * size <= s * fee
    <2>1. r * size <= rate * size
        <3>1. r <= rate
            BY <1>1 DEF r
        <3>2. size * r <= size * rate
            BY <1>1, <3>1, TimesGrows
        <3>3. QED BY <1>1, <3>2
    <2>2. rate * size \in Nat /\ r * size \in Nat
        BY <1>1
    <2>3. r * size <= fee
        <3> DEFINE a == r * size
                   b == rate * size
        <3>1. a \in Nat /\ b \in Nat /\ a <= b /\ b <= fee
            BY <2>1, <2>2
        <3>2. a <= fee
            <4> HIDE DEF a, b
            <4>1. QED BY <3>1
        <3>3. QED BY <3>2
    <2>4. s * (r * size) <= s * fee
        BY <1>1, <2>2, <2>3, TimesGrows
    <2>5. s * (r * size) = (s * r) * size
        BY <1>1
    <2>6. QED BY <2>4, <2>5
<1>5. s * fee = fee * s /\ s * fee \in Nat /\ f * size \in Nat /\ (s * r) * size \in Nat
    BY <1>1
<1>6. fee * s > f * size
    <2> DEFINE a == f * size
               b == (s * r) * size
               c == s * fee
    <2>1. a \in Nat /\ b \in Nat /\ c \in Nat /\ a < b /\ b <= c /\ c = fee * s
        BY <1>3, <1>4, <1>5
    <2>2. c > a
        <3> HIDE DEF a, b, c
        <3>1. QED BY <2>1
    <2>3. QED BY <2>1, <2>2
<1>7. QED BY <1>6 DEF f, s

\* The transaction that is made has the properties.
LEMMA CreateTxStep == ASSUME SpendInv, CreateTx PROVE CommandInv(cmd')
<1>1. CommandInv(cmd) /\ cmd.at = "create"
    BY DEF SpendInv, CreateTx
<1>2. PICK coins \in Selections(cmd.q) :
          cmd' = IF Sane(cmd.q, Spend(cmd.q, coins))
                 THEN [cmd EXCEPT !.at = "made", !.tx = Spend(cmd.q, coins)]
                 ELSE NoCmd
    BY DEF CreateTx, Give
<1> DEFINE tx == Spend(cmd.q, coins)
           extra == Total(cmd.q.extra, coins)
           d == [cmd EXCEPT !.at = "made", !.tx = tx]
<1>3. cmd' = d \/ cmd' = NoCmd
    BY <1>2
<1>4. /\ cmd.q \in Query /\ coins \in SUBSET Utxo /\ Meets(cmd.q, coins)
      /\ cmd.q.must \subseteq coins /\ coins \subseteq cmd.q.cands
    BY <1>1 DEF CommandInv, Command, Query, Selections
<1>5. /\ tx.ins = coins /\ coins # {}
      /\ tx.size \in Nat \ {0} /\ tx.fee \in Nat
      /\ tx.fee >= cmd.q.rate * (tx.size + extra)
      /\ cmd.q.rbf => tx.fee >= cmd.q.replaced + tx.size + extra
    BY <1>4, SpendPays
<1>6. tx \in [ins : SUBSET Utxo, size : Nat, fee : Nat]
    BY <1>4, <1>5 DEF Spend
<1>7. extra \in Nat /\ \A u \in coins : extra >= cmd.q.extra[u]
    BY <1>4, ExtraNat
<1>8. cmd.q.rate \in Nat /\ cmd.q.replaced \in Nat
    BY <1>4 DEF Query
<1> HIDE DEF tx, extra
<1>9. d \in Command
    BY <1>1, <1>6 DEF CommandInv, Command
<1>10. /\ d.at = "made" /\ d.q = cmd.q /\ d.ancestry = cmd.ancestry /\ d.cancel = cmd.cancel
       /\ d.prev = cmd.prev /\ d.direct = cmd.direct /\ d.evicted = cmd.evicted
       /\ d.minRate = cmd.minRate /\ d.tx = tx
    BY <1>1 DEF CommandInv, Command
<1> HIDE DEF d
<1>11. CommandKnown(d) /\ AncestorsPaid(d) /\ ReplacedCounted(d) /\ PrevSelected(d)
    BY <1>1, <1>10 DEF CommandInv, CommandKnown, AncestorsPaid, ReplacedCounted, PrevSelected
\* The fee is at least the rate for the transaction itself.
<1>12. tx.fee >= cmd.q.rate * tx.size
    <2>1. tx.size + extra \in Nat /\ tx.size <= tx.size + extra
        BY <1>5, <1>7
    <2>2. cmd.q.rate * tx.size <= cmd.q.rate * (tx.size + extra)
        BY <1>5, <1>8, <2>1, TimesGrows
    <2>3. cmd.q.rate * tx.size \in Nat /\ cmd.q.rate * (tx.size + extra) \in Nat
        BY <1>5, <1>8, <2>1
    <2> DEFINE a == cmd.q.rate * tx.size
               b == cmd.q.rate * (tx.size + extra)
    <2>4. a \in Nat /\ b \in Nat /\ a <= b /\ b <= tx.fee
        BY <1>5, <2>2, <2>3
    <2>5. a <= tx.fee
        <3> HIDE DEF a, b
        <3>1. QED BY <1>5, <2>4
    <2>6. QED BY <2>5, <1>5, <2>3
<1>13. ReplacementSound(d)
    <2> SUFFICES ASSUME cmd.q.rbf
                 PROVE  /\ tx.fee >= FeesOf(cmd.evicted) + tx.size
                        /\ \A t \in cmd.direct : tx.fee * TxSize(t) > TxFee(t) * tx.size
                        /\ tx.ins \cap cmd.prev # {}
        BY <1>10 DEF ReplacementSound
    <2>1. tx.fee >= FeesOf(cmd.evicted) + tx.size
        <3>1. FeesOf(cmd.evicted) <= cmd.q.replaced /\ FeesOf(cmd.evicted) \in Nat
            BY <1>1, FeesAndSizes DEF CommandInv, Command, ReplacedCounted
        <3>2. QED BY <1>5, <1>7, <1>8, <3>1
    <2>2. ASSUME NEW t \in cmd.direct
          PROVE  tx.fee * TxSize(t) > TxFee(t) * tx.size
        <3>1. t \in SpendTx /\ EntryRate(t) <= cmd.minRate /\ cmd.q.rate >= cmd.minRate
              /\ cmd.minRate \in Nat
            BY <1>1 DEF CommandInv, Command, ReplacedCounted
        <3>2. EntryRate(t) \in Nat
            BY <3>1, EntryRateNat
        <3>3. cmd.q.rate >= EntryRate(t)
            BY <1>8, <3>1, <3>2
        <3>4. QED BY <1>5, <1>8, <1>12, <3>1, <3>3, Outbids
    <2>3. tx.ins \cap cmd.prev # {}
        BY <1>1, <1>4, <1>5 DEF CommandInv, PrevSelected
    <2>4. QED BY <2>1, <2>2, <2>3
<1>14. PackageSound(d)
    <2> SUFFICES ASSUME ~cmd.q.rbf, NEW u \in coins
                 PROVE  tx.fee + FeesOf(cmd.ancestry[u])
                            >= cmd.q.rate * (tx.size + SizeOf(cmd.ancestry[u]))
        BY <1>5, <1>10 DEF PackageSound
    <2> DEFINE r == cmd.q.rate
               x == cmd.q.extra[u]
               fees == FeesOf(cmd.ancestry[u])
               sizes == SizeOf(cmd.ancestry[u])
               size == tx.size
               fee == tx.fee
    <2>1. /\ r \in Nat /\ x \in Nat /\ fees \in Nat /\ sizes \in Nat
          /\ size \in Nat /\ fee \in Nat
        <3>1. u \in Utxo /\ cmd.ancestry[u] \in SUBSET SpendTx
            BY <1>1, <1>4 DEF CommandInv, Command
        <3>2. x \in Nat
            BY <1>4, <3>1 DEF Query
        <3>3. QED BY <1>5, <1>8, <3>1, <3>2, FeesAndSizes
    <2>2. r * x + fees >= r * sizes
        BY <1>1, <1>4 DEF CommandInv, AncestorsPaid
    <2>3. fee >= r * (size + extra) /\ x <= extra
        BY <1>5, <1>7
    <2> HIDE DEF r, x, fees, sizes, size, fee
    <2>4. r * (size + extra) = r * size + r * extra /\ r * (size + sizes) = r * size + r * sizes
        BY <1>7, <2>1
    <2>5. r * x <= r * extra
        BY <1>7, <2>1, <2>3, TimesGrows
    <2> DEFINE a == r * size
               b == r * extra
               c == r * x
               e == r * sizes
    <2>6. a \in Nat /\ b \in Nat /\ c \in Nat /\ e \in Nat
        BY <1>7, <2>1
    <2>7. c + fees >= e /\ fee >= a + b /\ c <= b /\ r * (size + sizes) = a + e
        BY <2>2, <2>3, <2>4, <2>5
    <2>8. fee + fees >= a + e
        <3> HIDE DEF a, b, c, e
        <3>1. QED BY <2>1, <2>6, <2>7
    <2>9. fee + fees >= r * (size + sizes)
        BY <2>7, <2>8
    <2>10. QED BY <2>9 DEF fee, fees, r, size, sizes
<1>15. d.q.must \subseteq d.q.cands /\ d.direct \subseteq d.evicted
    BY <1>1, <1>10 DEF CommandInv
<1>16. CommandInv(d)
    BY <1>9, <1>11, <1>13, <1>14, <1>15 DEF CommandInv
<1>17. QED BY <1>3, <1>16, NoCmdInv

\* Every step keeps the invariant.
LEMMA SpendInvKept == SpendInv /\ [SpendingNext]_spendingVars => SpendInv'
<1> SUFFICES ASSUME SpendInv, [SpendingNext]_spendingVars PROVE SpendInv'
    OBVIOUS
<1>1. ASSUME UNCHANGED <<node, polled>>, CommandInv(cmd') PROVE SpendInv'
    BY <1>1 DEF SpendInv
<1>2. CASE NodeMoves
    BY <1>2 DEF NodeMoves, SpendInv
<1>3. CASE PollCoins
    BY <1>3 DEF PollCoins, SpendInv
<1>4. CASE AskSpend
    BY <1>1, <1>4, AskSpendStep DEF AskSpend, Give
<1>5. CASE ReadCoins
    BY <1>1, <1>5, ReadCoinsStep DEF ReadCoins, Give
<1>6. CASE ReadAncestors
    BY <1>1, <1>6, ReadAncestorsStep DEF ReadAncestors, Give
<1>7. CASE HaveAncestors
    BY <1>1, <1>7, HaveAncestorsStep DEF HaveAncestors, Give
<1>8. CASE AskRbf
    BY <1>1, <1>8, AskRbfStep DEF AskRbf, Give
<1>9. CASE ReadInputs
    BY <1>1, <1>9, ReadInputsStep DEF ReadInputs, Give
<1>10. CASE ListSpenders
    BY <1>1, <1>10, ListSpendersStep DEF ListSpenders, Give
<1>11. CASE ReadSpender
    BY <1>1, <1>11, ReadSpenderStep DEF ReadSpender, Give
<1>12. CASE CheckFeerate
    BY <1>1, <1>12, CheckFeerateStep DEF CheckFeerate, Give
<1>13. CASE ReadConfirmed
    BY <1>1, <1>13, ReadConfirmedStep DEF ReadConfirmed, Give
<1>14. CASE CreateTx
    BY <1>1, <1>14, CreateTxStep DEF CreateTx, Give
<1>15. CASE Insufficient
    BY <1>1, <1>15, InsufficientStep DEF Insufficient, Give
<1>16. CASE Answer
    BY <1>1, <1>16, NoCmdInv DEF Answer, Give
<1>17. CASE UNCHANGED spendingVars
    BY <1>17 DEF spendingVars, SpendInv
<1>18. QED BY <1>2, <1>3, <1>4, <1>5, <1>6, <1>7, <1>8, <1>9, <1>10, <1>11, <1>12, <1>13,
               <1>14, <1>15, <1>16, <1>17 DEF SpendingNext

\* The invariant holds in every reachable state.
LEMMA SpendInvariant == SpendingSpec => []SpendInv
<1>1. SpendingInit => SpendInv
    BY NoCmdInv DEF SpendingInit, SpendInv, View
<1>2. QED BY <1>1, SpendInvKept, PTL DEF SpendingSpec

\* Sizes, fees and what a coin adds for its ancestors are never negative, and what a
\* command may and must spend are coins of the wallet, for any transactions and coins.
THEOREM SpendingTyped == SpendingSpec => []SpendingTypeOK
<1>1. SpendInv => SpendingTypeOK
    BY SpendInvImplies
<1>2. QED BY <1>1, SpendInvariant, PTL

\* rbfpsbt pays for all that goes with the transactions it replaces, and for its own size,
\* whatever the node's mempool becomes while it asks (rules 3 and 4).
THEOREM Pays == SpendingSpec => []ReplacementPays
<1>1. SpendInv => ReplacementPays
    BY SpendInvImplies
<1>2. QED BY <1>1, SpendInvariant, PTL

\* It beats the feerate of each of them, although only whole satoshis per byte are
\* compared (rule 6).
THEOREM Beats == SpendingSpec => []BeatsFeerate
<1>1. SpendInv => BeatsFeerate
    BY SpendInvImplies
<1>2. QED BY <1>1, SpendInvariant, PTL

\* It spends a coin of the transaction it is to replace, at the first and at the second
\* attempt of a cancellation, too.
THEOREM Conflicts == SpendingSpec => []Conflicting
<1>1. SpendInv => Conflicting
    BY SpendInvImplies
<1>2. QED BY <1>1, SpendInvariant, PTL

\* createspend pays for the ancestors of each of the coins it spends, as the node described
\* them, up to the feerate it was asked for (select_coins_for_spend()).
THEOREM PaysForAncestors == SpendingSpec => []PackagePays
<1>1. SpendInv => PackagePays
    BY SpendInvImplies
<1>2. QED BY <1>1, SpendInvariant, PTL
=================================================================================
