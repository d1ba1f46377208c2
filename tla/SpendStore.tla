------------------------------- MODULE SpendStore -------------------------------
(***************************************************************************)
(* The stored drafts of spends: the commands `updatespend` and `delspendtx`   *)
(* (commands/mod.rs), which threads of the JSONRPC server run at the same      *)
(* time, and the table spend_transactions.  A draft is told by the signatures  *)
(* it has; each access to the database is a step.                              *)
(***************************************************************************)
EXTENDS Integers, FiniteSets

CONSTANTS
    Updater,    \* the threads
    Draft,      \* the transactions there are drafts of
    Signer,     \* who signs
    NoSigner    \* no signature of the taproot key path

ASSUME SpendStoreAssumption == NoSigner \notin Signer

VARIABLES
    stored,     \* spend_transactions: at most one Psbt for each draft
    update,     \* what a thread is doing
    ownCoins,   \* the drafts all inputs of which are coins in the database
    accepted,   \* the signatures of each draft that were given and stored
    raced       \* the drafts written by a thread while another one was updating them

storeVars == <<stored, update, ownCoins, accepted, raced>>

\* The signatures of an input: those by key, and the one of the taproot key path.
Psbt == [sigs : SUBSET Signer, keySig : Signer \cup {NoSigner}]

\* At most one row.
Rows == {{}} \cup {{p} : p \in Psbt}

NoUpdate == [at : {"idle"}]
Update == NoUpdate \cup [at : {"reading", "checking"}, draft : Draft, psbt : Psbt,
                         given : SUBSET Signer]
                   \cup [at : {"storing"}, draft : Draft, psbt : Psbt,
                         given : SUBSET Signer]

StoreTypeOK ==
    /\ stored \in [Draft -> Rows]
    /\ update \in [Updater -> Update]
    /\ ownCoins \subseteq Draft
    /\ accepted \in [Draft -> SUBSET Signer]
    /\ raced \subseteq Draft

StoreInit ==
    /\ stored = [d \in Draft |-> {}]
    /\ update = [t \in Updater |-> [at |-> "idle"]]
    /\ ownCoins \in SUBSET Draft
    /\ accepted = [d \in Draft |-> {}]
    /\ raced = {}

\* Somebody else is between the reading and the storing of a draft.
Updating(d, t) == \E u \in Updater \ {t} :
                     update[u].at \in {"checking", "storing"} /\ update[u].draft = d

MarkRace(d, t) == raced' = IF Updating(d, t) THEN raced \cup {d} ELSE raced

AskUpdate(t) ==
    /\ update[t].at = "idle"
    /\ \E d \in Draft, p \in Psbt :
          update' = [update EXCEPT ![t] = [at |-> "reading", draft |-> d, psbt |-> p,
                                           given |-> p.sigs]]
    /\ UNCHANGED <<stored, ownCoins, accepted, raced>>

\* A bug: the draft that came replaces the stored one.
Replace(old, new) == new

\* Signatures by key are added; the one of the key path is kept if there is one.
Merge(old, new) ==
    [sigs |-> old.sigs \cup new.sigs,
     keySig |-> IF old.keySig = NoSigner THEN new.keySig ELSE old.keySig]

\* spend_tx(), and the merge.
ReadDraft(t) ==
    /\ update[t].at = "reading"
    /\ \/ /\ stored[update[t].draft] = {}
          /\ update' = [update EXCEPT ![t].at = "checking"]
       \/ \E p \in stored[update[t].draft] :
             update' = [update EXCEPT ![t].at = "storing", ![t].psbt = Merge(p, @)]
    /\ UNCHANGED <<stored, ownCoins, accepted, raced>>

\* A draft that is new must spend our coins: "sanity check its inputs".
CheckCoins(t) ==
    /\ update[t].at = "checking"
    /\ update' = [update EXCEPT ![t] = IF update[t].draft \in ownCoins
                                       THEN [@ EXCEPT !.at = "storing"]
                                       ELSE [at |-> "idle"]]
    /\ UNCHANGED <<stored, ownCoins, accepted, raced>>

\* store_spend(), which inserts or updates.
StoreDraft(t) ==
    LET d == update[t].draft
    IN  /\ update[t].at = "storing"
        /\ stored' = [stored EXCEPT ![d] = {update[t].psbt}]
        /\ accepted' = [accepted EXCEPT ![d] = @ \cup update[t].given]
        /\ update' = [update EXCEPT ![t] = [at |-> "idle"]]
        /\ MarkRace(d, t)
        /\ UNCHANGED ownCoins

\* delete_spend()
DeleteDraft(t) ==
    /\ update[t].at = "idle"
    /\ \E d \in Draft :
          /\ stored' = [stored EXCEPT ![d] = {}]
          /\ accepted' = [accepted EXCEPT ![d] = {}]
          /\ MarkRace(d, t)
    /\ UNCHANGED <<update, ownCoins>>

\* The poller records the inputs of a draft, or removes one that expired.
CoinsChange ==
    /\ ownCoins' \in SUBSET Draft
    /\ UNCHANGED <<stored, update, accepted, raced>>

StoreNext ==
    \/ \E t \in Updater : AskUpdate(t) \/ ReadDraft(t) \/ CheckCoins(t)
                          \/ StoreDraft(t) \/ DeleteDraft(t)
    \/ CoinsChange

StoreSpec == StoreInit /\ [][StoreNext]_storeVars

-----------------------------------------------------------------------------
\* A signature that updatespend accepted stays until the draft is deleted ("merge the
\* signatures for each input on a best effort basis"), unless two updates of the draft,
\* or one and its deletion, overlapped: update_spend() reads and stores separately.
SignaturesKept ==
    \A d \in Draft \ raced :
        accepted[d] # {} => \E p \in stored[d] : accepted[d] \subseteq p.sigs

\* The signature of the key path is never replaced by another one, save for the same
\* overlap.
KeySigKept ==
    [][\A d \in Draft \ raced' : \A p \in stored[d], q \in stored'[d] :
          p.keySig \in {NoSigner, q.keySig}]_storeVars
=============================================================================
