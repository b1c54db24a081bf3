------------------------------ MODULE WeightSetter ------------------------------
(***************************************************************************)
(* The thin validator's weight-setter: the durable intent ledger           *)
(* (vidaio/weightsetter/intents.py), the attempt loop and its two ways of  *)
(* learning what the chain holds (vidaio/weightsetter/service.py), and the *)
(* part of the chain adapter they go through                               *)
(* (vidaio/chain/bittensor_adapter.py, set_weights and submitted_weights). *)
(*                                                                         *)
(* A row is written before the non-idempotent set_weights call.  The call  *)
(* may be refused, may be broadcast and land late, may be broadcast and    *)
(* never land, and the process may die anywhere in between.  What a row    *)
(* may be settled as is decided only by reading the chain's vector back.   *)
(*                                                                         *)
(* Publication of an accepted row is the subject of module Publication.    *)
(***************************************************************************)
EXTENDS Integers, Sequences

CONSTANTS
    Vectors,        \* weight vectors, up to a positive rescaling
    Near,           \* pairs of vectors weights_match calls equal (one u16 step)
    Epochs,         \* authority epoch ids
    VectorOf,       \* the vector the authenticated epoch log states for an epoch
    CommitReveal,   \* the subnet's CRv4 mode
    RetryAttempts,  \* config.chain_retry_attempts
    AbandonAge,     \* config.abandon_denied_intent_after_seconds, in blocks
    SnapshotMaxAge, \* config.max_chain_snapshot_age_seconds, in blocks
    RateLimit,      \* the subnet's weights_rate_limit, in blocks
    Mortality,      \* how long a broadcast extrinsic may still be included
    FinalityLag,    \* how far the finalized head trails the best head
    SubmitWindow,   \* how long after its row a submission's last broadcast is
    MaxBlock,       \* bound of the model: the last block
    MaxIntents      \* bound of the model: rows recorded

ASSUME ConstantsAssumption ==
    /\ CommitReveal \in BOOLEAN
    /\ RetryAttempts \in Nat \ {0}
    /\ {AbandonAge, SnapshotMaxAge, RateLimit, Mortality, FinalityLag,
          SubmitWindow, MaxIntents} \subseteq Nat
    /\ MaxBlock \in Nat \ {0}
    /\ Vectors # {}
    /\ Epochs \subseteq Nat
    /\ VectorOf \in [Epochs -> Vectors]

(* weights_match is reflexive and symmetric; it is not transitive.         *)
ASSUME NearAssumption ==
    /\ Near \subseteq Vectors \X Vectors
    /\ \A v \in Vectors : <<v, v>> \in Near
    /\ \A v, w \in Vectors : <<v, w>> \in Near => <<w, v>> \in Near

(* The settle window of a denied row outlives every extrinsic the row's    *)
(* submission could still have in flight, and the finality lag of the read *)
(* that denies it.                                                         *)
ASSUME SettleWindowAssumption ==
    AbandonAge > SubmitWindow + Mortality + FinalityLag

VARIABLES
    \* the chain, as far as this validator's hotkey is concerned (external)
    block,    \* the best head
    last,     \* LastUpdate of the hotkey
    pool,     \* broadcast extrinsics that may still be included
    commits,  \* timelocked commits, pending (gone = 0) or past
    weights,  \* what Weights held for the hotkey at the end of each block
    \* weight_intents, durable
    rows,
    \* the process, lost in a crash
    pc,       \* where the attempt loop is
    seen,     \* the head of the last successful refresh; Never before it
    holds,    \* _legacy_cr_holds
    todo,     \* rows the running reconcile pass has still to visit
    cur,      \* the row being submitted
    tries,    \* set_weights calls made for it
    amb,      \* _submit's `ambiguous`
    sentAt    \* live_view.block of the last broadcast

chain   == <<block, last, pool, commits, weights>>
submit  == <<cur, tries, amb, sentAt>>
process == <<pc, seen, holds, todo, cur, tries, amb, sentAt>>
vars    == <<chain, rows, process>>

Never == -1
Blocks == 0 .. MaxBlock
Ids == DOMAIN rows

(* weight_intents.resolution.  "chain_accepted": set_weights returned its  *)
(* proof; "chain_confirmed": the vector was read back after an ambiguous   *)
(* attempt, a restart or a reveal.                                         *)
Resolutions == {"null", "commit_reveal_pending", "chain_accepted",
                "chain_confirmed", "denied"}

Extrinsic == [id : Nat, vec : Vectors, sent : Blocks, try : Nat]
Commit    == [id : Nat, vec : Vectors, at : Blocks, gone : Blocks]
Record    == [id : Nat, vec : Vectors, at : Blocks, date : Blocks]
Row       == [state  : {"pending", "accepted", "abandoned"},
              cause  : Resolutions,
              vec    : Vectors,
              form   : {"composed", "u16"},
              epoch  : Epochs,
              attempt: Blocks,   \* attempt_block: the cached head
              born   : Blocks,   \* created_at
              block  : Blocks,   \* accepted_block
              by     : Nat]      \* ghost: the row whose write was read back

(* Weights is empty.  Its date precedes every attempt, so an empty answer  *)
(* is dated like a vector recorded before the attempt.                     *)
NoWeights == [id |-> 0, vec |-> CHOOSE v \in Vectors : TRUE, at |-> 0, date |-> 0]

Submitting == {"write", "inflight", "reread", "lastread"}

Matches(v, w) == <<v, w>> \in Near
Pending == {i \in Ids : rows[i].state = "pending"}
LegacyIntents == {i \in Pending : rows[i].cause = "null"}
PendingReveals == {i \in Pending : rows[i].cause = "commit_reveal_pending"}

(* _chain_state_reason() is None: the cached snapshot may be acted upon.   *)
UsableAt(s) == s # Never /\ block - s <= SnapshotMaxAge
Usable == UsableAt(seen)

-----------------------------------------------------------------------------
(* Reading the chain back.                                                 *)

(* A commit is pending at block f.  submitted_weights raises then.         *)
CommitPendingAt(f) ==
    \E c \in commits : c.at <= f /\ (c.gone = 0 \/ c.gone > f)

FinalizedHeads == {f \in Blocks : f <= block /\ block <= f + FinalityLag}

(* Mutant: twins are recognised by equality, stricter than the match.      *)
TwinExistsExact(i, r) ==
    \E j \in Ids \ {i} :
        /\ rows[j].attempt <= r.date
        /\ rows[j].attempt >= rows[i].attempt
        /\ rows[i].vec = rows[j].vec

(* Another row, of any state, could equally be the author of record r.     *)
TwinExists(i, r) ==
    \E j \in Ids \ {i} :
        /\ rows[j].attempt <= r.date
        /\ rows[j].attempt >= rows[i].attempt
        /\ Matches(r.vec, rows[j].vec)

(* The three verdicts of _chain_evidence, read at finalized block f.       *)
(* UNKNOWN is neither of the two.                                          *)
Confirmed(i, f) ==
    /\ ~CommitPendingAt(f)
    /\ Matches(weights[f].vec, rows[i].vec)
    /\ weights[f].date >= rows[i].attempt
    /\ ~TwinExists(i, weights[f])

Denied(i, f) ==
    /\ ~CommitPendingAt(f)
    /\ rows[i].cause # "commit_reveal_pending"
    /\ weights[f].date < rows[i].attempt

-----------------------------------------------------------------------------
(* Writing the ledger.                                                     *)

(* Mutant: acceptance and the vector rewrite are two commits and the       *)
(* second is lost.                                                         *)
AcceptedWithoutVector(row, r, how) ==
    [row EXCEPT !.state = "accepted", !.cause = how,
                !.block = r.date, !.by = r.id]

(* accept_with_vector: the state change and the rewrite to the reported    *)
(* vector, on the canonical u16 grid, in one transaction.                  *)
Accepted(row, r, how) ==
    [row EXCEPT !.state = "accepted", !.cause = how,
                !.vec = r.vec, !.form = "u16",
                !.block = r.date, !.by = r.id]

(* mark_abandoned *)
Abandoned(row) == [row EXCEPT !.state = "abandoned", !.cause = "denied"]

(* note_commit_reveal_pending, for every row of S *)
Labelled(S) ==
    [i \in Ids |-> IF i \in S
                   THEN [rows[i] EXCEPT !.cause = "commit_reveal_pending"]
                   ELSE rows[i]]

(* Mutant: the floor is the last settled epoch only.                       *)
AcceptedFloor(e) ==
    \A i \in Ids : rows[i].state = "accepted" => rows[i].epoch <= e

(* latest_snapshot_epoch_id: the highest epoch of any row, of any state.   *)
AboveFloor(e) == \A i \in Ids : rows[i].epoch <= e

-----------------------------------------------------------------------------
Init ==
    /\ block = 1 /\ last = 0 /\ pool = {} /\ commits = {}
    /\ weights = [b \in Blocks |-> NoWeights]
    /\ rows = <<>>
    /\ pc = "idle" /\ seen = Never /\ holds = {} /\ todo = {}
    /\ cur = 0 /\ tries = 0 /\ amb = FALSE /\ sentAt = 0

-----------------------------------------------------------------------------
(* The chain (external): blocks, inclusion, reveals.                       *)

Tick ==
    /\ block < MaxBlock
    /\ block' = block + 1
    /\ weights' = [weights EXCEPT ![block + 1] = weights[block]]
    /\ UNCHANGED <<last, pool, commits, rows, process>>

RateLimited == last > 0 /\ block - last <= RateLimit

(* A broadcast extrinsic is included: a vector, or a commit in CRv4 mode.  *)
Include(x) ==
    /\ x \in pool
    /\ block <= x.sent + Mortality
    /\ ~RateLimited
    /\ pool' = pool \ {x}
    /\ last' = block
    /\ IF CommitReveal
       THEN /\ commits' = commits \cup
                   {[id |-> x.id, vec |-> x.vec, at |-> block, gone |-> 0]}
            /\ UNCHANGED weights
       ELSE /\ weights' = [weights EXCEPT ![block] =
                   [id |-> x.id, vec |-> x.vec, at |-> block, date |-> block]]
            /\ UNCHANGED commits
    /\ UNCHANGED <<block, rows, process>>

(* An extrinsic is evicted, or expires.                                    *)
Evict(x) ==
    /\ x \in pool
    /\ pool' = pool \ {x}
    /\ UNCHANGED <<block, last, commits, weights, rows, process>>

(* The drand round passes: the chain reveals the commit and Weights holds  *)
(* its vector, dated by the commit or by the reveal.                       *)
Reveal(c) ==
    /\ c \in commits /\ c.gone = 0 /\ c.at < block
    /\ commits' = (commits \ {c}) \cup {[c EXCEPT !.gone = block]}
    /\ weights[block].at < block
    /\ \E d \in {c.at, block} :
          weights' = [weights EXCEPT ![block] =
              [id |-> c.id, vec |-> c.vec, at |-> block, date |-> d]]
    /\ UNCHANGED <<block, last, pool, rows, process>>

(* A commit the chain cannot reveal disappears.                            *)
LoseCommit(c) ==
    /\ c \in commits /\ c.gone = 0 /\ c.at < block
    /\ commits' = (commits \ {c}) \cup {[c EXCEPT !.gone = block]}
    /\ UNCHANGED <<block, last, pool, weights, rows, process>>

Chain ==
    \/ Tick
    \/ \E x \in pool : Include(x) \/ Evict(x)
    \/ \E c \in commits : Reveal(c) \/ LoseCommit(c)

-----------------------------------------------------------------------------
(* The attempt loop: refresh, reconcile, gates, record.                    *)

(* Head of attempt_once: a refresh that may fail.                          *)
BeginAttempt ==
    /\ pc = "idle"
    /\ pc' = "legacy"
    /\ seen' \in {seen, block}
    /\ UNCHANGED <<chain, rows, holds, todo, submit>>

(* _recover_legacy_cr_intents, and the head of reconcile: one more refresh *)
(* when the snapshot is unusable; the pending branch is deferred when it   *)
(* stays so.                                                               *)
RecoverLegacy ==
    /\ pc = "legacy"
    /\ pc' = "rows"
    /\ seen' \in IF Usable THEN {seen} ELSE {seen, block}
    /\ \/ /\ holds' = {}
          /\ rows' = IF CommitReveal THEN Labelled(LegacyIntents) ELSE rows
       \/ /\ LegacyIntents # {}      \* the mode could not be read
          /\ holds' = LegacyIntents
          /\ UNCHANGED rows
    /\ todo' = IF UsableAt(seen') THEN Pending \ holds' ELSE {}
    /\ UNCHANGED <<chain, submit>>

(* Between attempts: reconcile(pending_reveals_only=True).                 *)
PollReveals ==
    /\ pc = "idle"
    /\ PendingReveals # {}
    /\ pc' = "poll"
    /\ seen' \in IF Usable THEN {seen} ELSE {seen, block}
    /\ todo' = IF UsableAt(seen') THEN PendingReveals ELSE {}
    /\ UNCHANGED <<chain, rows, holds, submit>>

(* Mutant: a denied row is abandoned at once.                              *)
SettleAtAnyAge(i, f) ==
    \/ /\ Confirmed(i, f)
       /\ rows' = [rows EXCEPT ![i] = Accepted(@, weights[f], "chain_confirmed")]
    \/ /\ Denied(i, f)
       /\ rows' = [rows EXCEPT ![i] = Abandoned(@)]
    \/ /\ ~Confirmed(i, f)
       /\ ~Denied(i, f)
       /\ UNCHANGED rows

(* What reconcile makes of one pending row on the evidence at f.           *)
Settle(i, f) ==
    \/ /\ Confirmed(i, f)
       /\ rows' = [rows EXCEPT ![i] = Accepted(@, weights[f], "chain_confirmed")]
    \/ /\ Denied(i, f)
       /\ block - rows[i].born >= AbandonAge
       /\ rows' = [rows EXCEPT ![i] = Abandoned(@)]
    \/ /\ ~Confirmed(i, f)
       /\ ~(Denied(i, f) /\ block - rows[i].born >= AbandonAge)
       /\ UNCHANGED rows

(* The loop body of reconcile for its oldest unvisited pending row: the    *)
(* evidence is read fresh, or the read fails and the verdict is UNKNOWN.   *)
ReconcileRow ==
    /\ pc \in {"rows", "poll"}
    /\ \E i \in todo :
          /\ \A j \in todo : i <= j
          /\ todo' = todo \ {i}
          /\ \/ UNCHANGED <<rows, seen>>
             \/ /\ seen' = block
                /\ \E f \in FinalizedHeads : Settle(i, f)
    /\ UNCHANGED <<chain, pc, holds, submit>>

(* The pass raises half way: the attempt, or the wait, goes on.            *)
ReconcileRaises ==
    /\ pc \in {"rows", "poll"}
    /\ todo # {}
    /\ todo' = {}
    /\ UNCHANGED <<chain, rows, pc, seen, holds, submit>>

(* The attempt writes nothing: an unusable snapshot, a commit-reveal hold, *)
(* an unavailable or refused epoch log, a failed binding; or a poll ends.  *)
Hold ==
    /\ pc \in {"rows", "poll"}
    /\ todo = {}
    /\ pc' = "idle"
    /\ UNCHANGED <<chain, rows, seen, holds, todo, submit>>

(* Mutant: the hold on unreadable commit-reveal mode is not consulted.     *)
GatesOpenIgnoringHolds ==
    /\ Usable
    /\ PendingReveals = {}
    /\ ~CommitPendingAt(block)

(* The gates of attempt_once between reconcile and the snapshot fetch.     *)
GatesOpen ==
    /\ Usable
    /\ holds = {}
    /\ PendingReveals = {}
    /\ ~CommitPendingAt(block)

(* record_intent: the authenticated vector of epoch e becomes a durable    *)
(* row, dated by the cached head, before anything is written to the chain. *)
RecordIntent(e) ==
    /\ pc = "rows" /\ todo = {}
    /\ GatesOpen
    /\ AboveFloor(e)
    /\ Len(rows) < MaxIntents
    /\ rows' = Append(rows,
          [state |-> "pending", cause |-> "null", vec |-> VectorOf[e],
           form |-> "composed", epoch |-> e, attempt |-> seen, born |-> block,
           block |-> 0, by |-> 0])
    /\ pc' = "write"
    /\ cur' = Len(rows) + 1
    /\ tries' = 0 /\ amb' = FALSE /\ sentAt' = 0
    /\ UNCHANGED <<chain, seen, holds, todo>>

-----------------------------------------------------------------------------
(* _submit: the bounded retry around set_weights.                          *)

(* The attempt is over; its local variables go with it.                    *)
Done ==
    /\ pc' = "idle"
    /\ cur' = 0 /\ tries' = 0 /\ amb' = FALSE /\ sentAt' = 0

(* A synchronous rejection settles the row only when no earlier write of   *)
(* it is ambiguous; otherwise the chain is read once more.                 *)
Rejected ==
    \/ /\ ~amb
       /\ rows' = [rows EXCEPT ![cur] = Abandoned(@)]
       /\ Done
    \/ /\ amb
       /\ pc' = "lastread"
       /\ UNCHANGED <<rows, submit>>

(* set_weights returns without a write: no fresh metagraph, changed        *)
(* targets, an empty vector, or the rate-limit pre-gate.                   *)
RefuseLocally ==
    /\ pc = "write"
    /\ Rejected
    /\ UNCHANGED <<chain, seen, holds, todo>>

(* set_weights passes its pre-gate and broadcasts the extrinsic.           *)
Broadcast ==
    /\ pc = "write"
    /\ ~RateLimited
    /\ block <= rows[cur].born + SubmitWindow
    /\ pool' = pool \cup
          {[id |-> cur, vec |-> rows[cur].vec, sent |-> block, try |-> tries + 1]}
    /\ tries' = tries + 1
    /\ sentAt' = block
    /\ pc' = "inflight"
    /\ UNCHANGED <<block, last, commits, weights, rows, seen, holds, todo, cur, amb>>

(* The chain answers that it rejected the extrinsic.                       *)
ChainRejects ==
    /\ pc = "inflight"
    /\ \E x \in pool :
          /\ x.id = cur /\ x.try = tries
          /\ pool' = pool \ {x}
    /\ Rejected
    /\ UNCHANGED <<block, last, commits, weights, seen, holds, todo>>

(* TimeoutError or OSError: the extrinsic may or may not have landed.      *)
Ambiguous ==
    /\ pc = "inflight"
    /\ amb' = TRUE
    /\ pc' = IF tries < RetryAttempts THEN "reread" ELSE "lastread"
    /\ UNCHANGED <<chain, rows, seen, holds, todo, cur, tries, sentAt>>

(* _require_exact_finalized_weight_proof, on the finalized block f         *)
Proof(f) ==
    /\ ~CommitPendingAt(f)
    /\ weights[f].vec = rows[cur].vec
    /\ weights[f].date > sentAt

(* The SDK claims success without commit-reveal: the claim counts only     *)
(* once the exact vector is read back, dated after the pre-submit head.    *)
ClaimProven ==
    /\ pc = "inflight"
    /\ ~CommitReveal
    /\ \E f \in FinalizedHeads :
          /\ Proof(f)
          /\ rows' = [rows EXCEPT ![cur] = Accepted(@, weights[f], "chain_accepted")]
    /\ Done
    /\ UNCHANGED <<chain, seen, holds, todo>>

(* The SDK claims a finalized commitment: the row waits for its reveal.    *)
CommitClaimed ==
    /\ pc = "inflight"
    /\ CommitReveal
    /\ rows' = Labelled({cur})
    /\ Done
    /\ UNCHANGED <<chain, seen, holds, todo>>

(* After an ambiguous write the chain is asked before the next one, and    *)
(* once more at the end.  CONFIRMED stops; DENIED and UNKNOWN retry, or    *)
(* leave the row pending.                                                  *)
ReadBack ==
    /\ pc \in {"reread", "lastread"}
    /\ seen' \in {seen, block}
    /\ \/ \E f \in FinalizedHeads :
             /\ seen' = block
             /\ Confirmed(cur, f)
             /\ rows' = [rows EXCEPT ![cur] = Accepted(@, weights[f], "chain_confirmed")]
             /\ Done
       \/ /\ \/ seen' = seen
             \/ \E f \in FinalizedHeads : ~Confirmed(cur, f)
          /\ UNCHANGED rows
          /\ \/ /\ pc = "reread"
                /\ pc' = "write"
                /\ UNCHANGED submit
             \/ /\ pc = "lastread"
                /\ Done
    /\ UNCHANGED <<chain, holds, todo>>

(* Any other exception ends the attempt; the row stays pending.            *)
AttemptRaises ==
    /\ pc = "write"
    /\ Done
    /\ UNCHANGED <<chain, rows, seen, holds, todo>>

(* The process dies; only the ledger and the chain remain.                 *)
Crash ==
    /\ pc' = "idle" /\ seen' = Never /\ holds' = {} /\ todo' = {}
    /\ cur' = 0 /\ tries' = 0 /\ amb' = FALSE /\ sentAt' = 0
    /\ UNCHANGED <<chain, rows>>

Service ==
    \/ BeginAttempt \/ RecoverLegacy \/ PollReveals
    \/ ReconcileRow \/ ReconcileRaises \/ Hold
    \/ \E e \in Epochs : RecordIntent(e)
    \/ RefuseLocally \/ Broadcast \/ ChainRejects \/ Ambiguous
    \/ ClaimProven \/ CommitClaimed \/ ReadBack \/ AttemptRaises

Next == Chain \/ Service \/ Crash

Spec == Init /\ [][Next]_vars

-----------------------------------------------------------------------------
(* Properties.                                                             *)

(* Every variable stays in its domain; a submission is of the newest row,  *)
(* and a reconcile pass only revisits rows that are still pending.         *)
TypeOK ==
    /\ block \in Blocks /\ last \in Blocks
    /\ pool \subseteq Extrinsic
    /\ commits \subseteq Commit
    /\ weights \in [Blocks -> Record]
    /\ rows \in Seq(Row)
    /\ pc \in {"idle", "legacy", "rows", "poll"} \cup Submitting
    /\ seen \in Blocks \cup {Never}
    /\ holds \subseteq Ids
    /\ todo \subseteq Pending
    /\ pc \notin {"rows", "poll"} => todo = {}
    /\ cur = IF pc \in Submitting THEN Len(rows) ELSE 0
    /\ pc \in Submitting => rows # <<>> /\ rows[cur].state = "pending"
    /\ tries \in Nat /\ amb \in BOOLEAN
    /\ sentAt \in Blocks

(* An accepted row carries, in chain form, exactly the vector Weights held *)
(* at its accepted block, whichever way its acceptance was learned and     *)
(* wherever the process died on the way (accept_with_vector).              *)
AcceptedVectorWasOnChain ==
    \A i \in Ids : rows[i].state = "accepted" =>
        /\ rows[i].form = "u16"
        /\ \E b \in 1 .. block : /\ weights[b].vec = rows[i].vec
                               /\ weights[b].date = rows[i].block
                               /\ weights[b].id = rows[i].by

(* A later row's landing never confirms an earlier row, even when the two  *)
(* vectors are one u16 step apart (_identical_twin_exists).                *)
NoBackwardConfirmation ==
    \A i \in Ids : rows[i].state = "accepted" => rows[i].by <= i

(* An abandoned row never changed the chain and never will                 *)
(* (mark_abandoned): no write of it is on chain, or waits for its reveal.  *)
AbandonedNeverLands ==
    \A i \in Ids : rows[i].state = "abandoned" =>
        /\ \A b \in Blocks : weights[b].id # i
        /\ \A c \in commits : c.id # i

(* The epochs of recorded rows never regress, whatever the authority or a  *)
(* stale archive answers after a restart (latest_snapshot_epoch_id).       *)
EpochNonRegression ==
    \A i, j \in Ids : i < j => rows[i].epoch <= rows[j].epoch

(* Under commit-reveal at most one row is unsettled: nothing new is        *)
(* recorded while the fate of an earlier write is open (the commit-reveal  *)
(* gates of attempt_once).                                                 *)
OneOpenRowUnderCommitReveal ==
    CommitReveal => \A i, j \in Pending : i = j
=============================================================================
