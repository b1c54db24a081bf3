---------------------------- MODULE AuthorityAnchor ----------------------------
(***************************************************************************)
(* Anchoring a finalized epoch's digest on chain exactly once: the durable *)
(* submission protocol of vidaio/authority/anchoring.py, its journal and   *)
(* epoch index (vidaio/authority/index.py and its SQL triggers), the       *)
(* cross-process writer lane with its pending fence                        *)
(* (vidaio/chain/anchor_writer.py), and the confirmation of a signed hash  *)
(* (vidaio/chain/bittensor_adapter.py).                                    *)
(*                                                                         *)
(* The hotkey has one mutable commitment slot, written by the authority's  *)
(* processes and by other writers (weight publications, competitions).  A  *)
(* dispatch may be lost, may land late, and every process may die between  *)
(* any two durable writes.                                                 *)
(*                                                                         *)
(* A signed hash is the position of its submission in the journal; a hash  *)
(* that was signed and never recorded is never dispatched.                 *)
(***************************************************************************)
EXTENDS Integers, Sequences

CONSTANTS
    Procs,        \* processes of the authority
    MaxEpoch,     \* bound of the model: epochs
    Close,        \* the close block of each epoch
    K,            \* confirmation_depth: the anchor window, and the search tail
    Era,          \* the mortal period of a signed extrinsic
    FinalityLag,  \* how far the finalized head trails the best head
    MaxBlock,     \* bound of the model: the last block
    MaxForeign    \* bound of the model: writes of other writers

Epochs == 1 .. MaxEpoch
Blocks == 0 .. MaxBlock

ASSUME AnchorAssumption ==
    /\ MaxEpoch \in Nat /\ MaxBlock \in Nat \ {0}
    /\ K \in Nat /\ Era \in Nat /\ FinalityLag \in Nat
    /\ MaxForeign \in Nat
    /\ Close \in [Epochs -> Blocks]
    /\ Procs \cap {"foreign", "operator", "none"} = {}

VARIABLES
    \* the chain, as far as the anchor hotkey is concerned (external)
    block,    \* the best head
    wire,     \* dispatched anchor extrinsics that may still be included
    foreign,  \* another writer's dispatched extrinsic: the first hash signed
              \* after it; 0 without one
    inc,      \* included anchor extrinsics
    wrote,    \* the last commitment written in each block; 0 without one
    \* durable, of the authority
    index,    \* authority_epochs
    tomb,     \* authority_epoch_tombstones
    journal,  \* authority_anchor_submissions, in rowid order
    fence,    \* the hash in the pending-writer sidecar file; 0 without one
    \* processes
    lane,     \* who holds the writer lock
    step,     \* what the holder does next
    job,      \* what the holder knows
    asks,     \* what each process read before it waits for the lane
    sent      \* writes of other writers so far

chain   == <<block, wire, foreign, inc, wrote>>
durable == <<index, tomb, journal, fence>>
inlane  == <<lane, step, job>>
vars    == <<chain, durable, inlane, asks, sent>>

(* txid, anchor_block: null is 0.                                          *)
IndexRow == [here : BOOLEAN, txid : Nat, at : Blocks]

(* submit_block, and whether the mortal era could be decoded               *)
Submission == [epoch : Epochs, start : Blocks, era : BOOLEAN,
               outcome : {"none", "confirmed", "expired_absent", "acknowledged"}]

Inclusion == [hash : Nat, at : Blocks, ok : BOOLEAN]

Hashes == DOMAIN journal
Ask == [kind : {"idle", "anchor", "sweep"}, epoch : Epochs \cup {0}, want : Nat, mark : Nat]
NoAsk == [kind |-> "idle", epoch |-> 0, want |-> 0, mark |-> 0]
Job == [epoch : Epochs \cup {0}, sub : Nat, head : Blocks, at : Blocks, fresh : BOOLEAN]
NoJob == [epoch |-> 0, sub |-> 0, head |-> 0, at |-> 0, fresh |-> FALSE]
Steps == {"free", "submission", "record", "fence", "send", "confirm", "index",
          "finish", "expire", "clear", "foreign"}

Foreign == -1

(* get: a tombstoned epoch is no longer served.                            *)
Served(e) == index[e].here /\ e \notin tomb
Anchored(e) == Served(e) /\ index[e].txid # 0

(* get_anchor_submission: the newest submission of an epoch, 0 without one *)
Newest(e) ==
    IF \E h \in Hashes : journal[h].epoch = e
    THEN CHOOSE h \in Hashes : /\ journal[h].epoch = e
                               /\ \A g \in Hashes : journal[g].epoch = e => g <= h
    ELSE 0

FinalizedHeads == {f \in Blocks : f < block /\ block <= f + FinalityLag}

Init ==
    /\ block = 1 /\ wire = {} /\ foreign = 0 /\ inc = {}
    /\ wrote = [b \in Blocks |-> 0]
    /\ index = [e \in Epochs |-> [here |-> FALSE, txid |-> 0, at |-> 0]]
    /\ tomb = {} /\ journal = <<>> /\ fence = 0
    /\ lane = "none" /\ step = "free" /\ job = NoJob
    /\ asks = [p \in Procs |-> NoAsk]
    /\ sent = 0

-----------------------------------------------------------------------------
(* The chain (external).                                                   *)

Tick ==
    /\ block < MaxBlock
    /\ block' = block + 1
    /\ UNCHANGED <<wire, foreign, inc, wrote, durable, inlane, asks, sent>>

(* An anchor is included within its mortal era; its execution writes the   *)
(* slot or fails.  Every writer signs with the one hotkey, so an extrinsic *)
(* signed before an included one has a stale nonce and is dead.            *)
Include(h, ok) ==
    /\ h \in wire
    /\ block <= journal[h].start + Era
    /\ wire' = {g \in wire : g > h}
    /\ foreign' = IF foreign > h THEN foreign ELSE 0
    /\ inc' = inc \cup {[hash |-> h, at |-> block, ok |-> ok]}
    /\ wrote' = IF ok THEN [wrote EXCEPT ![block] = h] ELSE wrote
    /\ UNCHANGED <<block, durable, inlane, asks, sent>>

Drop(h) ==
    /\ h \in wire
    /\ wire' = wire \ {h}
    /\ UNCHANGED <<block, foreign, inc, wrote, durable, inlane, asks, sent>>

(* Another writer's extrinsic is included; anchors signed before it are    *)
(* dead.                                                                   *)
ForeignLands ==
    /\ foreign # 0
    /\ foreign' = 0
    /\ wrote' = [wrote EXCEPT ![block] = Foreign]
    /\ wire' = {g \in wire : g >= foreign}
    /\ UNCHANGED <<block, inc, durable, inlane, asks, sent>>

ForeignDropped ==
    /\ foreign # 0
    /\ foreign' = 0
    /\ UNCHANGED <<block, wire, inc, wrote, durable, inlane, asks, sent>>

-----------------------------------------------------------------------------
(* The index, outside the lane.                                            *)

(* record_finalized, after the epoch closed                                *)
RecordFinalized(e) ==
    /\ block >= Close[e]
    /\ ~index[e].here
    /\ index' = [index EXCEPT ![e].here = TRUE]
    /\ UNCHANGED <<chain, tomb, journal, fence, inlane, asks, sent>>

(* mark_gap_tombstone: only of an indexed epoch without an anchor          *)
MarkGapTombstone(e) ==
    /\ Served(e)
    /\ index[e].txid = 0
    /\ tomb' = tomb \cup {e}
    /\ UNCHANGED <<chain, index, journal, fence, inlane, asks, sent>>

-----------------------------------------------------------------------------
(* Waiting for the lane.                                                   *)

(* Mutant: the fence is read and its hash is not passed on.                *)
AskForgetting(p, e) ==
    /\ asks[p].kind = "idle" /\ lane # p
    /\ Served(e)
    /\ asks' = [asks EXCEPT ![p] =
          [kind |-> "anchor", epoch |-> e, want |-> 0, mark |-> 0]]
    /\ UNCHANGED <<chain, durable, inlane, sent>>

(* The head of anchor_epoch: the newest submission and the fence are read  *)
(* before the lane is held.                                                *)
AskAnchor(p, e) ==
    /\ asks[p].kind = "idle" /\ lane # p
    /\ Served(e)
    /\ LET mine == fence # 0 /\ journal[fence].epoch = e
       IN  asks' = [asks EXCEPT ![p] =
               [kind |-> "anchor", epoch |-> e,
                want |-> IF mine THEN fence ELSE Newest(e),
                mark |-> IF mine THEN fence ELSE 0]]
    /\ UNCHANGED <<chain, durable, inlane, sent>>

(* The head of clear_confirmed_anchor_writer                               *)
AskSweep(p) ==
    /\ asks[p].kind = "idle" /\ lane # p
    /\ fence # 0
    /\ asks' = [asks EXCEPT ![p] =
          [kind |-> "sweep", epoch |-> 0, want |-> fence, mark |-> fence]]
    /\ UNCHANGED <<chain, durable, inlane, sent>>

(* The lock is not free in time, the fence is another hash's, or the       *)
(* process dies.                                                           *)
LaneRefused(p) ==
    /\ asks[p].kind # "idle"
    /\ asks' = [asks EXCEPT ![p] = NoAsk]
    /\ UNCHANGED <<chain, durable, inlane, sent>>

Release == lane' = "none" /\ step' = "free" /\ job' = NoJob

(* anchor_writer_lock: the lock is free, and so is the fence or it is the  *)
(* caller's own.                                                           *)
LaneOpen(want) == lane = "none" /\ fence \in {0, want}

(* anchor_epoch inside the lane: a terminal submission's fence is cleared, *)
(* an indexed anchor is only tidied up after, anything else is submitted   *)
(* or confirmed.  A hash that differs from the indexed one raises.         *)
EnterAnchor(p) ==
    LET a == asks[p]  e == a.epoch
        over == a.mark # 0 /\ journal[a.mark].outcome \in {"expired_absent", "acknowledged"}
    IN  /\ a.kind = "anchor"
        /\ LaneOpen(a.want)
        /\ fence' = IF over THEN 0 ELSE fence
        /\ asks' = [asks EXCEPT ![p] = NoAsk]
        /\ \/ /\ Anchored(e) /\ a.want = index[e].txid
              /\ lane' = p /\ step' = "finish"
              /\ job' = [NoJob EXCEPT !.epoch = e, !.sub = a.want]
           \/ /\ Anchored(e) /\ a.want # index[e].txid
              /\ UNCHANGED inlane
           \/ /\ ~Anchored(e)
              /\ lane' = p /\ step' = "submission"
              /\ job' = [NoJob EXCEPT !.epoch = e]
        /\ UNCHANGED <<chain, index, tomb, journal, sent>>

(* clear_confirmed_anchor_writer inside the lane: a submission whose       *)
(* outcome, or whose indexed anchor, is durable may lose its fence.        *)
EnterSweep(p) ==
    LET a == asks[p]  h == a.want  e == journal[h].epoch
        tidy == Anchored(e) /\ index[e].txid = h
    IN  /\ a.kind = "sweep"
        /\ LaneOpen(h)
        /\ asks' = [asks EXCEPT ![p] = NoAsk]
        /\ \/ /\ journal[h].outcome = "none" /\ tidy
              /\ lane' = p /\ step' = "finish"
              /\ job' = [NoJob EXCEPT !.epoch = e, !.sub = h]
           \/ /\ journal[h].outcome # "none"
              /\ journal[h].outcome = "confirmed" => tidy
              /\ lane' = p /\ step' = "clear"
              /\ job' = [NoJob EXCEPT !.epoch = e, !.sub = h]
           \/ /\ journal[h].outcome = "none" /\ ~tidy
              /\ UNCHANGED inlane
        /\ UNCHANGED <<chain, durable, sent>>

(* acknowledge_anchor_submission: the operator settles a pending hash.     *)
Acknowledge(h) ==
    /\ LaneOpen(h)
    /\ journal[h].outcome = "none"
    /\ journal' = [journal EXCEPT ![h].outcome = "acknowledged"]
    /\ lane' = "operator" /\ step' = "clear"
    /\ job' = [NoJob EXCEPT !.epoch = journal[h].epoch, !.sub = h]
    /\ UNCHANGED <<chain, index, tomb, fence, asks, sent>>

-----------------------------------------------------------------------------
(* _anchor_with_durable_submission, inside the lane.                       *)

(* A first submission, or one after a proven expiry                        *)
MayPrepare(e) ==
    Newest(e) # 0 => journal[Newest(e)].outcome = "expired_absent"

(* prepare_authority_anchor: signed, and the head read after signing must  *)
(* still be inside the epoch's window.                                     *)
Prepare ==
    /\ step = "submission"
    /\ MayPrepare(job.epoch)
    /\ block < Close[job.epoch] + K
    /\ job' = [job EXCEPT !.head = block]
    /\ step' = "record"
    /\ UNCHANGED <<chain, durable, lane, asks, sent>>

(* A submission that may have been dispatched is only confirmed.           *)
Resume ==
    /\ step = "submission"
    /\ ~MayPrepare(job.epoch)
    /\ journal[Newest(job.epoch)].outcome # "acknowledged"
    /\ job' = [job EXCEPT !.sub = Newest(job.epoch), !.fresh = FALSE]
    /\ step' = "fence"
    /\ UNCHANGED <<chain, durable, lane, asks, sent>>

(* record_anchor_submission, with the trigger that binds it to a served    *)
(* epoch without an anchor                                                 *)
RecordSubmission(readable) ==
    /\ step = "record"
    /\ MayPrepare(job.epoch)
    /\ Served(job.epoch) /\ index[job.epoch].txid = 0
    /\ journal' = Append(journal, [epoch |-> job.epoch, start |-> job.head,
                                   era |-> readable, outcome |-> "none"])
    /\ job' = [job EXCEPT !.sub = Len(journal) + 1, !.fresh = TRUE]
    /\ step' = "fence"
    /\ UNCHANGED <<chain, index, tomb, fence, lane, asks, sent>>

(* mark_anchor_writer_pending                                              *)
MarkFence ==
    /\ step = "fence"
    /\ fence \in {0, job.sub}
    /\ fence' = job.sub
    /\ step' = IF job.fresh THEN "send" ELSE "confirm"
    /\ UNCHANGED <<chain, index, tomb, journal, lane, job, asks, sent>>

(* submit_authority_anchor: dispatched or lost, and its error is not told  *)
(* apart; a cancelled caller leaves the lane with the call under way.      *)
Send ==
    /\ step = "send"
    /\ wire' \in {wire, wire \cup {job.sub}}
    /\ \/ step' = "confirm" /\ UNCHANGED <<lane, job>>
       \/ Release
    /\ UNCHANGED <<block, foreign, inc, wrote, durable, asks, sent>>

(* Mutant: an inclusion seen on the best chain is enough.                  *)
ConfirmOnBestChain ==
    /\ step = "confirm"
    /\ \E i \in inc : /\ i.hash = job.sub /\ i.ok
                     /\ job' = [job EXCEPT !.at = i.at]
    /\ step' = "index"
    /\ UNCHANGED <<chain, durable, lane, asks, sent>>

(* confirm_authority_anchor and wait_for_finalized_anchor_receipt: the     *)
(* hash is found in a finalized block, executed, and the archive holds its *)
(* commitment at that block.                                               *)
ConfirmIncluded ==
    /\ step = "confirm"
    /\ \E f \in FinalizedHeads, i \in inc :
          /\ i.hash = job.sub /\ i.at <= f /\ i.ok
          /\ wrote[i.at] = job.sub
          /\ job' = [job EXCEPT !.at = i.at]
    /\ step' = "index"
    /\ UNCHANGED <<chain, durable, lane, asks, sent>>

(* Mutant: absence is concluded at the finalized head, whatever the era.   *)
ConfirmAbsentNow ==
    /\ step = "confirm"
    /\ journal[job.sub].era
    /\ \E f \in FinalizedHeads : \A i \in inc : i.hash = job.sub => i.at > f
    /\ step' = "expire"
    /\ UNCHANGED <<chain, durable, lane, job, asks, sent>>

(* AuthorityAnchorExpiredAbsent: the finalized head is past the whole era  *)
(* and its tail, and no block of them holds the hash.                      *)
ConfirmExpired ==
    /\ step = "confirm"
    /\ journal[job.sub].era
    /\ \E f \in FinalizedHeads : f > journal[job.sub].start + Era + K
    /\ \A i \in inc : i.hash = job.sub => i.at > journal[job.sub].start + Era + K
    /\ step' = "expire"
    /\ UNCHANGED <<chain, durable, lane, job, asks, sent>>

(* set_anchor: refused for an epoch that is no longer served               *)
SetAnchor ==
    /\ step = "index"
    /\ Served(job.epoch)
    /\ index[job.epoch].txid \in {0, job.sub}
    /\ index' = [index EXCEPT ![job.epoch] =
          IF @.txid = 0 THEN [@ EXCEPT !.txid = job.sub, !.at = job.at] ELSE @]
    /\ step' = "finish"
    /\ UNCHANGED <<chain, tomb, journal, fence, lane, job, asks, sent>>

(* finish_anchor_submission, confirmed: a terminal outcome never changes.  *)
FinishConfirmed ==
    /\ step = "finish"
    /\ journal[job.sub].outcome \in {"none", "confirmed"}
    /\ Anchored(job.epoch) /\ index[job.epoch].txid = job.sub
    /\ journal' = [journal EXCEPT ![job.sub].outcome = "confirmed"]
    /\ step' = "clear"
    /\ UNCHANGED <<chain, index, tomb, fence, lane, job, asks, sent>>

FinishExpired ==
    /\ step = "expire"
    /\ journal[job.sub].outcome \in {"none", "expired_absent"}
    /\ journal' = [journal EXCEPT ![job.sub].outcome = "expired_absent"]
    /\ step' = "clear"
    /\ UNCHANGED <<chain, index, tomb, fence, lane, job, asks, sent>>

(* clear_anchor_writer_pending, and the lane is left                       *)
ClearFence ==
    /\ step = "clear"
    /\ fence \in {0, job.sub}
    /\ fence' = 0
    /\ Release
    /\ UNCHANGED <<chain, index, tomb, journal, asks, sent>>

(* Mutant: a hold takes its fence with it.                                 *)
RaisesClearing ==
    /\ step \notin {"free", "foreign"}
    /\ fence' = 0
    /\ Release
    /\ UNCHANGED <<chain, index, tomb, journal, asks, sent>>

(* A hold, an error or the death of the process leaves the lane and every  *)
(* durable record as it is: the window has elapsed, the operator has       *)
(* acknowledged, the capacity is used up, the confirmation timed out, the  *)
(* archive or the execution disagrees, a record cannot be written; and the *)
(* lock of a dead process is free.                                         *)
Raises ==
    /\ step \notin {"free", "foreign"}
    /\ Release
    /\ UNCHANGED <<chain, durable, asks, sent>>

-----------------------------------------------------------------------------
(* Other writers of the slot: anchor_commitment.                           *)

ForeignSends ==
    /\ LaneOpen(0)
    /\ foreign = 0 /\ sent < MaxForeign
    /\ lane' = "foreign" /\ step' = "foreign" /\ job' = NoJob
    /\ foreign' = Len(journal) + 1
    /\ sent' = sent + 1
    /\ UNCHANGED <<block, wire, inc, wrote, durable, asks>>

(* The call returns, fails or dies with its process, landed or not.        *)
ForeignLeaves ==
    /\ step = "foreign"
    /\ Release
    /\ UNCHANGED <<chain, durable, asks, sent>>

-----------------------------------------------------------------------------
Chain ==
    \/ Tick
    \/ \E h \in wire, ok \in BOOLEAN : Include(h, ok)
    \/ \E h \in wire : Drop(h)
    \/ ForeignLands \/ ForeignDropped

Work ==
    \/ Prepare \/ Resume \/ (\E r \in BOOLEAN : RecordSubmission(r))
    \/ MarkFence \/ Send \/ ConfirmIncluded \/ ConfirmExpired
    \/ SetAnchor \/ FinishConfirmed \/ FinishExpired \/ ClearFence

InLane == Work \/ Raises

Next ==
    \/ Chain
    \/ \E e \in Epochs : RecordFinalized(e) \/ MarkGapTombstone(e)
    \/ \E p \in Procs, e \in Epochs : AskAnchor(p, e)
    \/ \E p \in Procs : AskSweep(p) \/ LaneRefused(p) \/ EnterAnchor(p)
                        \/ EnterSweep(p)
    \/ \E h \in Hashes : Acknowledge(h)
    \/ InLane
    \/ ForeignSends \/ ForeignLeaves

Spec == Init /\ [][Next]_vars

(* The epoch of the fenced submission keeps being retried.                 *)
RetryFenced ==
    /\ fence # 0
    /\ \E p \in Procs : AskAnchor(p, journal[fence].epoch)
EnterFenced ==
    /\ fence # 0
    /\ \E p \in Procs : asks[p].epoch = journal[fence].epoch /\ EnterAnchor(p)

(* Blocks are produced, a holder of the lane does not stall, the wait for  *)
(* the lane is bounded, the authority keeps retrying the fenced epoch and  *)
(* gets the lane now and then, and from some time on neither the process   *)
(* nor a call fails: the lane is left only when nothing can be done in it. *)
Fairness ==
    /\ WF_vars(Tick) /\ WF_vars(InLane) /\ WF_vars(ForeignLeaves)
    /\ WF_vars(\E p \in Procs : LaneRefused(p) \/ EnterAnchor(p) \/ EnterSweep(p))
    /\ SF_vars(RetryFenced) /\ SF_vars(EnterFenced)
    /\ <>[][Raises => ~ENABLED Work]_vars

FairSpec == Spec /\ Fairness

-----------------------------------------------------------------------------
(* Properties.                                                             *)

(* Every variable stays in its domain; the fence names a journalled        *)
(* submission, and only a holder of the lane has a step to take.           *)
TypeOK ==
    /\ block \in Blocks
    /\ foreign \in Nat
    /\ inc \subseteq Inclusion
    /\ wrote \in [Blocks -> Int]
    /\ index \in [Epochs -> IndexRow]
    /\ tomb \subseteq Epochs
    /\ journal \in Seq(Submission)
    /\ wire \subseteq Hashes
    /\ fence \in Hashes \cup {0}
    /\ lane \in Procs \cup {"foreign", "operator", "none"}
    /\ step \in Steps
    /\ job \in Job
    /\ asks \in [Procs -> Ask]
    /\ sent \in Nat
    /\ lane = "none" <=> step = "free"

(* The digest of an epoch is written to the chain at most once, however    *)
(* often dispatches time out, processes die and callers race for the lane  *)
(* (record_anchor_submission refuses a second hash without proven expiry). *)
AnchoredAtMostOnce ==
    \A i, j \in inc : journal[i.hash].epoch = journal[j.hash].epoch => i = j

(* A dispatched anchor whose outcome is open is fenced: no process, and    *)
(* no restart, may write the slot over it (mark_anchor_writer_pending).    *)
UnresolvedIsFenced ==
    \A h \in Hashes :
        /\ journal[h].outcome = "none"
        /\ h \in wire \/ \E i \in inc : i.hash = h
        => fence = h

(* What landed and is not yet settled can still be proved: its commitment  *)
(* is the last one of its block, where the archive is asked for it.        *)
ReceiptSurvives ==
    \A i \in inc : i.ok /\ journal[i.hash].outcome = "none" => wrote[i.at] = i.hash

(* Until it is settled a dispatched anchor is both: nobody may write over  *)
(* it, and nobody has.                                                     *)
FencedUntilSettled == UnresolvedIsFenced /\ ReceiptSurvives

(* An index entry with an anchor is backed by a finalized inclusion of     *)
(* that hash for that epoch at that block (set_anchor).                    *)
IndexedAnchorIsProven ==
    \A e \in Epochs : index[e].txid # 0 =>
        /\ index[e].txid \in Hashes /\ journal[index[e].txid].epoch = e
        /\ [hash |-> index[e].txid, at |-> index[e].at, ok |-> TRUE] \in inc
        /\ index[e].at < block
        /\ e \notin tomb

(* A submission settled as expired never landed and never will             *)
(* (the complete search of AuthorityAnchorExpiredAbsent).                  *)
ExpiredNeverLands ==
    \A h \in Hashes : journal[h].outcome = "expired_absent" =>
        /\ \A i \in inc : i.hash # h
        /\ h \in wire => block > journal[h].start + Era

(* A digest has one write on chain at most, and none that was given up.    *)
LandsAtMostOnce == AnchoredAtMostOnce /\ ExpiredNeverLands

(* Only the operator can settle it: the epoch was given up as a gap, the   *)
(* extrinsic was included and failed, or it is absent and its era cannot   *)
(* be decoded.                                                             *)
NeedsOperator(h) ==
    \/ journal[h].epoch \in tomb
    \/ \E i \in inc : i.hash = h /\ ~i.ok
    \/ ~journal[h].era /\ \A i \in inc : i.hash # h

(* A fence is not for ever: unless it needs the operator, the writers held *)
(* by it are let go, by confirmation or by proven expiry, across restarts  *)
(* between any two of the writes that lead there (anchor_epoch).           *)
FenceIsLifted ==
    \A h \in 1 .. MaxEpoch :
        fence = h ~> (fence # h \/ NeedsOperator(h))
=============================================================================
