--------------------------- MODULE WeightSetterProofs ---------------------------
(***************************************************************************)
(* Proofs about WeightSetter, for every value of its constants.            *)
(*                                                                         *)
(* None of the properties is inductive by itself.  What makes them so:     *)
(* every write, wherever it is, belongs to a recorded row and carries a    *)
(* vector that still matches the row (WritesOK); rows are dated in order   *)
(* (RowsOK); Weights only moves forward (ChainOK); a submission with no    *)
(* ambiguous write has at most the one write it is waiting for (CleanOK).  *)
(***************************************************************************)
EXTENDS WeightSetter, TLAPS

(* Rows are dated and numbered in the same order; the cached head never    *)
(* runs ahead of the chain nor behind a recorded row.                      *)
RowsOK ==
    /\ block >= 1
    /\ seen # Never => 1 <= seen /\ seen <= block
    /\ \A i \in Ids :
          /\ 1 <= rows[i].attempt /\ rows[i].attempt <= rows[i].born
          /\ rows[i].born <= block
          /\ seen # Never => rows[i].attempt <= seen
          /\ rows[i].state = "pending" =>
                rows[i].cause \in {"null", "commit_reveal_pending"}
    /\ \A i, j \in Ids : i < j =>
          rows[i].attempt <= rows[j].attempt /\ rows[i].epoch <= rows[j].epoch

(* Under commit-reveal, reconcile only visits rows known to wait for a     *)
(* reveal.                                                                 *)
TodoOK ==
    CommitReveal => \A i \in todo : rows[i].cause = "commit_reveal_pending"

(* The record read at block b was written at or before it, and is still    *)
(* read at the block it was written in.                                    *)
RecordOK(b) ==
    /\ weights[b].at <= b
    /\ weights[b].date <= weights[b].at
    /\ weights[b].at = 0 => weights[b] = NoWeights
    /\ weights[b].at # 0 => weights[weights[b].at] = weights[b]

(* Weights only moves forward, a record stays where it was written, and    *)
(* nothing is written ahead of the head.                                   *)
ChainOK ==
    /\ last <= block
    /\ ~CommitReveal => commits = {}
    /\ ~CommitReveal => weights[block].at <= last
    /\ \A b \in Blocks : b > block \/ b = 0 => weights[b] = NoWeights
    /\ \A b \in 1 .. block : RecordOK(b)
    /\ \A a, b \in 1 .. block : a <= b => weights[a].at <= weights[b].at

(* A write of a row carries its vector; acceptance may have replaced the   *)
(* row's vector by one that matches it.                                    *)
Carries(row, v) ==
    /\ Matches(v, row.vec)
    /\ row.state = "pending" => row.vec = v

(* Every write belongs to a row, matches it, and was sent while the row    *)
(* was being submitted: in the pool, as a commit, in Weights.              *)
SentOK(x) ==
    /\ x.id \in Ids
    /\ Carries(rows[x.id], x.vec)
    /\ rows[x.id].born <= x.sent /\ x.sent <= block
    /\ x.sent <= rows[x.id].born + SubmitWindow

CommittedOK(c) ==
    /\ c.id \in Ids
    /\ Carries(rows[c.id], c.vec)
    /\ rows[c.id].born <= c.at /\ c.at <= block

WrittenOK(r) ==
    /\ r.id \in Ids
    /\ Carries(rows[r.id], r.vec)
    /\ rows[r.id].born <= r.date
    /\ ~CommitReveal => /\ r.date = r.at
                        /\ r.at <= rows[r.id].born + SubmitWindow + Mortality

WritesOK ==
    /\ \A x \in pool : SentOK(x)
    /\ \A c \in commits : CommittedOK(c)
    /\ \A b \in 1 .. block : weights[b].at # 0 => WrittenOK(weights[b])

(* No write of row i is on chain or waits for its reveal.                  *)
NotOnChain(i) ==
    /\ \A b \in Blocks : weights[b].id # i
    /\ \A c \in commits : c.id # i

(* Before its first broadcast a row has no write; while its first answer   *)
(* is awaited it has at most one, and that one is in the pool or on chain. *)
CleanOK ==
    /\ pc \in {"reread", "lastread"} => amb
    /\ pc = "write" /\ ~amb => NotOnChain(cur) /\ \A x \in pool : x.id # cur
    /\ pc = "inflight" /\ ~amb =>
          /\ \A x, y \in pool : x.id = cur /\ y.id = cur => x = y
          /\ \A x \in pool : x.id = cur => NotOnChain(cur)

(* An abandoned row has no write on chain and none that can still land.    *)
AbandonedOK ==
    \A i \in Ids : rows[i].state = "abandoned" =>
        /\ NotOnChain(i)
        /\ \A x \in pool : x.id = i => block > x.sent + Mortality

(* An accepted row is never dated by an empty Weights.                     *)
AcceptedDated ==
    \A i \in Ids : rows[i].state = "accepted" => rows[i].block >= 1

IInv ==
    /\ TypeOK /\ RowsOK /\ TodoOK /\ ChainOK /\ WritesOK /\ CleanOK /\ AbandonedOK
    /\ AcceptedDated /\ AcceptedVectorWasOnChain /\ NoBackwardConfirmation

-----------------------------------------------------------------------------
(* The ways a step changes the ledger.                                     *)
AcceptStep ==
    \E i \in Pending : \E f \in FinalizedHeads :
        /\ rows' = [rows EXCEPT ![i] = Accepted(@, weights[f], rows'[i].cause)]
        /\ rows'[i].cause \in {"chain_accepted", "chain_confirmed"}
        /\ \/ Confirmed(i, f)
           \/ Proof(f) /\ i = cur /\ pc = "inflight"

AbandonStep ==
    \E i \in Pending :
        /\ rows' = [rows EXCEPT ![i] = Abandoned(@)]
        /\ \/ /\ i \in todo /\ block - rows[i].born >= AbandonAge
              /\ \E f \in FinalizedHeads : Denied(i, f)
              /\ pool' = pool
           \/ /\ i = cur /\ ~amb /\ pc \in {"write", "inflight"}
              /\ IF pc = "write" THEN pool' = pool
                 ELSE \E x \in pool : x.id = cur /\ pool' = pool \ {x}
        /\ UNCHANGED <<block, last, commits, weights>>

LabelStep ==
    \E S \in SUBSET Pending : rows' = Labelled(S)

RecordStep ==
    \E e \in Epochs : RecordIntent(e)

(* The assumptions on the constants, one by one.                           *)
LEMMA ConstantFacts ==
    /\ CommitReveal \in BOOLEAN
    /\ RetryAttempts \in Nat /\ AbandonAge \in Nat /\ SnapshotMaxAge \in Nat
    /\ RateLimit \in Nat /\ Mortality \in Nat /\ FinalityLag \in Nat
    /\ SubmitWindow \in Nat /\ MaxIntents \in Nat
    /\ MaxBlock \in Nat /\ MaxBlock >= 1
    /\ 0 \in Blocks /\ 1 \in Blocks /\ Blocks \subseteq Nat
    /\ NoWeights \in Record
  <1>1. /\ MaxBlock \in Nat /\ MaxBlock >= 1
        /\ 0 \in Blocks /\ 1 \in Blocks /\ Blocks \subseteq Nat
    BY ConstantsAssumption DEF Blocks
  <1>2. (CHOOSE v \in Vectors : TRUE) \in Vectors
    BY ConstantsAssumption
  <1>3. NoWeights \in Record
    BY <1>1, <1>2 DEF NoWeights, Record
  <1> QED
    BY <1>1, <1>3, ConstantsAssumption

(* What Labelled, Accepted and Abandoned make of a row's type.             *)
LEMMA RowTypes ==
    ASSUME TypeOK
    PROVE  /\ Ids = 1 .. Len(rows) /\ Len(rows) \in Nat
           /\ \A i \in Ids : rows[i] \in Row
           /\ \A i \in Ids, r \in Record, h \in Resolutions :
                 Accepted(rows[i], r, h) \in Row
           /\ \A i \in Ids : Abandoned(rows[i]) \in Row
           /\ \A S \in SUBSET Ids : /\ Labelled(S) \in Seq(Row)
                                    /\ Len(Labelled(S)) = Len(rows)
  <1>1. rows \in Seq(Row)
    BY DEF TypeOK
  <1>2. Ids = 1 .. Len(rows) /\ Len(rows) \in Nat /\ \A i \in Ids : rows[i] \in Row
    BY <1>1 DEF Ids
  <1>3. \A i \in Ids, r \in Record, h \in Resolutions :
           Accepted(rows[i], r, h) \in Row
    BY <1>2 DEF Accepted, Row, Record
  <1>4. \A i \in Ids : Abandoned(rows[i]) \in Row
    BY <1>2 DEF Abandoned, Row, Resolutions
  <1>5. ASSUME NEW S \in SUBSET Ids
        PROVE  Labelled(S) \in Seq(Row) /\ Len(Labelled(S)) = Len(rows)
    <2>1. \A i \in Ids : [rows[i] EXCEPT !.cause = "commit_reveal_pending"] \in Row
      BY <1>2 DEF Row, Resolutions
    <2>2. Labelled(S) \in [1 .. Len(rows) -> Row]
      BY <1>2, <2>1 DEF Labelled
    <2> QED
      BY <1>2, <2>2
  <1> QED
    BY <1>2, <1>3, <1>4, <1>5

(* The initial state is type correct: an empty ledger and an empty         *)
(* Weights.                                                                *)
LEMMA InitType == Init => TypeOK
  <1> SUFFICES ASSUME Init PROVE TypeOK
    OBVIOUS
  <1>1. rows \in Seq(Row) /\ Ids = {} /\ Pending = {}
    BY DEF Init, Ids, Pending
  <1>2. weights \in [Blocks -> Record]
    BY ConstantFacts DEF Init
  <1>3. pc = "idle" /\ pc \notin Submitting
    BY DEF Init, Submitting
  <1>4. block \in Blocks /\ last \in Blocks /\ sentAt \in Blocks
    BY ConstantFacts DEF Init
  <1> QED
    BY <1>1, <1>2, <1>3, <1>4 DEF Init, TypeOK

(* Each way of changing the ledger keeps its type and length.              *)
LEMMA LedgerType ==
    ASSUME TypeOK, NEW i \in Pending, NEW f \in Blocks,
           NEW h \in {"chain_accepted", "chain_confirmed"}
    PROVE  /\ [rows EXCEPT ![i] = Accepted(@, weights[f], h)] \in Seq(Row)
           /\ [rows EXCEPT ![i] = Abandoned(@)] \in Seq(Row)
           /\ Len([rows EXCEPT ![i] = Accepted(@, weights[f], h)]) = Len(rows)
           /\ Len([rows EXCEPT ![i] = Abandoned(@)]) = Len(rows)
  <1>1. i \in Ids /\ weights[f] \in Record /\ h \in Resolutions /\ rows \in Seq(Row)
    BY DEF Pending, TypeOK, Resolutions
  <1>2. Accepted(rows[i], weights[f], h) \in Row /\ Abandoned(rows[i]) \in Row
    BY <1>1, RowTypes
  <1> QED
    BY <1>1, <1>2, RowTypes DEF Ids

(* A step changes the chain in one of seven ways, or not at all; only a    *)
(* tick moves the head, and only a step of the process the cached head.    *)
LEMMA ChainStep ==
    ASSUME [Next]_vars
    PROVE  \/ UNCHANGED chain
           \/ Tick
           \/ \E x \in pool : Include(x) \/ Evict(x)
           \/ \E c \in commits : Reveal(c) \/ LoseCommit(c)
           \/ Broadcast \/ ChainRejects
  BY DEF Next, Chain, Service, Crash, vars, BeginAttempt, RecoverLegacy,
        PollReveals, ReconcileRow, ReconcileRaises, Hold, RecordIntent,
        RefuseLocally, Ambiguous, ClaimProven, CommitClaimed, ReadBack, AttemptRaises

(* The part of the type invariant about the chain.                         *)
ChainType ==
    /\ block \in Blocks /\ last \in Blocks
    /\ pool \subseteq Extrinsic
    /\ commits \subseteq Commit
    /\ weights \in [Blocks -> Record]

(* The part of the type invariant about the chain is kept by every step.   *)
LEMMA ChainTypeStep == TypeOK /\ [Next]_vars => ChainType'
  <1> SUFFICES ASSUME TypeOK, [Next]_vars PROVE ChainType'
    OBVIOUS
  <1> USE ConstantFacts
  <1>0. ChainType /\ rows \in Seq(Row) /\ tries \in Nat
    BY DEF TypeOK, ChainType
  <1>1. CASE UNCHANGED chain
    BY <1>0, <1>1 DEF ChainType, chain
  <1>2. CASE Tick
    <2>1. block + 1 \in Blocks
      BY <1>0, <1>2 DEF Tick, Blocks, ChainType
    <2> QED
      BY <1>0, <1>2, <2>1 DEF Tick, ChainType
  <1>3. ASSUME NEW x \in pool, Include(x) PROVE ChainType'
    <2>1. x \in Extrinsic
      BY <1>0, <1>3 DEF ChainType
    <2>2. /\ [id |-> x.id, vec |-> x.vec, at |-> block, gone |-> 0] \in Commit
          /\ [id |-> x.id, vec |-> x.vec, at |-> block, date |-> block] \in Record
      BY <1>0, <2>1 DEF ChainType, Extrinsic, Commit, Record
    <2> QED
      BY <1>0, <1>3, <2>2 DEF Include, ChainType
  <1>4. ASSUME NEW x \in pool, Evict(x) PROVE ChainType'
    BY <1>0, <1>4 DEF Evict, ChainType
  <1>5. ASSUME NEW c \in commits, Reveal(c) PROVE ChainType'
    <2>1. c \in Commit
      BY <1>0, <1>5 DEF ChainType
    <2>2. /\ [c EXCEPT !.gone = block] \in Commit
          /\ \A d \in {c.at, block} :
               [id |-> c.id, vec |-> c.vec, at |-> block, date |-> d] \in Record
      BY <1>0, <2>1 DEF ChainType, Commit, Record
    <2> QED
      BY <1>0, <1>5, <2>2 DEF Reveal, ChainType
  <1>6. ASSUME NEW c \in commits, LoseCommit(c) PROVE ChainType'
    <2>1. [c EXCEPT !.gone = block] \in Commit
      BY <1>0, <1>6 DEF ChainType, Commit
    <2> QED
      BY <1>0, <1>6, <2>1 DEF LoseCommit, ChainType
  <1>7. CASE Broadcast
    <2>1. cur = Len(rows) /\ rows # <<>>
      BY <1>7 DEF TypeOK, Broadcast, Submitting
    <2>2. cur \in Ids /\ cur \in Nat
      BY <2>1, <1>0 DEF Ids
    <2>3. rows[cur].vec \in Vectors
      BY <2>2, RowTypes DEF Row
    <2>4. [id |-> cur, vec |-> rows[cur].vec, sent |-> block, try |-> tries + 1]
              \in Extrinsic
      BY <1>0, <2>2, <2>3 DEF Extrinsic, ChainType
    <2> QED
      BY <1>0, <1>7, <2>4 DEF Broadcast, ChainType
  <1>8. CASE ChainRejects
    BY <1>0, <1>8 DEF ChainRejects, ChainType
  <1> QED
    BY <1>1, <1>2, <1>3, <1>4, <1>5, <1>6, <1>7, <1>8, ChainStep

(* The head only moves forward, and the cached head is a head that was.    *)
LEMMA HeadStep ==
    ASSUME TypeOK, [Next]_vars
    PROVE  /\ block' = block \/ block' = block + 1
           /\ seen' = seen \/ seen' = Never \/ (seen' = block /\ block' = block)
  <1>1. CASE UNCHANGED vars
    BY <1>1 DEF vars, chain, process
  <1>2. CASE Chain
    BY <1>2 DEF Chain, Tick, Include, Evict, Reveal, LoseCommit, process
  <1>3. CASE Service
    <2>1. block' = block
      BY <1>3 DEF Service, chain, BeginAttempt, RecoverLegacy, PollReveals, ReconcileRow,
        ReconcileRaises, Hold, RecordIntent, RefuseLocally, Broadcast, ChainRejects,
        Ambiguous, ClaimProven, CommitClaimed, ReadBack, AttemptRaises
    <2>2. seen' = seen \/ seen' = block
      BY <1>3 DEF Service, BeginAttempt, RecoverLegacy, PollReveals, ReconcileRow,
        ReconcileRaises, Hold, RecordIntent, RefuseLocally, Broadcast, ChainRejects,
        Ambiguous, ClaimProven, CommitClaimed, ReadBack, AttemptRaises
    <2> QED
      BY <2>1, <2>2
  <1>4. CASE Crash
    BY <1>4 DEF Crash, chain
  <1> QED
    BY <1>1, <1>2, <1>3, <1>4 DEF Next

(* A submission is of the newest row, which is pending.                    *)
LEMMA CurPending ==
    ASSUME TypeOK, pc \in Submitting
    PROVE  cur = Len(rows) /\ cur \in Pending /\ cur \in Nat \ {0}
  <1>1. cur = Len(rows) /\ rows # <<>> /\ rows \in Seq(Row)
    BY DEF TypeOK
  <1>2. rows[cur].state = "pending"
    BY DEF TypeOK
  <1> QED
    BY <1>1, <1>2 DEF Pending, Ids

(* A step changes the ledger in one of four ways, or not at all.           *)
LEMMA LedgerStep ==
    ASSUME TypeOK, [Next]_vars
    PROVE  UNCHANGED rows \/ AcceptStep \/ AbandonStep \/ LabelStep \/ RecordStep
  <1>0. todo \subseteq Pending /\ FinalizedHeads \subseteq Blocks
    BY DEF TypeOK, FinalizedHeads
  <1>1. CASE RecoverLegacy
    BY <1>1 DEF RecoverLegacy, LabelStep, LegacyIntents
  <1>2. CASE ReconcileRow
    <2>1. CASE UNCHANGED rows
      BY <2>1
    <2>2. CASE \E i \in todo : \E f \in FinalizedHeads :
                  /\ Settle(i, f) /\ UNCHANGED chain
      <3>1. PICK i \in todo, f \in FinalizedHeads : Settle(i, f) /\ UNCHANGED chain
        BY <2>2
      <3>2. i \in Pending /\ i \in Ids
        BY <3>1, <1>0 DEF Pending
      <3>3. CASE /\ Confirmed(i, f)
                 /\ rows' = [rows EXCEPT ![i] = Accepted(@, weights[f], "chain_confirmed")]
        <4>1. rows'[i].cause = "chain_confirmed"
          <5>1. rows[i] \in Row
            BY <3>2, RowTypes
          <5> QED
            BY <3>2, <3>3, <5>1 DEF Accepted, Ids, Row
        <4> QED
          BY <3>1, <3>2, <3>3, <4>1 DEF AcceptStep
      <3>4. CASE /\ Denied(i, f) /\ block - rows[i].born >= AbandonAge
                 /\ rows' = [rows EXCEPT ![i] = Abandoned(@)]
        BY <3>1, <3>2, <3>4 DEF AbandonStep, chain
      <3> QED
        BY <3>1, <3>3, <3>4 DEF Settle
    <2> QED
      BY <1>2, <2>1, <2>2 DEF ReconcileRow
  <1>3. ASSUME pc \in {"write", "inflight"}, Rejected,
               UNCHANGED <<block, last, commits, weights>>,
               IF pc = "write" THEN pool' = pool
               ELSE \E x \in pool : x.id = cur /\ pool' = pool \ {x}
        PROVE  UNCHANGED rows \/ AbandonStep
    <2>1. cur \in Pending
      BY <1>3, CurPending DEF Submitting
    <2> QED
      BY <1>3, <2>1 DEF Rejected, AbandonStep
  <1>4. CASE RefuseLocally
    BY <1>3, <1>4 DEF RefuseLocally, chain
  <1>5. CASE ChainRejects
    BY <1>3, <1>5 DEF ChainRejects
  <1>6. CASE ClaimProven
    <2>1. PICK f \in FinalizedHeads :
             /\ Proof(f)
             /\ rows' = [rows EXCEPT ![cur] = Accepted(@, weights[f], "chain_accepted")]
      BY <1>6 DEF ClaimProven
    <2>2. cur \in Pending /\ cur \in Ids /\ pc = "inflight"
      BY <1>6, CurPending DEF ClaimProven, Submitting, Pending
    <2>3. rows[cur] \in Row
      BY <2>2, RowTypes
    <2>4. rows'[cur].cause = "chain_accepted"
      BY <2>1, <2>2, <2>3 DEF Accepted, Ids, Row
    <2> QED
      BY <2>1, <2>2, <2>4 DEF AcceptStep
  <1>7. CASE CommitClaimed
    BY <1>7, CurPending DEF CommitClaimed, LabelStep, Submitting
  <1>8. CASE ReadBack
    <2>1. cur \in Pending /\ cur \in Ids
      BY <1>8, CurPending DEF ReadBack, Submitting, Pending
    <2>2. ASSUME NEW f \in FinalizedHeads, Confirmed(cur, f),
                 rows' = [rows EXCEPT ![cur] = Accepted(@, weights[f], "chain_confirmed")]
          PROVE  AcceptStep
      <3>1. rows[cur] \in Row
        BY <2>1, RowTypes
      <3>2. rows'[cur].cause = "chain_confirmed"
        BY <2>1, <2>2, <3>1 DEF Accepted, Ids, Row
      <3> QED
        BY <2>1, <2>2, <3>2 DEF AcceptStep
    <2> QED
      BY <1>8, <2>2 DEF ReadBack
  <1>9. CASE \E e \in Epochs : RecordIntent(e)
    BY <1>9 DEF RecordStep
  <1> QED
    BY <1>1, <1>2, <1>4, <1>5, <1>6, <1>7, <1>8, <1>9
    DEF Next, Chain, Service, Crash, vars, Tick, Include, Evict, Reveal, LoseCommit,
        BeginAttempt, PollReveals, ReconcileRaises, Hold, Broadcast, Ambiguous,
        AttemptRaises

(* Only a recorded row makes the ledger longer.                            *)
LEMMA SameLength ==
    ASSUME TypeOK, UNCHANGED rows \/ AcceptStep \/ AbandonStep \/ LabelStep
    PROVE  Len(rows') = Len(rows)
  <1>0. /\ FinalizedHeads \subseteq Blocks /\ rows \in Seq(Row) /\ Pending \subseteq Ids
    BY DEF TypeOK, FinalizedHeads, Pending
  <1>1. CASE AcceptStep
    BY <1>0, <1>1 DEF AcceptStep
  <1>2. CASE AbandonStep
    BY <1>0, <1>2 DEF AbandonStep
  <1>3. CASE LabelStep
    BY <1>0, <1>3, RowTypes DEF LabelStep
  <1> QED
    BY <1>1, <1>2, <1>3

(* What a step may have done to row i.                                     *)
AcceptedNow(i) ==
    /\ rows[i].state = "pending"
    /\ \E f \in FinalizedHeads :
          /\ rows'[i].vec = weights[f].vec /\ rows'[i].form = "u16"
          /\ rows'[i].block = weights[f].date /\ rows'[i].by = weights[f].id
          /\ \/ Confirmed(i, f)
             \/ Proof(f) /\ i = cur /\ pc = "inflight"

AbandonedNow(i) ==
    /\ rows[i].state = "pending" /\ rows'[i].vec = rows[i].vec
    /\ \/ /\ i \in todo /\ block - rows[i].born >= AbandonAge
          /\ \E f \in FinalizedHeads : Denied(i, f)
          /\ pool' = pool
       \/ /\ i = cur /\ ~amb /\ pc \in {"write", "inflight"}
          /\ IF pc = "write" THEN pool' = pool
             ELSE \E x \in pool : x.id = cur /\ pool' = pool \ {x}
    /\ UNCHANGED <<block, last, commits, weights>>

SameRow(i) ==
    /\ rows'[i].attempt = rows[i].attempt /\ rows'[i].born = rows[i].born
    /\ rows'[i].epoch = rows[i].epoch

KeptRow(i) ==
    /\ rows'[i].state = rows[i].state /\ rows'[i].vec = rows[i].vec
    /\ rows'[i].form = rows[i].form
    /\ rows'[i].block = rows[i].block /\ rows'[i].by = rows[i].by
    /\ \/ rows'[i].cause = rows[i].cause
       \/ rows[i].state = "pending" /\ rows'[i].cause = "commit_reveal_pending"

RowEffect(i) ==
    /\ SameRow(i)
    /\ \/ KeptRow(i)
       \/ rows'[i].state = "accepted" /\ AcceptedNow(i)
       \/ rows'[i].state = "abandoned" /\ AbandonedNow(i)

NewRow ==
    /\ Len(rows') = Len(rows) + 1
    /\ rows'[Len(rows) + 1].state = "pending" /\ rows'[Len(rows) + 1].cause = "null"
    /\ rows'[Len(rows) + 1].attempt = seen /\ rows'[Len(rows) + 1].born = block
    /\ AboveFloor(rows'[Len(rows) + 1].epoch)
    /\ rows'[Len(rows) + 1].by = 0
    /\ UNCHANGED chain /\ UNCHANGED seen /\ Usable
    /\ \A i \in Ids : rows'[i] = rows[i]

(* What a step may do to the ledger: rows keep their places and their      *)
(* identity, and at most one row is added.                                 *)
LEMMA RowsStep ==
    ASSUME TypeOK, [Next]_vars
    PROVE  /\ rows' \in Seq(Row)
           /\ \A i \in Ids : RowEffect(i)
           /\ Len(rows') = Len(rows) \/ NewRow
  <1>0. /\ Ids = 1 .. Len(rows) /\ Len(rows) \in Nat /\ rows \in Seq(Row)
        /\ \A i \in Ids : rows[i] \in Row
        /\ FinalizedHeads \subseteq Blocks /\ weights \in [Blocks -> Record]
    BY RowTypes DEF TypeOK, FinalizedHeads
  <1>1. CASE UNCHANGED rows
    BY <1>0, <1>1 DEF RowEffect, SameRow, KeptRow
  <1>2. CASE AcceptStep
    <2>1. PICK i \in Pending, f \in FinalizedHeads :
             /\ rows' = [rows EXCEPT ![i] = Accepted(@, weights[f], rows'[i].cause)]
             /\ rows'[i].cause \in {"chain_accepted", "chain_confirmed"}
             /\ \/ Confirmed(i, f)
                \/ Proof(f) /\ i = cur /\ pc = "inflight"
      BY <1>2 DEF AcceptStep
    <2>2. PICK h \in {"chain_accepted", "chain_confirmed"} : h = rows'[i].cause
      BY <2>1
    <2>3. rows' = [rows EXCEPT ![i] = Accepted(@, weights[f], h)]
      BY <2>1, <2>2
    <2>4. rows' \in Seq(Row) /\ Len(rows') = Len(rows)
      BY <2>3, <1>0, LedgerType
    <2>5. i \in Ids /\ rows[i].state = "pending" /\ rows[i] \in Row /\ weights[f] \in Record
      BY <1>0 DEF Pending
    <2>6. \A k \in Ids \ {i} : rows'[k] = rows[k]
      BY <2>3, <1>0
    <2>7. rows'[i] = Accepted(rows[i], weights[f], h)
      BY <2>3, <2>5, <1>0
    <2>8. /\ rows'[i].state = "accepted" /\ rows'[i].vec = weights[f].vec
          /\ rows'[i].form = "u16" /\ rows'[i].block = weights[f].date
          /\ rows'[i].by = weights[f].id /\ SameRow(i)
      BY <2>7, <2>5 DEF Accepted, Row, SameRow
    <2>9. AcceptedNow(i)
      BY <2>1, <2>5, <2>8 DEF AcceptedNow
    <2>10. \A k \in Ids \ {i} : RowEffect(k)
      BY <2>6 DEF RowEffect, SameRow, KeptRow
    <2>11. RowEffect(i)
      BY <2>8, <2>9 DEF RowEffect
    <2> QED
      BY <2>4, <2>10, <2>11
  <1>3. CASE AbandonStep
    <2>1. PICK i \in Pending :
        /\ rows' = [rows EXCEPT ![i] = Abandoned(@)]
        /\ \/ /\ i \in todo /\ block - rows[i].born >= AbandonAge
              /\ \E f \in FinalizedHeads : Denied(i, f)
              /\ pool' = pool
           \/ /\ i = cur /\ ~amb /\ pc \in {"write", "inflight"}
              /\ IF pc = "write" THEN pool' = pool
                 ELSE \E x \in pool : x.id = cur /\ pool' = pool \ {x}
        /\ UNCHANGED <<block, last, commits, weights>>
      BY <1>3 DEF AbandonStep
    <2>2. i \in Ids /\ rows[i].state = "pending" /\ rows[i] \in Row
      BY <1>0 DEF Pending
    <2>4. rows' \in Seq(Row) /\ Len(rows') = Len(rows)
      BY <2>1, <1>0, ConstantFacts, LedgerType
    <2>5. \A k \in Ids \ {i} : rows'[k] = rows[k]
      BY <2>1, <1>0
    <2>6. rows'[i] = Abandoned(rows[i])
      BY <2>1, <2>2, <1>0
    <2>7. rows'[i].state = "abandoned" /\ rows'[i].vec = rows[i].vec /\ SameRow(i)
      BY <2>6, <2>2 DEF Abandoned, Row, SameRow
    <2>3. AbandonedNow(i)
      BY <2>1, <2>2, <2>7 DEF AbandonedNow
    <2>8. \A k \in Ids \ {i} : RowEffect(k)
      BY <2>5 DEF RowEffect, SameRow, KeptRow
    <2> QED
      BY <2>3, <2>4, <2>7, <2>8 DEF RowEffect
  <1>4. CASE LabelStep
    <2>1. PICK S \in SUBSET Pending : rows' = Labelled(S)
      BY <1>4 DEF LabelStep
    <2>2. rows' \in Seq(Row) /\ Len(rows') = Len(rows)
      BY <2>1, RowTypes DEF Pending
    <2>3. ASSUME NEW k \in Ids PROVE RowEffect(k)
      <3>1. CASE k \in S
        <4>1. rows'[k] = [rows[k] EXCEPT !.cause = "commit_reveal_pending"]
          BY <2>1, <3>1 DEF Labelled
        <4>2. rows[k].state = "pending" /\ rows[k] \in Row
          BY <3>1, <1>0 DEF Pending
        <4> QED
          BY <4>1, <4>2 DEF RowEffect, SameRow, KeptRow, Row
      <3>2. CASE k \notin S
        <4>1. rows'[k] = rows[k]
          BY <2>1, <3>2 DEF Labelled
        <4> QED
          BY <4>1 DEF RowEffect, SameRow, KeptRow
      <3> QED
        BY <3>1, <3>2
    <2> QED
      BY <2>2, <2>3
  <1>5. CASE RecordStep
    <2>1. PICK e \in Epochs : RecordIntent(e)
      BY <1>5 DEF RecordStep
    <2> DEFINE r == [state |-> "pending", cause |-> "null", vec |-> VectorOf[e],
           form |-> "composed", epoch |-> e, attempt |-> seen, born |-> block,
           block |-> 0, by |-> 0]
    <2>2. rows' = Append(rows, r) /\ Usable /\ AboveFloor(e) /\ UNCHANGED <<chain, seen>>
      BY <2>1 DEF RecordIntent, GatesOpen
    <2>3. seen \in Blocks /\ block \in Blocks
      BY <2>2 DEF TypeOK, Usable, UsableAt
    <2>4. r \in Row
      BY <2>3, ConstantFacts, ConstantsAssumption DEF Row, Resolutions
    <2>5. rows' \in Seq(Row) /\ Len(rows') = Len(rows) + 1 /\ rows'[Len(rows) + 1] = r
          /\ \A k \in Ids : rows'[k] = rows[k]
      <3> HIDE DEF r
      <3> QED BY <2>2, <2>4, <1>0
    <2>6. NewRow
      <3>1. /\ rows'[Len(rows) + 1].state = "pending"
            /\ rows'[Len(rows) + 1].cause = "null"
            /\ rows'[Len(rows) + 1].attempt = seen /\ rows'[Len(rows) + 1].born = block
            /\ rows'[Len(rows) + 1].by = 0 /\ rows'[Len(rows) + 1].epoch = e
        BY <2>5
      <3>2. UNCHANGED chain /\ UNCHANGED seen /\ Usable
        BY <2>2
      <3> QED
        BY <2>2, <2>5, <3>1, <3>2 DEF NewRow
    <2>7. \A k \in Ids : RowEffect(k)
      BY <2>5 DEF RowEffect, SameRow, KeptRow
    <2> QED
      BY <2>5, <2>6, <2>7
  <1> QED
    BY <1>1, <1>2, <1>3, <1>4, <1>5, LedgerStep

(* The part of the type invariant about the process.                       *)
ProcessType ==
    /\ pc \in {"idle", "legacy", "rows", "poll"} \cup Submitting
    /\ seen \in Blocks \cup {Never}
    /\ holds \subseteq Ids
    /\ todo \subseteq Pending
    /\ pc \notin {"rows", "poll"} => todo = {}
    /\ cur = IF pc \in Submitting THEN Len(rows) ELSE 0
    /\ pc \in Submitting => rows # <<>> /\ rows[cur].state = "pending"
    /\ tries \in Nat /\ amb \in BOOLEAN
    /\ sentAt \in Blocks

(* Type correctness is inductive.                                          *)
LEMMA TypeStep == TypeOK /\ [Next]_vars => TypeOK'
  <1> SUFFICES ASSUME TypeOK, [Next]_vars PROVE TypeOK'
    OBVIOUS
  <1>0. /\ Ids = 1 .. Len(rows) /\ Len(rows) \in Nat /\ rows \in Seq(Row)
        /\ block \in Blocks /\ ProcessType /\ 0 \in Blocks
    BY RowTypes, ConstantFacts DEF TypeOK, ProcessType
  <1>a. rows' \in Seq(Row) /\ (\A i \in Ids : RowEffect(i)) /\ (Len(rows') = Len(rows) \/ NewRow)
    BY RowsStep
  <1>b. Ids' = 1 .. Len(rows') /\ Len(rows') \in Nat /\ Ids \subseteq Ids'
    BY <1>0, <1>a DEF Ids, NewRow
  <1>c. ChainType'
    BY ChainTypeStep
  <1> SUFFICES ProcessType'
    BY <1>a, <1>c DEF TypeOK, ProcessType, ChainType
  <1>1. CASE UNCHANGED <<rows, process>>
    BY <1>0, <1>1 DEF ProcessType, process, Pending, Ids
  <1>2. CASE BeginAttempt
    BY <1>0, <1>2 DEF BeginAttempt, ProcessType, Pending, Ids, Submitting, submit
  <1>3. CASE RecoverLegacy
    <2>1. holds' \subseteq Ids' /\ todo' \subseteq Pending'
      <3>1. Pending' = Pending /\ LegacyIntents \subseteq Ids
        <4>1. CASE UNCHANGED rows
          BY <4>1 DEF Pending, Ids, LegacyIntents
        <4>2. CASE rows' = Labelled(LegacyIntents)
          <5>1. \A i \in Ids : rows'[i].state = rows[i].state
            <6>1. \A i \in Ids : rows[i] \in Row
              BY RowTypes
            <6> QED
              BY <4>2, <6>1 DEF Labelled, Row
          <5>2. Ids' = Ids
            BY <4>2, <1>0, <1>b DEF Labelled, Ids
          <5> QED
            BY <5>1, <5>2 DEF Pending, LegacyIntents
        <4> QED
          BY <1>3, <4>1, <4>2 DEF RecoverLegacy
      <3>2. todo' \subseteq Pending /\ holds' \subseteq Ids
        <4>1. todo' \subseteq Pending
          BY <1>3 DEF RecoverLegacy
        <4>2. holds' = {} \/ holds' = LegacyIntents
          BY <1>3 DEF RecoverLegacy
        <4> QED
          BY <3>1, <4>1, <4>2
      <3> QED
        BY <3>1, <3>2, <1>b
    <2> QED
      BY <1>0, <1>3, <2>1 DEF RecoverLegacy, ProcessType, Submitting, submit
  <1>4. CASE PollReveals
    BY <1>0, <1>4 DEF PollReveals, ProcessType, Pending, PendingReveals, Ids, Submitting, submit
  <1>5. CASE ReconcileRow
    <2>1. PICK i \in todo :
             /\ todo' = todo \ {i}
             /\ \/ UNCHANGED <<rows, seen>>
                \/ /\ seen' = block
                   /\ \E f \in FinalizedHeads : Settle(i, f)
      BY <1>5 DEF ReconcileRow
    <2>2. i \in Ids
      BY <1>0, <2>1 DEF ProcessType, Pending
    <2>3. \A k \in Ids \ {i} : rows'[k] = rows[k]
      BY <2>1, <2>2, <1>0 DEF Settle
    <2>4. todo' \subseteq Pending'
      BY <1>0, <1>b, <2>1, <2>3 DEF ProcessType, Pending
    <2>5. pc \in {"rows", "poll"} /\ UNCHANGED <<pc, holds, submit>>
      BY <1>5 DEF ReconcileRow
    <2> QED
      BY <1>0, <1>b, <2>1, <2>4, <2>5 DEF ProcessType, Submitting, submit
  <1>6. CASE ReconcileRaises
    BY <1>0, <1>6 DEF ReconcileRaises, ProcessType, Pending, Ids, Submitting, submit
  <1>7. CASE Hold
    BY <1>0, <1>7 DEF Hold, ProcessType, Pending, Ids, Submitting, submit
  <1>8. ASSUME NEW e \in Epochs, RecordIntent(e) PROVE ProcessType'
    <2>1. /\ rows' = Append(rows,
               [state |-> "pending", cause |-> "null", vec |-> VectorOf[e],
                form |-> "composed", epoch |-> e, attempt |-> seen, born |-> block,
                block |-> 0, by |-> 0])
          /\ todo = {} /\ pc' = "write" /\ cur' = Len(rows) + 1
          /\ tries' = 0 /\ amb' = FALSE /\ sentAt' = 0 /\ UNCHANGED <<seen, holds, todo>>
      BY <1>8 DEF RecordIntent
    <2>2. Len(rows') = Len(rows) + 1 /\ rows'[Len(rows) + 1].state = "pending" /\ rows' # <<>>
      BY <2>1, <1>0
    <2> QED
      BY <1>0, <1>b, <2>1, <2>2 DEF ProcessType, Submitting
  <1>9. ASSUME Done, pc \in Submitting, seen' \in {seen, block}, UNCHANGED <<holds, todo>>
        PROVE  ProcessType'
    <2>1. todo = {}
      BY <1>0, <1>9 DEF ProcessType, Submitting
    <2> QED
      BY <1>0, <1>b, <1>9, <2>1 DEF ProcessType, Submitting, Done
  <1>10. ASSUME pc \in Submitting, pc' \in Submitting, UNCHANGED <<rows, holds, todo, cur>>,
                seen' \in {seen, block}, tries' \in Nat, amb' \in BOOLEAN, sentAt' \in Blocks
         PROVE  ProcessType'
    BY <1>0, <1>10 DEF ProcessType, Submitting, Pending, Ids
  <1>11. CASE RefuseLocally \/ ChainRejects
    <2>1. pc \in Submitting /\ UNCHANGED <<seen, holds, todo>> /\ Rejected
      BY <1>11 DEF RefuseLocally, ChainRejects, Submitting
    <2>2. CASE Done
      BY <1>9, <2>1, <2>2
    <2>3. CASE pc' = "lastread" /\ UNCHANGED <<rows, submit>>
      BY <1>0, <1>10, <2>1, <2>3 DEF Submitting, submit, ProcessType
    <2> QED
      BY <2>1, <2>2, <2>3 DEF Rejected
  <1>12. CASE Broadcast
    BY <1>0, <1>10, <1>12 DEF Broadcast, Submitting, ProcessType
  <1>13. CASE Ambiguous
    BY <1>0, <1>10, <1>13 DEF Ambiguous, Submitting, ProcessType
  <1>14. CASE ClaimProven \/ CommitClaimed \/ AttemptRaises
    BY <1>9, <1>14 DEF ClaimProven, CommitClaimed, AttemptRaises, Submitting
  <1>15. CASE ReadBack
    <2>1. pc \in Submitting /\ seen' \in {seen, block} /\ UNCHANGED <<holds, todo>>
      BY <1>15 DEF ReadBack, Submitting
    <2>2. CASE Done
      BY <1>9, <2>1, <2>2
    <2>3. CASE UNCHANGED rows /\ pc' = "write" /\ UNCHANGED submit
      BY <1>0, <1>10, <2>1, <2>3 DEF Submitting, submit, ProcessType
    <2> QED
      BY <1>15, <2>2, <2>3 DEF ReadBack
  <1>16. CASE Crash
    BY <1>0, <1>16 DEF Crash, ProcessType, Pending, Ids, Submitting
  <1> QED
    BY <1>1, <1>2, <1>3, <1>4, <1>5, <1>6, <1>7, <1>8, <1>11, <1>12, <1>13, <1>14,
       <1>15, <1>16
    DEF Next, Chain, Service, vars, Tick, Include, Evict, Reveal, LoseCommit

(* Type correctness of the weight-setter, for every value of the constants. *)
THEOREM TypeCorrect == Spec => []TypeOK
  BY InitType, TypeStep, PTL DEF Spec

-----------------------------------------------------------------------------
(* The inductive invariant.                                                *)

(* The inductive invariant holds initially.                                *)
LEMMA InitInv == Init => IInv
  <1> SUFFICES ASSUME Init PROVE IInv
    OBVIOUS
  <1> USE ConstantFacts
  <1>1. TypeOK
    BY InitType
  <1>2. Ids = {}
    BY DEF Init, Ids
  <1>3. \A b \in Blocks : weights[b] = NoWeights
    BY DEF Init
  <1>4. NoWeights.at = 0 /\ NoWeights.date = 0 /\ NoWeights.id = 0
    BY DEF NoWeights
  <1>5. block = 1 /\ last = 0 /\ pool = {} /\ commits = {} /\ todo = {} /\ pc = "idle"
        /\ seen = Never
    BY DEF Init
  <1>6. RowsOK /\ TodoOK
    BY <1>2, <1>5 DEF RowsOK, TodoOK
  <1>7. ChainOK
    <2>1. \A b \in 1 .. block : b = 1 /\ weights[b] = NoWeights
      BY <1>3, <1>5
    <2>2. \A b \in 1 .. block : RecordOK(b)
      BY <1>4, <2>1 DEF RecordOK
    <2> QED
      BY <1>3, <1>4, <1>5, <2>1, <2>2 DEF ChainOK
  <1>8. WritesOK
    BY <1>3, <1>4, <1>5 DEF WritesOK
  <1>9. CleanOK /\ AbandonedOK
    BY <1>2, <1>5 DEF CleanOK, AbandonedOK
  <1> QED
    BY <1>1, <1>2, <1>6, <1>7, <1>8, <1>9
    DEF IInv, AcceptedDated, AcceptedVectorWasOnChain, NoBackwardConfirmation

(* Rows stay dated by blocks that have happened, in the order they were    *)
(* recorded.                                                               *)
LEMMA RowsOKStep ==
    ASSUME TypeOK, RowsOK, [Next]_vars
    PROVE  RowsOK'
  <1>0. /\ Ids = 1 .. Len(rows) /\ Len(rows) \in Nat
        /\ block \in Nat /\ block' \in Nat /\ Blocks \subseteq Nat
        /\ \A i \in Ids : rows[i] \in Row
    BY RowTypes, TypeStep, ConstantFacts DEF TypeOK
  <1>1. rows' \in Seq(Row) /\ (\A i \in Ids : RowEffect(i)) /\ (Len(rows') = Len(rows) \/ NewRow)
    BY RowsStep
  <1>2. Ids' = 1 .. Len(rows') /\ Len(rows') \in Nat
    BY <1>1 DEF Ids
  <1>3. block <= block'
    BY <1>0, HeadStep
  <1>4. seen' = seen \/ seen' = Never \/ (seen' = block /\ block' = block)
    BY HeadStep
  <1>5. seen \in Nat \cup {Never} /\ Never = -1
    BY <1>0 DEF TypeOK, Never
  <1>6. /\ block' >= 1
        /\ seen' # Never => 1 <= seen' /\ seen' <= block'
    BY <1>0, <1>3, <1>4, <1>5 DEF RowsOK
  <1>7. ASSUME NEW i \in Ids
        PROVE  /\ 1 <= rows'[i].attempt /\ rows'[i].attempt <= rows'[i].born
               /\ rows'[i].born <= block'
               /\ seen' # Never => rows'[i].attempt <= seen'
               /\ rows'[i].state = "pending" =>
                     rows'[i].cause \in {"null", "commit_reveal_pending"}
    <2>1. rows[i].attempt \in Nat /\ rows[i].born \in Nat
      BY <1>0 DEF Row
    <2> QED
      BY <1>0, <1>1, <1>3, <1>4, <1>5, <2>1 DEF RowsOK, RowEffect, SameRow, KeptRow
  <1>8. CASE Len(rows') = Len(rows)
    <2>1. Ids' = Ids
      BY <1>0, <1>2, <1>8
    <2>2. \A i, j \in Ids : i < j =>
              rows'[i].attempt <= rows'[j].attempt /\ rows'[i].epoch <= rows'[j].epoch
      BY <1>1 DEF RowsOK, RowEffect, SameRow
    <2> QED
      BY <1>6, <1>7, <2>1, <2>2 DEF RowsOK
  <1>9. CASE NewRow
    <2> DEFINE n == Len(rows) + 1
    <2>1. Ids' = Ids \cup {n} /\ n \notin Ids /\ \A i \in Ids : i < n
      BY <1>0, <1>2, <1>9 DEF NewRow
    <2>2. /\ rows'[n].state = "pending" /\ rows'[n].cause = "null"
          /\ rows'[n].attempt = seen /\ rows'[n].born = block
          /\ AboveFloor(rows'[n].epoch) /\ seen' = seen /\ block' = block /\ seen # Never
      BY <1>9 DEF NewRow, chain, Usable, UsableAt
    <2>3. \A i \in Ids : rows'[i] = rows[i]
      BY <1>9 DEF NewRow
    <2>4. /\ 1 <= rows'[n].attempt /\ rows'[n].attempt <= rows'[n].born
          /\ rows'[n].born <= block' /\ rows'[n].attempt <= seen'
      BY <1>0, <1>5, <2>2 DEF RowsOK
    <2>5. \A i \in Ids : rows'[i].attempt <= rows'[n].attempt
                          /\ rows'[i].epoch <= rows'[n].epoch
      BY <2>2, <2>3 DEF RowsOK, AboveFloor
    <2> HIDE DEF n
    <2>6. \A i, j \in Ids' : i < j =>
              rows'[i].attempt <= rows'[j].attempt /\ rows'[i].epoch <= rows'[j].epoch
      <3> SUFFICES ASSUME NEW i \in Ids', NEW j \in Ids', i < j
                   PROVE  rows'[i].attempt <= rows'[j].attempt /\ rows'[i].epoch <= rows'[j].epoch
        OBVIOUS
      <3>1. i \in Ids
        BY <1>0, <2>1
      <3>2. CASE j \in Ids
        BY <3>1, <3>2, <2>3 DEF RowsOK
      <3>3. CASE j = n
        BY <3>1, <3>3, <2>5
      <3> QED
        BY <2>1, <3>2, <3>3
    <2>7. \A i \in Ids' :
             /\ 1 <= rows'[i].attempt /\ rows'[i].attempt <= rows'[i].born
             /\ rows'[i].born <= block'
             /\ seen' # Never => rows'[i].attempt <= seen'
             /\ rows'[i].state = "pending" =>
                   rows'[i].cause \in {"null", "commit_reveal_pending"}
      BY <1>7, <2>1, <2>2, <2>4
    <2> QED
      BY <1>6, <2>6, <2>7 DEF RowsOK
  <1> QED
    BY <1>1, <1>8, <1>9

(* A new record is written at the head, over one that stays in an earlier  *)
(* block.                                                                  *)
LEMMA NewRecord ==
    ASSUME TypeOK, RowsOK, ChainOK, NEW r \in Record, r.at = block, r.date <= block,
           weights[block].at < block, block' = block,
           weights' = [weights EXCEPT ![block] = r],
           last' <= block', ~CommitReveal => commits' = {},
           ~CommitReveal => last' = block
    PROVE  ChainOK'
  <1>0. /\ block \in Nat /\ block >= 1 /\ block \in Blocks /\ Blocks \subseteq Nat
        /\ weights \in [Blocks -> Record] /\ \A b \in 1 .. block : b \in Blocks
    BY ConstantFacts DEF TypeOK, RowsOK, Blocks
  <1>1. /\ \A b \in Blocks \ {block} : weights'[b] = weights[b]
        /\ weights'[block] = r
    BY <1>0
  <1>2. \A b \in Blocks : weights[b].at \in Nat /\ weights[b].date \in Nat /\ weights[b].at \in Blocks
    BY <1>0 DEF Record
  <1>3. \A b \in Blocks : b > block' \/ b = 0 => weights'[b] = NoWeights
    BY <1>0, <1>1 DEF ChainOK
  <1>4. ASSUME NEW b \in 1 .. block'
        PROVE  RecordOK(b)'
    <2>1. CASE b = block
      BY <1>0, <1>1, <2>1 DEF RecordOK
    <2>2. CASE b # block
      <3>1. b \in Blocks /\ b < block /\ weights'[b] = weights[b] /\ RecordOK(b)
        BY <1>0, <1>1, <2>2 DEF ChainOK
      <3>2. weights[b].at \in Blocks \ {block}
        BY <1>0, <1>2, <3>1 DEF RecordOK
      <3>3. weights'[weights[b].at] = weights[weights[b].at]
        BY <1>1, <3>2
      <3> QED
        BY <3>1, <3>3 DEF RecordOK
    <2> QED
      BY <2>1, <2>2
  <1>5. ASSUME NEW a \in 1 .. block', NEW b \in 1 .. block', a <= b
        PROVE  weights'[a].at <= weights'[b].at
    <2>1. CASE b = block
      <3>1. weights'[a].at <= a
        BY <1>4 DEF RecordOK
      <3>2. weights'[a].at \in Nat /\ weights'[b].at = block
        BY <1>0, <1>1, <1>2, <2>1
      <3> QED
        BY <1>0, <1>5, <2>1, <3>1, <3>2
    <2>2. CASE b # block
      <3>1. a # block /\ b < block /\ a \in 1 .. block /\ b \in 1 .. block
        BY <1>0, <1>5, <2>2
      <3> QED
        BY <1>0, <1>1, <1>5, <3>1 DEF ChainOK
    <2> QED
      BY <2>1, <2>2
  <1>6. ~CommitReveal => weights'[block'].at <= last'
    BY <1>0, <1>1
  <1> QED
    BY <1>3, <1>4, <1>5, <1>6 DEF ChainOK

(* Weights stays a history: later blocks are empty, and each block holds   *)
(* what an earlier one held or a write of its own.                         *)
LEMMA ChainOKStep ==
    ASSUME TypeOK, RowsOK, ChainOK, [Next]_vars
    PROVE  ChainOK'
  <1> USE ConstantFacts
  <1>0. /\ block \in Nat /\ block >= 1 /\ block \in Blocks /\ last \in Nat
        /\ weights \in [Blocks -> Record] /\ pool \subseteq Extrinsic /\ commits \subseteq Commit
        /\ \A b \in 1 .. block : b \in Blocks
    BY DEF TypeOK, RowsOK, Blocks
  <1>1. CASE UNCHANGED <<block, last, commits, weights>>
    BY <1>1 DEF ChainOK, RecordOK
  <1>2. CASE Tick
    <2>1. /\ block' = block + 1 /\ block + 1 \in Blocks /\ UNCHANGED <<last, commits>>
          /\ weights'[block + 1] = weights[block]
          /\ \A b \in Blocks \ {block + 1} : weights'[b] = weights[b]
      BY <1>0, <1>2 DEF Tick, Blocks
    <2>2. \A b \in Blocks : weights[b].at \in Nat /\ weights[b].at \in Blocks
      BY <1>0 DEF Record
    <2>3. \A b \in Blocks : b > block' \/ b = 0 => weights'[b] = NoWeights
      BY <1>0, <2>1 DEF ChainOK
    <2>4. ASSUME NEW b \in 1 .. block'
          PROVE  \E a \in 1 .. block : a <= b /\ weights'[b] = weights[a]
                                       /\ (b <= block => a = b) /\ (b > block => a = block)
      <3>1. CASE b = block + 1
        BY <1>0, <2>1, <3>1
      <3>2. CASE b # block + 1
        <4>1. b \in 1 .. block
          BY <1>0, <2>1, <3>2
        <4> QED
          BY <1>0, <2>1, <4>1, <3>2
      <3> QED
        BY <3>1, <3>2
    <2>5. ASSUME NEW b \in 1 .. block'
          PROVE  RecordOK(b)'
      <3>1. PICK a \in 1 .. block : a <= b /\ weights'[b] = weights[a]
        BY <2>4
      <3>2. RecordOK(a)
        BY DEF ChainOK
      <3>3. weights[a].at \in Blocks \ {block + 1}
        BY <1>0, <2>2, <3>2 DEF RecordOK
      <3>4. weights'[weights[a].at] = weights[weights[a].at]
        BY <2>1, <3>3
      <3>5. weights'[b].at <= b
        BY <1>0, <2>2, <3>1, <3>2 DEF RecordOK
      <3> QED
        BY <3>1, <3>2, <3>4, <3>5 DEF RecordOK
    <2>6. ASSUME NEW a \in 1 .. block', NEW b \in 1 .. block', a <= b
          PROVE  weights'[a].at <= weights'[b].at
      <3>1. PICK c \in 1 .. block : c <= a /\ weights'[a] = weights[c]
                                    /\ (a <= block => c = a) /\ (a > block => c = block)
        BY <2>4
      <3>2. PICK d \in 1 .. block : d <= b /\ weights'[b] = weights[d]
                                    /\ (b <= block => d = b) /\ (b > block => d = block)
        BY <2>4
      <3>3. c <= d
        BY <1>0, <2>1, <2>6, <3>1, <3>2
      <3> QED
        BY <3>1, <3>2, <3>3 DEF ChainOK
    <2>7. last' <= block' /\ (~CommitReveal => commits' = {})
          /\ (~CommitReveal => weights'[block'].at <= last')
      BY <1>0, <2>1 DEF ChainOK
    <2> QED
      BY <2>3, <2>5, <2>6, <2>7 DEF ChainOK
  <1>3. ASSUME NEW x \in pool, Include(x)
        PROVE  ChainOK'
    <2>1. block' = block /\ last' = block
      BY <1>3 DEF Include
    <2>2. CASE CommitReveal
      <3>1. weights' = weights
        BY <1>3, <2>2 DEF Include
      <3> QED
        BY <1>0, <2>1, <2>2, <3>1 DEF ChainOK, RecordOK
    <2>3. CASE ~CommitReveal
      <3> DEFINE r == [id |-> x.id, vec |-> x.vec, at |-> block, date |-> block]
      <3>1. r \in Record
        BY <1>0 DEF Extrinsic, Record
      <3>2. weights' = [weights EXCEPT ![block] = r] /\ commits' = commits /\ ~RateLimited
        BY <1>3, <2>3 DEF Include
      <3>3. last < block
        BY <1>0, <3>2 DEF RateLimited
      <3>4. weights[block].at < block
        <4>1. weights[block].at <= last
          BY <2>3 DEF ChainOK
        <4>2. weights[block].at \in Nat
          BY <1>0 DEF Record
        <4> QED
          BY <1>0, <3>3, <4>1, <4>2
      <3>5. r.at = block /\ r.date <= block
        BY <1>0
      <3>6. last' <= block' /\ commits' = {}
        BY <1>0, <2>1, <2>3, <3>2 DEF ChainOK
      <3> HIDE DEF r
      <3> QED
        BY <2>1, <3>1, <3>2, <3>4, <3>5, <3>6, NewRecord
    <2> QED
      BY <2>2, <2>3
  <1>4. ASSUME NEW c \in commits, Reveal(c)
        PROVE  ChainOK'
    <2>1. c \in Commit /\ CommitReveal /\ c.at < block /\ weights[block].at < block
          /\ block' = block /\ last' = last
      BY <1>0, <1>4 DEF Reveal, ChainOK
    <2>2. PICK d \in {c.at, block} : weights' = [weights EXCEPT ![block] =
              [id |-> c.id, vec |-> c.vec, at |-> block, date |-> d]]
      BY <1>4 DEF Reveal
    <2> DEFINE r == [id |-> c.id, vec |-> c.vec, at |-> block, date |-> d]
    <2>3. r \in Record /\ d <= block
      BY <1>0, <2>1, <2>2 DEF Commit, Record
    <2>4. r.at = block /\ r.date <= block /\ weights' = [weights EXCEPT ![block] = r]
      BY <2>2, <2>3
    <2>5. last' <= block'
      BY <2>1 DEF ChainOK
    <2> HIDE DEF r
    <2> QED
      BY <2>1, <2>3, <2>4, <2>5, NewRecord
  <1>5. ASSUME NEW c \in commits, LoseCommit(c)
        PROVE  ChainOK'
    <2>1. CommitReveal
      BY <1>5 DEF ChainOK
    <2> QED
      BY <1>5, <2>1 DEF LoseCommit, ChainOK, RecordOK
  <1>6. CASE (\E x \in pool : Evict(x)) \/ Broadcast \/ ChainRejects
    BY <1>1, <1>6 DEF Evict, Broadcast, ChainRejects
  <1> QED
    BY <1>1, <1>2, <1>3, <1>4, <1>5, <1>6, ChainStep DEF chain

(* Whatever a step does to a row, the writes it had still match it.        *)
LEMMA CarriesStep ==
    ASSUME TypeOK, [Next]_vars, NEW i \in Ids, NEW v \in Vectors, Carries(rows[i], v)
    PROVE  i \in Ids' /\ Carries(rows'[i], v)
           /\ rows'[i].born = rows[i].born /\ rows[i].born \in Nat
  <1>0. /\ rows[i] \in Row /\ FinalizedHeads \subseteq Blocks /\ weights \in [Blocks -> Record]
        /\ Ids = 1 .. Len(rows) /\ Len(rows) \in Nat /\ Blocks \subseteq Nat
    BY RowTypes, ConstantFacts DEF TypeOK, FinalizedHeads
  <1>1. RowEffect(i) /\ rows' \in Seq(Row) /\ (Len(rows') = Len(rows) \/ NewRow)
    BY RowsStep
  <1>2. i \in Ids'
    BY <1>0, <1>1 DEF Ids, NewRow
  <1>3. Carries(rows'[i], v)
    <2>1. CASE KeptRow(i)
      BY <2>1 DEF KeptRow, Carries
    <2>2. CASE rows'[i].state = "accepted" /\ AcceptedNow(i)
      <3>1. PICK f \in FinalizedHeads :
                /\ rows'[i].vec = weights[f].vec
                /\ \/ Confirmed(i, f)
                   \/ Proof(f) /\ i = cur /\ pc = "inflight"
        BY <2>2 DEF AcceptedNow
      <3>2. rows[i].vec = v /\ weights[f].vec \in Vectors
        BY <1>0, <2>2 DEF AcceptedNow, Carries, Record
      <3>3. Matches(v, weights[f].vec)
        <4>1. CASE Confirmed(i, f)
          BY <3>2, <4>1, NearAssumption DEF Confirmed, Matches
        <4>2. CASE Proof(f) /\ i = cur
          BY <3>2, <4>2, NearAssumption DEF Proof, Matches
        <4> QED
          BY <3>1, <4>1, <4>2
      <3> QED
        BY <2>2, <3>1, <3>3 DEF Carries
    <2>3. CASE rows'[i].state = "abandoned" /\ AbandonedNow(i)
      BY <2>3 DEF AbandonedNow, Carries
    <2> QED
      BY <1>1, <2>1, <2>2, <2>3 DEF RowEffect
  <1> QED
    BY <1>0, <1>1, <1>2, <1>3 DEF RowEffect, SameRow, Row

(* A write stays a write of its row, whatever the step.                    *)
LEMMA WritesStable ==
    ASSUME TypeOK, RowsOK, [Next]_vars
    PROVE  /\ \A x \in Extrinsic : SentOK(x) => SentOK(x)'
           /\ \A c \in Commit : CommittedOK(c) => CommittedOK(c)'
           /\ \A r \in Record : WrittenOK(r) => WrittenOK(r)'
  <1>0. block \in Nat /\ block' \in Nat /\ block <= block' /\ Blocks \subseteq Nat
    BY HeadStep, TypeStep, ConstantFacts DEF TypeOK
  <1>1. ASSUME NEW x \in Extrinsic, SentOK(x) PROVE SentOK(x)'
    <2>1. x.vec \in Vectors /\ x.sent \in Nat
      BY <1>0 DEF Extrinsic
    <2>2. x.id \in Ids' /\ Carries(rows'[x.id], x.vec) /\ rows'[x.id].born = rows[x.id].born
      BY <1>1, <2>1, CarriesStep DEF SentOK
    <2> QED
      BY <1>0, <1>1, <2>1, <2>2 DEF SentOK
  <1>2. ASSUME NEW c \in Commit, CommittedOK(c) PROVE CommittedOK(c)'
    <2>1. c.vec \in Vectors /\ c.at \in Nat
      BY <1>0 DEF Commit
    <2>2. c.id \in Ids' /\ Carries(rows'[c.id], c.vec) /\ rows'[c.id].born = rows[c.id].born
      BY <1>2, <2>1, CarriesStep DEF CommittedOK
    <2> QED
      BY <1>0, <1>2, <2>1, <2>2 DEF CommittedOK
  <1>3. ASSUME NEW r \in Record, WrittenOK(r) PROVE WrittenOK(r)'
    <2>1. r.vec \in Vectors
      BY DEF Record
    <2>2. r.id \in Ids' /\ Carries(rows'[r.id], r.vec) /\ rows'[r.id].born = rows[r.id].born
      BY <1>3, <2>1, CarriesStep DEF WrittenOK
    <2> QED
      BY <1>3, <2>2 DEF WrittenOK
  <1> QED
    BY <1>1, <1>2, <1>3

(* Every write in the pool, waiting for its reveal or on chain stays the   *)
(* write of a recorded row, within its windows.                            *)
LEMMA WritesOKStep ==
    ASSUME TypeOK, RowsOK, ChainOK, WritesOK, [Next]_vars
    PROVE  WritesOK'
  <1> USE ConstantFacts
  <1>0. /\ block \in Nat /\ block >= 1 /\ block \in Blocks
        /\ weights \in [Blocks -> Record] /\ pool \subseteq Extrinsic /\ commits \subseteq Commit
        /\ \A b \in 1 .. block : b \in Blocks
    BY DEF TypeOK, RowsOK, Blocks
  <1>a. \A i \in Ids : rows[i].born \in Nat
    BY RowTypes DEF Row
  <1>1. /\ \A x \in pool : SentOK(x) /\ SentOK(x)'
        /\ \A c \in commits : CommittedOK(c) /\ CommittedOK(c)'
        /\ \A b \in 1 .. block : weights[b].at # 0 => WrittenOK(weights[b])
        /\ \A b \in 1 .. block : \A r \in Record :
              r = weights[b] /\ r.at # 0 => WrittenOK(r)'
    BY <1>0, WritesStable DEF WritesOK
  <1>2. \A x \in pool' : SentOK(x)'
    <2>1. CASE pool' \subseteq pool
      BY <1>1, <2>1
    <2>2. CASE Broadcast
      <3>0. PICK y : y = [id |-> cur, vec |-> rows[cur].vec, sent |-> block, try |-> tries + 1]
        OBVIOUS
      <3>1. cur \in Pending /\ cur \in Ids /\ pool' = pool \cup {y} /\ block <= rows[cur].born + SubmitWindow
            /\ block' = block /\ rows' = rows
        BY <2>2, <3>0, CurPending DEF Broadcast, Submitting, Pending
      <3>2. rows[cur].vec \in Vectors
        BY <3>1, RowTypes DEF Row
      <3>3. Carries(rows[cur], rows[cur].vec)
        BY <3>2, NearAssumption DEF Carries, Matches
      <3>4. rows[cur].born <= block
        BY <3>1 DEF RowsOK
      <3>5. y.id \in Ids' /\ Carries(rows'[y.id], y.vec) /\ rows'[y.id].born <= y.sent
            /\ y.sent <= block' /\ y.sent <= rows'[y.id].born + SubmitWindow
        BY <1>0, <3>0, <3>1, <3>3, <3>4 DEF Ids
      <3>6. SentOK(y)'
        BY <3>5 DEF SentOK
      <3> QED
        BY <1>1, <3>1, <3>6
    <2> QED
      BY <2>1, <2>2, ChainStep
      DEF chain, Tick, Include, Evict, Reveal, LoseCommit, ChainRejects
  <1>3. \A c \in commits' : CommittedOK(c)'
    <2>1. CASE UNCHANGED commits
      BY <1>1, <2>1
    <2>2. ASSUME NEW x \in pool, Include(x), CommitReveal PROVE \A c \in commits' : CommittedOK(c)'
      <3>0. PICK d : d = [id |-> x.id, vec |-> x.vec, at |-> block, gone |-> 0]
        OBVIOUS
      <3>1. commits' = commits \cup {d} /\ block' = block /\ rows' = rows
        BY <2>2, <3>0 DEF Include
      <3>2. x \in Extrinsic /\ SentOK(x)
        BY <1>0, <1>1
      <3>3. d.id \in Ids' /\ Carries(rows'[d.id], d.vec) /\ rows'[d.id].born <= d.at /\ d.at <= block'
        <4>1. rows[x.id].born \in Nat /\ x.sent \in Nat
          BY <1>a, <3>2 DEF SentOK, Extrinsic
        <4> QED
          BY <1>0, <3>0, <3>1, <3>2, <4>1 DEF SentOK, Ids
      <3>4. CommittedOK(d)'
        BY <3>3 DEF CommittedOK
      <3> QED
        BY <1>1, <3>1, <3>4
    <2>3. ASSUME NEW c \in commits, Reveal(c) \/ LoseCommit(c)
          PROVE  \A d \in commits' : CommittedOK(d)'
      <3>0. PICK e : e = [c EXCEPT !.gone = block]
        OBVIOUS
      <3>1. commits' = (commits \ {c}) \cup {e}
        BY <2>3, <3>0 DEF Reveal, LoseCommit
      <3>2. c \in Commit
        BY <1>0
      <3>3. e.id = c.id /\ e.vec = c.vec /\ e.at = c.at
        BY <3>0, <3>2 DEF Commit
      <3>4. CommittedOK(e)'
        BY <1>1, <3>3 DEF CommittedOK
      <3> QED
        BY <1>1, <3>1, <3>4
    <2>4. ASSUME NEW x \in pool, Include(x), ~CommitReveal PROVE UNCHANGED commits
      BY <2>4 DEF Include
    <2> QED
      BY <2>1, <2>2, <2>3, <2>4, ChainStep
      DEF chain, Tick, Evict, Broadcast, ChainRejects
  <1>4. ASSUME NEW b \in 1 .. block', weights'[b].at # 0
        PROVE  WrittenOK(weights[b])'
    <2>1. ASSUME NEW a \in 1 .. block, weights'[b] = weights[a] PROVE WrittenOK(weights[b])'
      <3>1. weights[a] \in Record /\ weights[a].at # 0
        BY <1>0, <1>4, <2>1
      <3>2. PICK r \in Record : r = weights[a]
        BY <3>1
      <3>3. WrittenOK(r)'
        BY <1>1, <3>1, <3>2
      <3> QED
        BY <2>1, <3>2, <3>3 DEF WrittenOK
    <2>2. CASE UNCHANGED <<block, weights>>
      BY <2>1, <2>2
    <2>3. CASE Tick
      <3>1. b = block + 1 => weights'[b] = weights[block]
        BY <1>0, <2>3 DEF Tick, Blocks
      <3>2. b # block + 1 => weights'[b] = weights[b] /\ b \in 1 .. block
        BY <1>0, <2>3 DEF Tick, Blocks
      <3> QED
        BY <1>0, <2>1, <3>1, <3>2
    <2>4. ASSUME NEW r \in Record, weights' = [weights EXCEPT ![block] = r], block' = block,
                 WrittenOK(r)'
          PROVE  WrittenOK(weights[b])'
      <3>1. CASE b = block
        <4>1. weights'[b] = r
          BY <1>0, <2>4, <3>1
        <4> QED
          BY <2>4, <4>1 DEF WrittenOK
      <3>2. CASE b # block
        BY <1>0, <2>1, <2>4, <3>2
      <3> QED
        BY <3>1, <3>2
    <2>5. ASSUME NEW x \in pool, Include(x), ~CommitReveal PROVE WrittenOK(weights[b])'
      <3>0. PICK r : r = [id |-> x.id, vec |-> x.vec, at |-> block, date |-> block]
        OBVIOUS
      <3>1. weights' = [weights EXCEPT ![block] = r] /\ block' = block /\ rows' = rows
            /\ block <= x.sent + Mortality
        BY <2>5, <3>0 DEF Include
      <3>2. x \in Extrinsic /\ SentOK(x) /\ x.sent \in Nat
        BY <1>0, <1>1 DEF Extrinsic
      <3>3. r \in Record
        BY <1>0, <3>0, <3>2 DEF Extrinsic, Record
      <3>4. /\ r.id \in Ids' /\ Carries(rows'[r.id], r.vec) /\ rows'[r.id].born <= r.date
            /\ r.date = r.at
        BY <1>0, <1>a, <3>0, <3>1, <3>2 DEF SentOK, Ids
      <3>5. r.at <= rows'[r.id].born + SubmitWindow + Mortality
        <4>1. rows[x.id].born \in Nat /\ x.sent <= rows[x.id].born + SubmitWindow
          BY <1>a, <3>2 DEF SentOK
        <4>2. block <= rows[x.id].born + SubmitWindow + Mortality
          BY <1>0, <3>1, <3>2, <4>1
        <4> QED
          BY <3>0, <3>1, <4>2
      <3>6. WrittenOK(r)'
        BY <3>4, <3>5 DEF WrittenOK
      <3> QED
        BY <2>4, <3>1, <3>3, <3>6
    <2>6. ASSUME NEW x \in pool, Include(x), CommitReveal PROVE UNCHANGED <<block, weights>>
      BY <2>6 DEF Include
    <2>7. ASSUME NEW c \in commits, Reveal(c) PROVE WrittenOK(weights[b])'
      <3>1. PICK d \in {c.at, block} : weights' = [weights EXCEPT ![block] =
                [id |-> c.id, vec |-> c.vec, at |-> block, date |-> d]]
        BY <2>7 DEF Reveal
      <3>0. PICK r : r = [id |-> c.id, vec |-> c.vec, at |-> block, date |-> d]
        OBVIOUS
      <3>2. block' = block /\ rows' = rows /\ CommitReveal /\ c \in Commit /\ CommittedOK(c)
            /\ weights' = [weights EXCEPT ![block] = r]
        BY <1>0, <1>1, <2>7, <3>0, <3>1 DEF Reveal, ChainOK
      <3>3. r \in Record
        BY <1>0, <3>0, <3>1, <3>2 DEF Commit, Record
      <3>4. r.id \in Ids' /\ Carries(rows'[r.id], r.vec) /\ rows'[r.id].born <= r.date
        <4>1. rows[c.id].born <= d
          <5>1. rows[c.id].born <= c.at /\ c.at <= block /\ c.id \in Ids
            BY <3>2 DEF CommittedOK
          <5>2. c.at \in Nat /\ rows[c.id].born \in Nat
            BY <1>a, <3>2, <5>1 DEF Commit
          <5> QED
            BY <1>0, <3>1, <5>1, <5>2
        <4> QED
          BY <3>0, <3>2, <4>1 DEF CommittedOK, Ids
      <3>5. WrittenOK(r)'
        BY <3>2, <3>4 DEF WrittenOK
      <3> QED
        BY <2>4, <3>2, <3>3, <3>5
    <2> QED
      BY <2>2, <2>3, <2>5, <2>6, <2>7, ChainStep
      DEF chain, Evict, LoseCommit, Broadcast, ChainRejects
  <1> QED
    BY <1>2, <1>3, <1>4 DEF WritesOK

(* A reconcile pass keeps revisiting only rows that existed when it began. *)
LEMMA TodoOKStep ==
    ASSUME TypeOK, RowsOK, TodoOK, [Next]_vars
    PROVE  TodoOK'
  <1> SUFFICES ASSUME CommitReveal, NEW i \in todo'
               PROVE  rows'[i].cause = "commit_reveal_pending"
    BY DEF TodoOK
  <1>0. /\ i \in Pending' /\ rows'[i].state = "pending" /\ todo \subseteq Pending
    BY TypeStep DEF TypeOK, Pending
  <1>1. CASE todo' \subseteq todo
    <2>1. i \in Ids /\ RowEffect(i) /\ rows[i].cause = "commit_reveal_pending"
      BY <1>0, <1>1, RowsStep DEF Pending, TodoOK
    <2> QED
      BY <1>0, <2>1 DEF RowEffect, KeptRow
  <1>2. CASE RecoverLegacy
    <2>1. todo' \subseteq Pending \ holds'
      BY <1>2 DEF RecoverLegacy
    <2>2. i \in Pending /\ i \in Ids /\ rows[i] \in Row
          /\ rows[i].cause \in {"null", "commit_reveal_pending"}
      BY <2>1, RowTypes DEF Pending, RowsOK
    <2>3. CASE rows' = Labelled(LegacyIntents)
      BY <2>2, <2>3 DEF Labelled, LegacyIntents, Row
    <2>4. CASE UNCHANGED rows /\ holds' = LegacyIntents
      BY <2>1, <2>2, <2>4 DEF LegacyIntents
    <2> QED
      BY <1>2, <2>3, <2>4 DEF RecoverLegacy
  <1>3. CASE PollReveals
    BY <1>3 DEF PollReveals, PendingReveals
  <1> QED
    BY <1>1, <1>2, <1>3
    DEF Next, Chain, Service, Crash, vars, process, submit, Tick, Include, Evict, Reveal,
        LoseCommit, BeginAttempt, ReconcileRow, ReconcileRaises, Hold, RecordIntent,
        RefuseLocally, Broadcast, ChainRejects, Ambiguous, ClaimProven, CommitClaimed,
        ReadBack, AttemptRaises, Done

-----------------------------------------------------------------------------
(* What the settled rows rest on.                                          *)

(* A row reaches the chain only by the inclusion of one of its writes.     *)
LEMMA NotOnChainStable ==
    ASSUME TypeOK, RowsOK, NEW i, NotOnChain(i), [Next]_vars,
           \A x \in pool : Include(x) => x.id # i
    PROVE  NotOnChain(i)'
  <1>0. /\ block \in Nat /\ block >= 1 /\ block \in Blocks /\ weights \in [Blocks -> Record]
        /\ commits \subseteq Commit
    BY ConstantFacts DEF TypeOK, RowsOK
  <1>1. \A b \in Blocks : weights[b].id # i
    BY DEF NotOnChain
  <1>2. \A c \in commits : c.id # i
    BY DEF NotOnChain
  <1>3. CASE UNCHANGED <<commits, weights>>
    BY <1>3 DEF NotOnChain
  <1>4. CASE Tick
    <2>1. \A b \in Blocks : weights'[b] = weights[b] \/ weights'[b] = weights[block]
      BY <1>0, <1>4 DEF Tick
    <2> QED
      BY <1>0, <1>1, <1>2, <1>4, <2>1 DEF Tick, NotOnChain
  <1>5. ASSUME NEW x \in pool, Include(x) PROVE NotOnChain(i)'
    <2>1. x.id # i
      BY <1>5
    <2>2. \A b \in Blocks : weights'[b].id # i
      <3>1. CASE CommitReveal
        BY <1>1, <1>5, <3>1 DEF Include
      <3>2. CASE ~CommitReveal
        BY <1>0, <1>1, <1>5, <2>1, <3>2 DEF Include
      <3> QED
        BY <3>1, <3>2
    <2>3. \A c \in commits' : c.id # i
      BY <1>2, <1>5, <2>1 DEF Include
    <2> QED
      BY <2>2, <2>3 DEF NotOnChain
  <1>6. ASSUME NEW c \in commits, Reveal(c) \/ LoseCommit(c) PROVE NotOnChain(i)'
    <2>1. c.id # i /\ c \in Commit
      BY <1>0, <1>2
    <2>2. commits' = (commits \ {c}) \cup {[c EXCEPT !.gone = block]}
      BY <1>6 DEF Reveal, LoseCommit
    <2>3. \A d \in commits' : d.id # i
      <3>1. [c EXCEPT !.gone = block].id = c.id
        BY <2>1 DEF Commit
      <3> QED
        BY <1>2, <2>1, <2>2, <3>1
    <2>4. \A b \in Blocks : weights'[b].id # i
      <3>1. CASE LoseCommit(c)
        BY <1>1, <3>1 DEF LoseCommit
      <3>2. CASE Reveal(c)
        BY <1>0, <1>1, <2>1, <3>2 DEF Reveal
      <3> QED
        BY <1>6, <3>1, <3>2
    <2> QED
      BY <2>3, <2>4 DEF NotOnChain
  <1> QED
    BY <1>3, <1>4, <1>5, <1>6, ChainStep DEF chain, Evict, Broadcast, ChainRejects

(* A row that has no number yet has no write.                              *)
LEMMA UnusedIds ==
    ASSUME TypeOK, RowsOK, ChainOK, WritesOK, NEW i \in Nat \ {0}, i \notin Ids
    PROVE  NotOnChain(i) /\ \A x \in pool : x.id # i
  <1>0. /\ block \in Nat /\ Blocks \subseteq Nat /\ NoWeights.id = 0
    BY ConstantFacts DEF TypeOK, NoWeights
  <1>1. ASSUME NEW b \in Blocks PROVE weights[b].id # i
    <2>1. CASE b > block \/ b = 0
      BY <1>0, <2>1 DEF ChainOK
    <2>2. CASE b \in 1 .. block
      BY <1>0, <2>2 DEF ChainOK, RecordOK, WritesOK, WrittenOK
    <2> QED
      BY <1>0, <2>1, <2>2
  <1> QED
    BY <1>1 DEF NotOnChain, WritesOK, SentOK, CommittedOK

(* A row no write of which is ambiguous stays without a write the process  *)
(* does not know of.                                                       *)
LEMMA CleanOKStep ==
    ASSUME TypeOK, RowsOK, ChainOK, WritesOK, CleanOK, [Next]_vars
    PROVE  CleanOK'
  <1>1. CASE pc' \in {"idle", "legacy", "rows", "poll"}
    BY <1>1 DEF CleanOK
  <1>2. CASE UNCHANGED <<chain, process>>
    BY <1>2 DEF CleanOK, chain, process, NotOnChain
  <1>3. CASE Chain
    <2>0. pool' \subseteq pool /\ UNCHANGED <<pc, cur, amb>>
      BY <1>3 DEF Chain, Tick, Include, Evict, Reveal, LoseCommit, process
    <2>1. pc' \in {"reread", "lastread"} => amb'
      BY <2>0 DEF CleanOK
    <2>2. PICK i : i = cur
      OBVIOUS
    <2>3. ASSUME pc = "write", ~amb PROVE NotOnChain(cur)' /\ \A x \in pool' : x.id # cur'
      <3>1. NotOnChain(i) /\ \A x \in pool : x.id # i
        BY <2>2, <2>3 DEF CleanOK
      <3>2. NotOnChain(i)'
        BY <3>1, NotOnChainStable
      <3> QED
        BY <2>0, <2>2, <3>1, <3>2 DEF NotOnChain
    <2>4. ASSUME pc = "inflight", ~amb, NEW x \in pool', x.id = cur PROVE NotOnChain(cur)'
      <3>1. NotOnChain(i) /\ x \in pool /\ x.id = i
            /\ \A y \in pool : y.id = i => y = x
        BY <2>0, <2>2, <2>4 DEF CleanOK
      <3>2. \A y \in pool : Include(y) => y.id # i
        BY <2>4, <3>1 DEF Include
      <3>3. NotOnChain(i)'
        BY <3>1, <3>2, NotOnChainStable
      <3> QED
        BY <2>0, <2>2, <3>3 DEF NotOnChain
    <2>5. pc = "inflight" /\ ~amb => \A x, y \in pool' : x.id = cur /\ y.id = cur => x = y
      BY <2>0 DEF CleanOK
    <2> QED
      BY <2>0, <2>1, <2>3, <2>4, <2>5 DEF CleanOK
  <1>4. ASSUME NEW e \in Epochs, RecordIntent(e) PROVE CleanOK'
    <2>1. PICK i : i = Len(rows) + 1
      OBVIOUS
    <2>2. i \in Nat \ {0} /\ i \notin Ids
      BY <2>1, RowTypes
    <2>3. NotOnChain(i) /\ \A x \in pool : x.id # i
      BY <2>2, UnusedIds
    <2>4. pc' = "write" /\ cur' = i /\ UNCHANGED chain
      BY <1>4, <2>1 DEF RecordIntent
    <2> QED
      BY <2>3, <2>4 DEF CleanOK, NotOnChain, chain
  <1>5. CASE Broadcast
    <2>1. PICK y : y = [id |-> cur, vec |-> rows[cur].vec, sent |-> block, try |-> tries + 1]
      OBVIOUS
    <2>2. pool' = pool \cup {y} /\ pc = "write" /\ pc' = "inflight"
          /\ UNCHANGED <<cur, amb, weights, commits>>
      BY <1>5, <2>1 DEF Broadcast
    <2>3. ~amb => NotOnChain(cur) /\ \A x \in pool : x.id # cur
      BY <2>2 DEF CleanOK
    <2> QED
      BY <2>2, <2>3 DEF CleanOK, NotOnChain
  <1>6. CASE RefuseLocally \/ ChainRejects
    BY <1>1, <1>6 DEF RefuseLocally, ChainRejects, Rejected, Done, submit, CleanOK
  <1>7. CASE Ambiguous
    BY <1>7 DEF Ambiguous, CleanOK
  <1>8. CASE ReadBack
    BY <1>1, <1>8 DEF ReadBack, Done, submit, CleanOK
  <1> QED
    BY <1>1, <1>2, <1>3, <1>4, <1>5, <1>6, <1>7, <1>8
    DEF Next, Service, Crash, vars, BeginAttempt, RecoverLegacy, PollReveals,
        ReconcileRow, ReconcileRaises, Hold, ClaimProven, CommitClaimed, AttemptRaises,
        Done, process, submit

(* A denial at the end of the settle window means that nothing of the row  *)
(* landed: a landed write would have been read, dated at or after the row. *)
LEMMA DeniedMeansAbsent ==
    ASSUME TypeOK, RowsOK, TodoOK, ChainOK, WritesOK,
           NEW i \in todo, NEW f \in FinalizedHeads, Denied(i, f),
           block - rows[i].born >= AbandonAge
    PROVE  NotOnChain(i) /\ \A x \in pool : x.id = i => block > x.sent + Mortality
  <1> USE ConstantFacts
  <1>0. /\ block \in Nat /\ f \in Blocks /\ f \in Nat /\ f <= block /\ block <= f + FinalityLag
        /\ weights \in [Blocks -> Record] /\ pool \subseteq Extrinsic
    BY DEF TypeOK, FinalizedHeads
  <1>1. i \in Ids /\ i \in Nat \ {0}
    BY RowTypes DEF TypeOK, Pending
  <1>2. rows[i].born \in Nat /\ rows[i].attempt \in Nat /\ rows[i].attempt <= rows[i].born
    BY <1>1, RowTypes DEF Row, RowsOK
  <1>3. ~CommitReveal /\ commits = {}
    BY DEF TodoOK, Denied, ChainOK
  <1>4. rows[i].born + SubmitWindow + Mortality < f
    BY <1>0, <1>2, SettleWindowAssumption
  <1>5. weights[f].date < rows[i].attempt
    BY DEF Denied
  <1>6. ASSUME NEW b \in Blocks, weights[b].id = i PROVE FALSE
    <2>1. NoWeights.id = 0
      BY DEF NoWeights
    <2>2. b \in 1 .. block /\ weights[b].at # 0 /\ RecordOK(b)
      <3>1. ~(b > block \/ b = 0)
        BY <1>1, <1>6, <2>1 DEF ChainOK
      <3>2. b \in 1 .. block
        BY <1>0, <3>1
      <3> QED
        BY <1>1, <1>6, <2>1, <3>2 DEF ChainOK, RecordOK
    <2>3. WrittenOK(weights[b])
      BY <2>2 DEF WritesOK
    <2>4. PICK a : a = weights[b].at
      OBVIOUS
    <2>5. /\ a \in Nat /\ a # 0 /\ a <= b /\ weights[a].at = a
          /\ rows[i].born <= a /\ a <= rows[i].born + SubmitWindow + Mortality
      <3>1. a \in Nat
        BY <1>0, <2>4 DEF Record
      <3> QED
        BY <1>3, <1>6, <2>2, <2>3, <2>4, <3>1 DEF RecordOK, WrittenOK
    <2>6. a \in 1 .. block /\ f \in 1 .. block /\ a <= f
      BY <1>0, <1>2, <1>4, <2>5
    <2>7. a <= weights[f].at
      BY <2>5, <2>6 DEF ChainOK
    <2>8. weights[f].at \in Nat /\ weights[f].date \in Nat
      BY <1>0 DEF Record
    <2>9. weights[f].date = weights[f].at
      <3>1. weights[f].at # 0
        BY <2>5, <2>7, <2>8
      <3> QED
        BY <1>3, <2>6, <3>1 DEF WritesOK, WrittenOK
    <2> QED
      BY <1>2, <1>5, <2>5, <2>7, <2>8, <2>9
  <1>7. ASSUME NEW x \in pool, x.id = i PROVE block > x.sent + Mortality
    <2>1. x.sent \in Nat /\ x.sent <= rows[i].born + SubmitWindow
      BY <1>0, <1>7 DEF WritesOK, SentOK, Extrinsic
    <2> QED
      BY <1>0, <1>2, <2>1, SettleWindowAssumption
  <1> QED
    BY <1>3, <1>6, <1>7 DEF NotOnChain

(* Abandoned rows stay without a write on chain and without one that can   *)
(* still land: the settle window of reconcile.                             *)
LEMMA AbandonedOKStep ==
    ASSUME TypeOK, RowsOK, TodoOK, ChainOK, WritesOK, CleanOK, AbandonedOK, [Next]_vars
    PROVE  AbandonedOK'
  <1>0. /\ block \in Nat /\ block' \in Nat /\ block <= block' /\ Mortality \in Nat
        /\ pool \subseteq Extrinsic /\ Blocks \subseteq Nat
        /\ Ids = 1 .. Len(rows) /\ Len(rows) \in Nat
    BY RowTypes, HeadStep, TypeStep, ConstantFacts DEF TypeOK
  <1>1. rows' \in Seq(Row) /\ (\A i \in Ids : RowEffect(i)) /\ (Len(rows') = Len(rows) \/ NewRow)
    BY RowsStep
  <1> SUFFICES ASSUME NEW i \in Ids', rows'[i].state = "abandoned"
               PROVE  /\ NotOnChain(i)'
                      /\ \A x \in pool' : x.id = i => block' > x.sent + Mortality
    BY DEF AbandonedOK
  <1>2. i \in Ids /\ RowEffect(i)
    <2>1. i \in 1 .. Len(rows')
      BY <1>1 DEF Ids
    <2>2. i \in Ids
      BY <1>0, <1>1, <2>1 DEF NewRow
    <2> QED
      BY <1>1, <2>2
  <1>3. CASE AbandonedNow(i)
    <2>0. UNCHANGED <<block, commits, weights>>
      BY <1>3 DEF AbandonedNow
    <2>1. NotOnChain(i) /\ \A x \in pool' : x.id = i => block > x.sent + Mortality
      <3>1. CASE /\ i \in todo /\ block - rows[i].born >= AbandonAge
                 /\ \E f \in FinalizedHeads : Denied(i, f)
                 /\ pool' = pool
        BY <3>1, DeniedMeansAbsent
      <3>2. CASE i = cur /\ ~amb /\ pc = "write" /\ pool' = pool
        BY <3>2 DEF CleanOK
      <3>3. CASE /\ i = cur /\ ~amb /\ pc = "inflight"
                 /\ \E x \in pool : x.id = cur /\ pool' = pool \ {x}
        BY <3>3 DEF CleanOK
      <3> QED
        BY <1>3, <3>1, <3>2, <3>3 DEF AbandonedNow
    <2> QED
      BY <2>0, <2>1 DEF NotOnChain
  <1>4. CASE KeptRow(i)
    <2>1. rows[i].state = "abandoned"
      BY <1>4 DEF KeptRow
    <2>2. NotOnChain(i) /\ \A x \in pool : x.id = i => block > x.sent + Mortality
      BY <1>2, <2>1 DEF AbandonedOK
    <2>3. \A x \in pool : Include(x) => x.id # i
      <3> SUFFICES ASSUME NEW x \in pool, Include(x), x.id = i PROVE FALSE
        OBVIOUS
      <3>1. block <= x.sent + Mortality /\ x.sent \in Nat
        BY <1>0 DEF Include, Extrinsic
      <3> QED
        BY <1>0, <2>2, <3>1
    <2>4. NotOnChain(i)'
      BY <2>2, <2>3, NotOnChainStable
    <2>5. \A x \in pool' : x.id = i => x \in pool
      <3>1. CASE pool' \subseteq pool
        BY <3>1
      <3>2. CASE Broadcast
        <4>1. cur # i
          BY <2>1, <3>2, CurPending DEF Broadcast, Submitting, Pending
        <4> QED
          BY <3>2, <4>1 DEF Broadcast
      <3> QED
        BY <3>1, <3>2, ChainStep
        DEF chain, Tick, Include, Evict, Reveal, LoseCommit, ChainRejects
    <2>6. \A x \in pool : x.sent \in Nat
      BY <1>0 DEF Extrinsic
    <2> QED
      BY <1>0, <2>2, <2>4, <2>5, <2>6
  <1> QED
    BY <1>2, <1>3, <1>4 DEF RowEffect

(* A record that is on chain stays readable at the block it was written in. *)
LEMMA RecordStays ==
    ASSUME TypeOK, RowsOK, ChainOK, [Next]_vars, NEW b \in 1 .. block, weights[b].at # 0
    PROVE  \E a \in 1 .. block' : weights'[a] = weights[b]
  <1> USE ConstantFacts
  <1>0. /\ block \in Nat /\ block \in Blocks /\ weights \in [Blocks -> Record]
        /\ b \in Blocks /\ RecordOK(b)
    BY DEF TypeOK, Blocks, ChainOK
  <1>1. CASE UNCHANGED <<block, weights>>
    BY <1>1
  <1>2. CASE Tick
    BY <1>0, <1>2 DEF Tick, Blocks
  <1>3. ASSUME NEW r, weights' = [weights EXCEPT ![block] = r], block' = block,
               weights[block].at < block
        PROVE  \E a \in 1 .. block' : weights'[a] = weights[b]
    <2>1. CASE b # block
      BY <1>0, <1>3, <2>1
    <2>2. CASE b = block
      <3>1. weights[b].at \in 1 .. block /\ weights[b].at \in Blocks \ {block}
        <4>1. weights[b].at \in Blocks /\ weights[b].at \in Nat
          BY <1>0 DEF Record
        <4> QED
          BY <1>0, <1>3, <2>2, <4>1
      <3>2. weights'[weights[b].at] = weights[b]
        BY <1>0, <1>3, <3>1 DEF RecordOK
      <3> QED
        BY <1>3, <3>1, <3>2
    <2> QED
      BY <2>1, <2>2
  <1>4. ASSUME NEW x \in pool, Include(x) PROVE \E a \in 1 .. block' : weights'[a] = weights[b]
    <2>1. CASE CommitReveal
      BY <1>1, <1>4, <2>1 DEF Include
    <2>2. CASE ~CommitReveal
      <3>1. last \in Nat /\ block >= 1 /\ last < block
        BY <1>0, <1>4 DEF Include, RateLimited, TypeOK, RowsOK
      <3>2. weights[block].at <= last /\ weights[block].at \in Nat
        BY <1>0, <2>2 DEF ChainOK, Record
      <3>3. weights[block].at < block
        BY <1>0, <3>1, <3>2
      <3> QED
        BY <1>3, <1>4, <2>2, <3>3 DEF Include
    <2> QED
      BY <2>1, <2>2
  <1>5. ASSUME NEW c \in commits, Reveal(c) PROVE \E a \in 1 .. block' : weights'[a] = weights[b]
    BY <1>3, <1>5 DEF Reveal
  <1> QED
    BY <1>1, <1>2, <1>4, <1>5, ChainStep DEF chain, Evict, LoseCommit, Broadcast, ChainRejects

(* What is read when a row is accepted was written by a recorded row.      *)
LEMMA ReadIsWritten ==
    ASSUME TypeOK, RowsOK, ChainOK, WritesOK, NEW i \in Ids, NEW f \in FinalizedHeads,
           Confirmed(i, f) \/ Proof(f)
    PROVE  f \in 1 .. block /\ weights[f].at # 0 /\ weights[f].date >= 1
           /\ WrittenOK(weights[f])
  <1>0. /\ f \in Blocks /\ f \in Nat /\ f <= block /\ block \in Nat
        /\ weights \in [Blocks -> Record] /\ sentAt \in Nat
    BY ConstantFacts DEF TypeOK, FinalizedHeads
  <1>1. weights[f].date \in Nat /\ rows[i].attempt \in Nat /\ rows[i].attempt >= 1
    BY <1>0, RowTypes, ConstantFacts DEF Record, Row, RowsOK
  <1>2. weights[f].date >= 1
    BY <1>0, <1>1 DEF Confirmed, Proof
  <1>3. NoWeights.date = 0
    BY DEF NoWeights
  <1>4. f \in 1 .. block
    BY <1>0, <1>2, <1>3 DEF ChainOK
  <1>5. weights[f].at # 0
    BY <1>2, <1>3, <1>4 DEF ChainOK, RecordOK
  <1> QED
    BY <1>2, <1>4, <1>5 DEF WritesOK

(* Acceptance keeps the vector and the author read back from the chain.    *)
LEMMA AcceptedStep ==
    ASSUME TypeOK, RowsOK, ChainOK, WritesOK, AcceptedDated, AcceptedVectorWasOnChain,
           NoBackwardConfirmation, [Next]_vars
    PROVE  AcceptedDated' /\ AcceptedVectorWasOnChain' /\ NoBackwardConfirmation'
  <1>0. /\ block \in Nat /\ Ids = 1 .. Len(rows) /\ Len(rows) \in Nat
    BY RowTypes, ConstantFacts DEF TypeOK
  <1>1. rows' \in Seq(Row) /\ (\A i \in Ids : RowEffect(i)) /\ (Len(rows') = Len(rows) \/ NewRow)
    BY RowsStep
  <1> SUFFICES ASSUME NEW i \in Ids', rows'[i].state = "accepted"
               PROVE  /\ rows'[i].block >= 1
                      /\ rows'[i].form = "u16"
                      /\ \E b \in 1 .. block' : /\ weights'[b].vec = rows'[i].vec
                                                /\ weights'[b].date = rows'[i].block
                                                /\ weights'[b].id = rows'[i].by
                      /\ rows'[i].by <= i
    BY DEF AcceptedDated, AcceptedVectorWasOnChain, NoBackwardConfirmation
  <1>2. i \in Ids /\ RowEffect(i) /\ i \in Nat
    <2>1. i \in 1 .. Len(rows')
      BY <1>1 DEF Ids
    <2>2. i \in Ids
      BY <1>0, <1>1, <2>1 DEF NewRow
    <2> QED
      BY <1>0, <1>1, <2>2
  <1>3. ASSUME NEW b \in 1 .. block, weights[b].at # 0, rows'[i].form = "u16",
               weights[b].vec = rows'[i].vec, weights[b].date = rows'[i].block,
               weights[b].id = rows'[i].by
        PROVE  \E a \in 1 .. block' : /\ weights'[a].vec = rows'[i].vec
                                      /\ weights'[a].date = rows'[i].block
                                      /\ weights'[a].id = rows'[i].by
    BY <1>3, RecordStays
  <1>4. CASE KeptRow(i)
    <2>1. /\ rows[i].state = "accepted" /\ rows'[i].form = rows[i].form
          /\ rows'[i].block = rows[i].block /\ rows'[i].by = rows[i].by
          /\ rows'[i].vec = rows[i].vec
      BY <1>4 DEF KeptRow
    <2>2. rows[i].block >= 1 /\ rows[i].form = "u16" /\ rows[i].by <= i
      BY <1>2, <2>1 DEF AcceptedDated, AcceptedVectorWasOnChain, NoBackwardConfirmation
    <2>3. PICK b \in 1 .. block : /\ weights[b].vec = rows[i].vec
                                  /\ weights[b].date = rows[i].block
                                  /\ weights[b].id = rows[i].by
      BY <1>2, <2>1 DEF AcceptedVectorWasOnChain
    <2>4. weights[b].at # 0
      <3>1. RecordOK(b) /\ NoWeights.date = 0
        BY DEF ChainOK, NoWeights
      <3> QED
        BY <2>2, <2>3, <3>1 DEF RecordOK
    <2> QED
      BY <1>3, <2>1, <2>2, <2>3, <2>4
  <1>5. CASE AcceptedNow(i)
    <2>1. PICK f \in FinalizedHeads :
             /\ rows'[i].vec = weights[f].vec /\ rows'[i].form = "u16"
             /\ rows'[i].block = weights[f].date /\ rows'[i].by = weights[f].id
             /\ \/ Confirmed(i, f)
                \/ Proof(f) /\ i = cur /\ pc = "inflight"
      BY <1>5 DEF AcceptedNow
    <2>2. f \in 1 .. block /\ weights[f].at # 0 /\ weights[f].date >= 1 /\ WrittenOK(weights[f])
      BY <1>2, <2>1, ReadIsWritten
    <2>3. weights[f].id \in Ids /\ weights[f].id \in Nat
      BY <1>0, <2>2 DEF WrittenOK
    <2>4. weights[f].id <= i
      <3>1. CASE Confirmed(i, f)
        <4> SUFFICES ASSUME weights[f].id > i PROVE FALSE
          BY <1>2, <2>3
        <4>1. PICK j \in Ids : j = weights[f].id
          BY <2>3
        <4>2. /\ rows[j].attempt \in Nat /\ rows[j].born \in Nat
              /\ rows[j].attempt <= rows[j].born /\ rows[i].attempt <= rows[j].attempt
          BY <1>2, <4>1, RowTypes, ConstantFacts DEF Row, RowsOK
        <4>3. rows[j].born <= weights[f].date /\ Matches(weights[f].vec, rows[j].vec)
          BY <2>2, <4>1 DEF WrittenOK, Carries
        <4>4. weights[f].date \in Nat
          BY ConstantFacts DEF TypeOK, FinalizedHeads, Record
        <4>5. rows[j].attempt <= weights[f].date
          BY <4>2, <4>3, <4>4
        <4>6. j \in Ids \ {i}
          BY <1>2, <4>1, <2>3
        <4>7. TwinExists(i, weights[f])
          BY <4>2, <4>3, <4>5, <4>6 DEF TwinExists
        <4> QED
          BY <3>1, <4>7 DEF Confirmed
      <3>2. CASE i = cur /\ pc = "inflight"
        BY <1>0, <2>3, <3>2, CurPending DEF Submitting
      <3> QED
        BY <2>1, <3>1, <3>2
    <2> QED
      BY <1>3, <2>1, <2>2, <2>4
  <1> QED
    BY <1>2, <1>4, <1>5 DEF RowEffect

(* The inductive invariant is kept by every step.                          *)
LEMMA StepInv == IInv /\ [Next]_vars => IInv'
  <1> SUFFICES ASSUME IInv, [Next]_vars PROVE IInv'
    OBVIOUS
  <1>1. /\ TypeOK /\ RowsOK /\ TodoOK /\ ChainOK /\ WritesOK /\ CleanOK /\ AbandonedOK
        /\ AcceptedDated /\ AcceptedVectorWasOnChain /\ NoBackwardConfirmation
    BY DEF IInv
  <1>2. TypeOK' /\ RowsOK' /\ TodoOK' /\ ChainOK'
    BY <1>1, TypeStep, RowsOKStep, TodoOKStep, ChainOKStep
  <1>3. WritesOK' /\ CleanOK'
    BY <1>1, WritesOKStep, CleanOKStep
  <1>4. AbandonedOK'
    BY <1>1, AbandonedOKStep
  <1>5. AcceptedDated' /\ AcceptedVectorWasOnChain' /\ NoBackwardConfirmation'
    BY <1>1, AcceptedStep
  <1> QED
    BY <1>2, <1>3, <1>4, <1>5 DEF IInv

(* The inductive invariant holds in every reachable state.                 *)
THEOREM Invariance == Spec => []IInv
  BY InitInv, StepInv, PTL DEF Spec

(* accept_with_vector: the vector of an accepted row, and its accepted     *)
(* block, are what Weights held, for every crash point and every read.     *)
THEOREM AcceptedVectorCorrect == Spec => []AcceptedVectorWasOnChain
  <1>1. IInv => AcceptedVectorWasOnChain
    BY DEF IInv
  <1> QED
    BY Invariance, <1>1, PTL

(* _identical_twin_exists: no row is confirmed by the landing of a later   *)
(* row.                                                                    *)
THEOREM NoBackwardConfirmationCorrect == Spec => []NoBackwardConfirmation
  <1>1. IInv => NoBackwardConfirmation
    BY DEF IInv
  <1> QED
    BY Invariance, <1>1, PTL

(* mark_abandoned: an abandoned row is not on chain and never will be.     *)
THEOREM AbandonedCorrect == Spec => []AbandonedNeverLands
  <1>1. IInv => AbandonedNeverLands
    BY DEF IInv, AbandonedOK, NotOnChain, AbandonedNeverLands
  <1> QED
    BY Invariance, <1>1, PTL

(* latest_snapshot_epoch_id: the epochs of recorded rows never regress.    *)
THEOREM EpochCorrect == Spec => []EpochNonRegression
  <1>1. IInv => EpochNonRegression
    BY DEF IInv, RowsOK, EpochNonRegression
  <1> QED
    BY Invariance, <1>1, PTL

-----------------------------------------------------------------------------
(* One open row under commit-reveal.                                       *)

(* Past _recover_legacy_cr_intents, an attempt without a hold has no row   *)
(* whose fate is not labelled.                                             *)
NoLegacyLeft ==
    CommitReveal /\ pc = "rows" /\ holds = {} => LegacyIntents = {}

(* The two facts about open rows under commit-reveal hold initially.       *)
LEMMA InitOpen == Init => NoLegacyLeft /\ OneOpenRowUnderCommitReveal
  BY DEF Init, NoLegacyLeft, OneOpenRowUnderCommitReveal, Pending, Ids

(* Once the recovery of a pass found no hold, no unlabelled row is left    *)
(* under commit-reveal.                                                    *)
LEMMA NoLegacyLeftStep ==
    ASSUME TypeOK, NoLegacyLeft, [Next]_vars
    PROVE  NoLegacyLeft'
  <1> SUFFICES ASSUME CommitReveal, pc' = "rows", holds' = {}, NEW i \in Ids',
                      rows'[i].state = "pending", rows'[i].cause = "null"
               PROVE  FALSE
    BY DEF NoLegacyLeft, LegacyIntents, Pending
  <1>0. (i \in Ids /\ rows[i].state = "pending" /\ rows[i].cause = "null") \/ NewRow
    <2>1. rows' \in Seq(Row) /\ (\A j \in Ids : RowEffect(j)) /\ (Len(rows') = Len(rows) \/ NewRow)
      BY RowsStep
    <2>2. ASSUME Len(rows') = Len(rows) PROVE i \in Ids
      BY <2>1, <2>2, RowTypes DEF Ids
    <2> QED
      BY <2>1, <2>2 DEF RowEffect, KeptRow
  <1>1. CASE pc = "rows" /\ UNCHANGED holds /\ ~NewRow
    BY <1>0, <1>1 DEF NoLegacyLeft, LegacyIntents, Pending
  <1>2. CASE RecoverLegacy
    <2>1. LegacyIntents = {} \/ rows' = Labelled(LegacyIntents)
      BY <1>2 DEF RecoverLegacy
    <2>2. ~NewRow
      BY <1>2, RowTypes DEF RecoverLegacy, NewRow, Labelled, LegacyIntents, Pending, Ids
    <2>3. i \in LegacyIntents
      BY <1>0, <2>2 DEF LegacyIntents, Pending
    <2>4. rows'[i].cause = "commit_reveal_pending"
      BY <1>0, <2>1, <2>2, <2>3, RowTypes DEF Labelled, Row
    <2> QED
      BY <2>4
  <1>3. NewRow => \E e \in Epochs : RecordIntent(e)
    <2>1. ASSUME NewRow PROVE RecordStep
      <3>1. Len(rows') # Len(rows)
        BY <2>1, RowTypes DEF NewRow
      <3> QED
        BY <2>1, <3>1, SameLength, LedgerStep
    <2> QED
      BY <2>1 DEF RecordStep
  <1> QED
    BY <1>1, <1>2, <1>3
    DEF Next, Chain, Service, Crash, vars, process, submit, Tick, Include, Evict, Reveal,
        LoseCommit, BeginAttempt, PollReveals, ReconcileRow, ReconcileRaises, Hold, RecordIntent,
        RefuseLocally, Broadcast, ChainRejects, Ambiguous, ClaimProven, CommitClaimed,
        ReadBack, AttemptRaises, Done, Rejected

(* The gates of attempt_once let no second row be opened under commit-     *)
(* reveal.                                                                 *)
LEMMA OneOpenStep ==
    ASSUME TypeOK, RowsOK, NoLegacyLeft, OneOpenRowUnderCommitReveal, [Next]_vars
    PROVE  OneOpenRowUnderCommitReveal'
  <1> SUFFICES ASSUME CommitReveal, NEW i \in Pending', NEW j \in Pending' PROVE i = j
    BY DEF OneOpenRowUnderCommitReveal
  <1>0. /\ rows' \in Seq(Row) /\ (\A k \in Ids : RowEffect(k)) /\ (Len(rows') = Len(rows) \/ NewRow)
        /\ Ids = 1 .. Len(rows) /\ Len(rows) \in Nat
    BY RowsStep, RowTypes
  <1>1. \A k \in Ids : k \in Pending' => k \in Pending
    BY <1>0 DEF Pending, RowEffect, KeptRow
  <1>2. CASE Len(rows') = Len(rows)
    <2>1. Ids' = Ids
      BY <1>0, <1>2 DEF Ids
    <2> QED
      BY <1>1, <2>1 DEF OneOpenRowUnderCommitReveal, Pending
  <1>3. CASE RecordStep
    <2>1. Pending = {}
      <3>1. LegacyIntents = {} /\ PendingReveals = {}
        BY <1>3 DEF RecordStep, RecordIntent, GatesOpen, NoLegacyLeft
      <3> QED
        BY <3>1 DEF LegacyIntents, PendingReveals, Pending, RowsOK
    <2>2. Pending' \subseteq {Len(rows) + 1}
      <3>1. Ids' \subseteq Ids \cup {Len(rows) + 1}
        BY <1>0 DEF Ids, NewRow
      <3> QED
        BY <1>1, <2>1, <3>1 DEF Pending
    <2> QED
      BY <2>2
  <1> QED
    BY <1>2, <1>3, SameLength, LedgerStep

(* Both facts about open rows together are inductive.                      *)
LEMMA OpenStep ==
    IInv /\ NoLegacyLeft /\ OneOpenRowUnderCommitReveal /\ [Next]_vars
        => (NoLegacyLeft /\ OneOpenRowUnderCommitReveal)'
  BY NoLegacyLeftStep, OneOpenStep DEF IInv

(* The commit-reveal gates of attempt_once: while the fate of a committed  *)
(* row is open, no other row is recorded.                                  *)
THEOREM OneOpenRowCorrect == Spec => []OneOpenRowUnderCommitReveal
  BY Invariance, InitOpen, OpenStep, PTL DEF Spec
=============================================================================
