----------------------------- MODULE EpochFinalizer -----------------------------
(***************************************************************************)
(* Closing an epoch at the authority: finalize_and_anchor of               *)
(* vidaio/authority/service.py over the finalizer, the _FINALIZED set      *)
(* convention of vidaio/audit/store.py and the epoch index.                *)
(*                                                                         *)
(* A call reads its predecessor from the index, binds the manifest's fold  *)
(* cursors to it, probes the marker, writes the log member, then the       *)
(* marker, then the index row, then the anchor.  It may raise or die       *)
(* between any two of them, and two processes may close the same epoch.    *)
(* Anchoring itself is AuthorityAnchor; here it is one step.               *)
(*                                                                         *)
(* A digest is the log it names, and a log carries its whole predecessor.  *)
(***************************************************************************)
EXTENDS Integers, FiniteSets

CONSTANTS
    Procs,      \* processes that close epochs
    MaxEpoch,   \* bound of the model: epochs
    Uids,       \* miner uids
    Keys,       \* ordering keys of folded packets
    MaxStamp,   \* bound of the model: the clock
    Closes,     \* close blocks a caller may pass
    WriteOnce   \* the S3 store creates conditionally; the local one overwrites

Epochs == 1 .. MaxEpoch
Stamps == 0 .. MaxStamp
NoKey == 0
NoLog == [epoch |-> 0]   \* no log, no row

ASSUME FinalizerAssumption ==
    /\ MaxEpoch \in Nat /\ MaxStamp \in Nat
    /\ Keys \subseteq Nat \ {NoKey} /\ IsFiniteSet(Keys)
    /\ WriteOnce \in BOOLEAN

VARIABLES
    clock,     \* the authority's clock
    member,    \* the log object of each epoch's set
    marker,    \* epochs whose set has its _FINALIZED marker
    index,     \* authority_epochs: digest and close block
    anchored,  \* epochs with an indexed anchor
    tomb,      \* authority_epoch_tombstones
    proc       \* the call each process executes

vars == <<clock, member, marker, index, anchored, tomb, proc>>

(* A cursor map is defined on the uids it has entries for.                 *)
CursorMaps == UNION {[D -> Keys \cup {NoKey}] : D \in SUBSET Uids}

(* What a caller passes: the close block, the packets to fold, the census  *)
(* and the cursors its manifest claims.  The competition result and the    *)
(* reward window are RewardWindow's.                                       *)
Args == [close : Closes, folds : [Uids -> SUBSET Keys], census : SUBSET Uids,
         claim : CursorMaps]

Idle == [pc |-> "idle", epoch |-> 0, args |-> NoLog, log |-> NoLog]

Served(e) == index[e] # NoLog /\ e \notin tomb

(* latest: the newest served row, 0 without one                            *)
Latest ==
    IF \E e \in Epochs : Served(e)
    THEN CHOOSE e \in Epochs : Served(e) /\ \A f \in Epochs : Served(f) => f <= e
    ELSE 0

Settled(e) == e \in anchored \/ e \in tomb

Init ==
    /\ clock = 0
    /\ member = [e \in Epochs |-> NoLog]
    /\ marker = {} /\ anchored = {} /\ tomb = {}
    /\ index = [e \in Epochs |-> NoLog]
    /\ proc = [p \in Procs |-> Idle]

-----------------------------------------------------------------------------
(* Fold cursors.                                                           *)

Least(S) == CHOOSE x \in S : \A y \in S : x <= y
Most(S)  == CHOOSE x \in S : \A y \in S : y <= x

Folding(a) == {u \in Uids : a.folds[u] # {}}
CursorsOf(log) == IF log = NoLog THEN [u \in {} |-> NoKey] ELSE log.cursors

(* The predecessor's map, advanced to this epoch's maxima on dom           *)
Advanced(a, prior, dom) ==
    [u \in dom |-> IF u \in Folding(a) THEN Most(a.folds[u])
                   ELSE IF u \in DOMAIN prior THEN prior[u] ELSE NoKey]

(* Mutant: a packet at the predecessor's cursor may be folded again.       *)
ReplayedAtCursor(a, prior) ==
    \E u \in Folding(a) \cap DOMAIN prior :
        prior[u] # NoKey /\ Least(a.folds[u]) < prior[u]

(* A packet at or below the predecessor's cursor is a replay.              *)
Replayed(a, prior) ==
    \E u \in Folding(a) \cap DOMAIN prior :
        prior[u] # NoKey /\ Least(a.folds[u]) <= prior[u]

(* _bind_fold_cursors accepts the current-only, the predecessor-complete   *)
(* and the total form of the map, and publishes the total one;             *)
(* _bind_complete_fold_cursors checks that again.                          *)
Total(a, prior) == Advanced(a, prior, DOMAIN prior \cup a.census \cup Folding(a))
ClaimAccepted(a, prior) ==
    a.claim \in {Advanced(a, prior, Folding(a)),
                 Advanced(a, prior, DOMAIN prior \cup Folding(a)),
                 Total(a, prior)}

(* build_log                                                               *)
Log(e, a, prior, now) ==
    [epoch |-> e, close |-> a.close, stamp |-> now, prior |-> prior,
     folds |-> a.folds, cursors |-> Total(a, CursorsOf(prior))]

-----------------------------------------------------------------------------
At(p, pc) == proc[p].pc = pc
Goto(p, pc) == proc' = [proc EXCEPT ![p].pc = pc]

(* The caller (external) closes epochs in order and repeats a call as it   *)
(* likes.  Every call reads the clock.                                     *)
Call(p, e, a) ==
    /\ At(p, "idle")
    /\ \A f \in Epochs : f < e => Settled(f)
    /\ clock' = IF clock < MaxStamp THEN clock + 1 ELSE clock
    /\ proc' = [proc EXCEPT ![p] = [pc |-> "prior", epoch |-> e, args |-> a, log |-> NoLog]]
    /\ UNCHANGED <<member, marker, index, anchored, tomb>>

(* Mutant: any row of the index, tombstoned or not, is a predecessor.      *)
PredecessorAnyRow(e) ==
    IF \E f \in Epochs : f < e /\ index[f] # NoLog
    THEN CHOOSE f \in Epochs : /\ f < e /\ index[f] # NoLog
                               /\ \A g \in Epochs : g < e /\ index[g] # NoLog => g <= f
    ELSE 0

(* _prior_log_for: the latest row, and none when it is not older           *)
Predecessor(e) == IF Latest < e THEN Latest ELSE 0

(* The predecessor's bytes are read against the indexed digest; the        *)
(* manifest is bound to them and the log is assembled; the arguments are   *)
(* not used again.                                                         *)
ReadPrior(p) ==
    LET e == proc[p].epoch  a == proc[p].args  f == Predecessor(e)
        prior == IF f = 0 THEN NoLog ELSE member[f]
        good == /\ ~Replayed(a, CursorsOf(prior))
                /\ ClaimAccepted(a, CursorsOf(prior))
    IN  /\ At(p, "prior")
        /\ f # 0 => f \in marker /\ member[f] = index[f].digest
        /\ proc' = [proc EXCEPT ![p] =
              [pc |-> IF good THEN "probe" ELSE "refused", epoch |-> e, args |-> NoLog,
               log |-> IF good THEN Log(e, a, prior, clock) ELSE NoLog]]
        /\ UNCHANGED <<clock, member, marker, index, anchored, tomb>>

(* EpochLogInvalid reaches the caller.                                     *)
Refused(p) ==
    /\ At(p, "refused")
    /\ proc' = [proc EXCEPT ![p] = Idle]
    /\ UNCHANGED <<clock, member, marker, index, anchored, tomb>>

(* An already _FINALIZED set is read back, and the pointer comes from the  *)
(* stored log.                                                             *)
Recover(p) ==
    /\ At(p, "probe") /\ proc[p].epoch \in marker
    /\ proc' = [proc EXCEPT ![p] = [pc |-> "index", epoch |-> proc[p].epoch, args |-> NoLog,
                                    log |-> member[proc[p].epoch]]]
    /\ UNCHANGED <<clock, member, marker, index, anchored, tomb>>

Build(p) ==
    /\ At(p, "probe") /\ proc[p].epoch \notin marker
    /\ Goto(p, "member")
    /\ UNCHANGED <<clock, member, marker, index, anchored, tomb>>

(* Mutant: an object that exists is taken for the caller's own.            *)
RawPutKeeping(e, log) ==
    member' = IF member[e] = NoLog THEN [member EXCEPT ![e] = log] ELSE member

(* _raw_put: a conditional create that repeats the same bytes, or an       *)
(* overwrite                                                               *)
RawPut(e, log) ==
    /\ WriteOnce => member[e] \in {NoLog, log}
    /\ member' = [member EXCEPT ![e] = log]

(* put_set_member: the marker is probed, then the object is written.       *)
PutMember(p) ==
    /\ At(p, "member")
    /\ proc[p].epoch \notin marker
    /\ RawPut(proc[p].epoch, proc[p].log)
    /\ Goto(p, "marker")
    /\ UNCHANGED <<clock, marker, index, anchored, tomb>>

(* finalize_set: idempotent                                                *)
FinalizeSet(p) ==
    /\ At(p, "marker")
    /\ marker' = marker \cup {proc[p].epoch}
    /\ Goto(p, "index")
    /\ UNCHANGED <<clock, member, index, anchored, tomb>>

(* record_finalized: refused for a tombstoned epoch and for another digest *)
(* or close block                                                          *)
RecordFinalized(p) ==
    LET e == proc[p].epoch  log == proc[p].log
        row == [digest |-> log, close |-> log.close]
    IN  /\ At(p, "index")
        /\ e \notin tomb
        /\ index[e] \in {NoLog, row}
        /\ index' = [index EXCEPT ![e] = row]
        /\ Goto(p, "anchor")
        /\ UNCHANGED <<clock, member, marker, anchored, tomb>>

(* anchor_epoch returned: the row has its anchor.                          *)
AnchorReturns(p) ==
    /\ At(p, "anchor")
    /\ Served(proc[p].epoch)
    /\ anchored' = anchored \cup {proc[p].epoch}
    /\ proc' = [proc EXCEPT ![p] = Idle]
    /\ UNCHANGED <<clock, member, marker, index, tomb>>

(* Anything else raises, or the process dies; nothing durable is undone.   *)
Raises(p) ==
    /\ proc[p].pc \notin {"idle", "refused"}
    /\ proc' = [proc EXCEPT ![p] = Idle]
    /\ UNCHANGED <<clock, member, marker, index, anchored, tomb>>

(* mark_gap_tombstone: the operator gives up an epoch without an anchor.   *)
MarkGapTombstone(e) ==
    /\ Served(e) /\ e \notin anchored
    /\ tomb' = tomb \cup {e}
    /\ UNCHANGED <<clock, member, marker, index, anchored, proc>>

Step(p) ==
    \/ ReadPrior(p) \/ Refused(p) \/ Recover(p) \/ Build(p) \/ PutMember(p)
    \/ FinalizeSet(p) \/ RecordFinalized(p) \/ AnchorReturns(p) \/ Raises(p)

Next ==
    \/ \E p \in Procs, e \in Epochs, a \in Args : Call(p, e, a)
    \/ \E p \in Procs : Step(p)
    \/ \E e \in Epochs : MarkGapTombstone(e)

Spec == Init /\ [][Next]_vars

-----------------------------------------------------------------------------
(* Properties.                                                             *)

(* The logs a chain of predecessors reaches, itself included               *)
Chain(log) ==
    LET upto[n \in 0 .. MaxEpoch] ==
          IF n = 0 THEN {log} \ {NoLog}
          ELSE (upto[n - 1] \cup {l.prior : l \in upto[n - 1]}) \ {NoLog}
    IN  upto[MaxEpoch]

(* Every variable stays in its domain; a log object is of its own epoch,   *)
(* and no set is marked before its object is there.                        *)
TypeOK ==
    /\ clock \in Stamps
    /\ \A e \in Epochs : member[e] # NoLog =>
          member[e].epoch = e /\ member[e].stamp \in Stamps /\ member[e].cursors \in CursorMaps
    /\ marker \subseteq {e \in Epochs : member[e] # NoLog}
    /\ \A e \in Epochs : index[e] # NoLog => index[e].close \in Closes
    /\ anchored \subseteq Epochs /\ tomb \subseteq Epochs
    /\ \A p \in Procs : proc[p] # Idle => proc[p].epoch \in Epochs /\ proc[p].args \in Args \cup {NoLog}

(* What the index points at is what the store serves: the set is marked,   *)
(* its bytes have the indexed digest and its close block, across crashes,  *)
(* changed parameters and two finalizers of one epoch (finalize).          *)
PointerMatchesBytes ==
    \A e \in Epochs : index[e] # NoLog =>
        /\ e \in marker /\ member[e] = index[e].digest
        /\ index[e].close = member[e].close

(* A packet is folded into a miner's score at most once in the history of  *)
(* every indexed log, also after its uid left and came back                *)
(* (_bind_fold_cursors).                                                   *)
FoldedOnce ==
    \A e \in Epochs : index[e] # NoLog =>
        LET C == Chain(index[e].digest) IN
        \A k, l \in C, u \in Uids : k # l => k.folds[u] \cap l.folds[u] = {}

(* A served epoch continues the newest anchored one before it: no log is a *)
(* second genesis, and none continues an epoch that was given up           *)
(* (_prior_log_for).                                                       *)
ContinuesAnchored ==
    \A e \in Epochs : Served(e) =>
        LET before == {f \in anchored : f < e} IN
        IF before = {} THEN member[e].prior = NoLog
        ELSE member[e].prior = member[Most(before)]
=============================================================================
