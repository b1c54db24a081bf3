------------------------------- MODULE EpochBuild -------------------------------
(***************************************************************************)
(* The log an authority publishes about a world: the evidence of the       *)
(* latest completed competition (vidaio/competition/epoch_evidence.py and  *)
(* evidence_guard.py), the audit manifest and the log, with the refusals   *)
(* of both (vidaio/authority/finalizer.py).                                *)
(*                                                                         *)
(* A world w (see BundleVerify) also holds what the authority keeps:       *)
(* w.lacks are pairs of a challenge and what the store or the source of    *)
(* the commitments has not got of it; w.record is the completed            *)
(* competition as database and store hold it.                              *)
(***************************************************************************)
EXTENDS EpochLog

(* The uid a census seats the hotkey of a packet at.                       *)
Seated(w, p) == p.uid \in DOMAIN w.meta /\ w.meta[p.uid].hk = p.hk

-----------------------------------------------------------------------------
(* The completed competition.  record holds the persisted commitment root  *)
(* and policy, the anchor receipt, what the chain has, the times they are  *)
(* held against, the archives by hotkey (None is the baseline), the        *)
(* registry's artifact, the item bindings, what is damaged of a row,       *)
(* whether the store can release, and what an auditor would find wrong.    *)

census_by_hotkey(w) ==
    [h \in {w.meta[u].hk : u \in DOMAIN w.meta} |->
        CHOOSE u \in DOMAIN w.meta : w.meta[u].hk = h]

_performance_rows(w, h) == {m \in w.meas : m.ch \in w.matrix /\ m.hk = h}

Subjects(w) == {m.hk : m \in {n \in w.meas : n.ch \in w.matrix}}
Built(w) == Subjects(w) \ {None}

(* The receipt of the anchoring: complete, of this root, final, and older  *)
(* than the enrolment by its time and by the order of the events.          *)
_persisted_anchor_receipt(w) ==
    LET r == w.record.receipt
    IN  /\ r # None /\ r.verified /\ r.root = w.record.root /\ r.block <= r.final
        /\ r.at < w.record.start /\ r.event < w.record.enrolled

(* The anchored commitment opens, and to the policy that was executed.     *)
CommitmentHolds(w) == w.record.root # None /\ w.record.policy = "executed"

(* A sealed archive ref has a digest, the digest of its stored bytes and   *)
(* the tree those hold.  The events name at most one per subject.          *)
_archived_submissions(w) ==
    \A h \in Subjects(w) : h \in DOMAIN w.record.archives /\ Cardinality(w.record.archives[h]) = 1

_verify_archived_ref(ref) == ref.bytes = ref.digest

_archive_tree(ref) == ref.tree

(* Two archivers may pack one tree into different bytes.                   *)
_same_baseline_source(sealed, registry) ==
    sealed = registry \/ _archive_tree(sealed) = _archive_tree(registry)

ArchivesHold(w) ==
    /\ _verify_archived_ref(w.record.registry)
    /\ _archived_submissions(w)
    /\ \A h \in Subjects(w) : \A ref \in w.record.archives[h] : _verify_archived_ref(ref)
    /\ \A ref \in w.record.archives[None] : _same_baseline_source(ref, w.record.registry)

(* The packet of a row is readable, of this subject and item, and of the   *)
(* score and gate the database has; its bundle resolves and binds the      *)
(* packet, the item and the image the subject was built as.                *)
_read_packet(w, m) == <<m.hk, m.ch, "packet">> \notin w.record.damaged
_require_bundle(w, m) == <<m.hk, m.ch, "bundle">> \notin w.record.damaged
SameImage(w, m) == <<m.hk, m.ch, "image">> \notin w.record.damaged

(* Every subject covers the whole matrix of bound items.                   *)
MatrixHolds(w) ==
    /\ w.record.bound
    /\ \A h \in Subjects(w) :
          /\ {m.ch : m \in _performance_rows(w, h)} = w.matrix
          /\ Cardinality(_performance_rows(w, h)) = Cardinality(w.matrix)
          /\ \A m \in _performance_rows(w, h) :
                _read_packet(w, m) /\ _require_bundle(w, m) /\ SameImage(w, m)

(* A contender the machine accepted is never left out: one that is not in  *)
(* the census defers the whole result.                                     *)
ContendersSeated(w) == None \in Subjects(w) /\ Built(w) \subseteq DOMAIN census_by_hotkey(w)

(* The archive of the winner can be made public.  Here every winner is     *)
(* above the baseline and so a crown.                                      *)
Releasable(w) == w.record.releasable

(* An item of a compression competition is measured against its input.     *)
Context == [track |-> "compression", manifest |-> "committed", threshold |-> "committed",
            preimage |-> "bound"]

(* The item of a subject, under the uid its hotkey has at the close.       *)
CompetitionItem(w, m) ==
    LET uid == IF m.hk = None THEN None ELSE census_by_hotkey(w)[m.hk]
    IN  [Original(w, [m EXCEPT !.uid = uid]) EXCEPT !.ctx = Context, !.b.stage = "pre_reveal"]

(* The CompetitionInput, with what an auditor finds wrong in evidence that *)
(* should not have been used.                                              *)
CompetitionInput(w) ==
    LET seats == {census_by_hotkey(w)[h] : h \in Built(w)}
        c == [items |-> {CompetitionItem(w, m) : m \in {n \in w.meas : n.ch \in w.matrix}},
              hotkeys |-> [u \in seats |-> w.meta[u].hk], excl |-> {},
              broken |-> w.record.wrong,
              archive |-> IF Releasable(w) THEN "intact" ELSE "sealed"]
    IN  [c EXCEPT !.excl = competition_dedup_losers(c, w.meta)]

(* build_competition_epoch_evidence under guarded_competition_evidence     *)
(* (defer): evidence that is not complete, a result without a winner or an *)
(* archive that cannot be released leave the log without a competition.    *)
build_competition_epoch_evidence(w) ==
    IF w.matrix = {} \/ Built(w) = {} THEN None
    ELSE IF ~(CommitmentHolds(w) /\ _persisted_anchor_receipt(w) /\ ContendersSeated(w)) THEN None
    ELSE IF ~(ArchivesHold(w) /\ MatrixHolds(w)) THEN None
    ELSE LET c == CompetitionInput(w)
         IN  IF winners(derive_competition_economics(c)) = {} \/ ~Releasable(w) THEN None ELSE c

-----------------------------------------------------------------------------
(* The audit manifest.                                                     *)

committed_dispatch(w, ch) == IF <<ch, "commitment">> \in w.lacks THEN None ELSE w.disp[ch]

(* Track and order come from the pre-dispatch commitment.                  *)
_committed_dispatch_for(w, p) ==
    LET d == committed_dispatch(w, p.ch) IN d # None /\ p.key = d.key /\ p.ref = d.track

_require_stored(w, ch, kind) == <<ch, kind>> \notin w.lacks

(* A signed observation is an exact zero on the dispatch it names.         *)
_verify_availability_input(w, p) ==
    LET d == committed_dispatch(w, p.ch)
    IN  p.score = 0 /\ d # None /\ p.key = d.key /\ p.track = d.track

(* The file refs of an item, as an auditor resolves them.                  *)
_refs_for_item(w, p) == [p EXCEPT !.b.altered = ~_require_stored(w, p.ch, "bundle")]

InOrder(ps) == SetToSortSeq(ps, LAMBDA a, b : a.key < b.key)

FoldValue(p) == IF p.excl THEN Excluded ELSE p.score

(* The cycles of a uid ascend by the committed key, whatever the order in  *)
(* which the items arrived.                                                *)
CycleScores(ps, u) ==
    LET mine == InOrder({p \in ps : p.uid = u})
    IN  [i \in DOMAIN mine |-> [pkt |-> mine[i], key |-> mine[i].key, score |-> FoldValue(mine[i])]]

(* The predecessor's accumulator, for the same holder of the uid.          *)
Kept(w, u) == w.prior # None /\ u \in DOMAIN w.prior.miners /\ w.prior.miners[u].hk = w.meta[u].hk
prior_accumulate(w, u) == IF Kept(w, u) THEN w.prior.miners[u].acc ELSE 0

PriorCursors(w) == IF w.prior = None THEN << >> ELSE w.prior.cursors
PriorRound(w) == IF w.prior = None THEN None ELSE w.prior.roundCursor

Indexed(w) == {ch \in w.chs : ContentRoster(w, ch) # {}}
RoundsOf(w, ps) == {p.ch : p \in ps} \cup Indexed(w)

FoldCursors(w, earn) ==
    LET old == PriorCursors(w)
    IN  [u \in DOMAIN old \cup DOMAIN w.meta |->
           IF u \in DOMAIN earn THEN earn[u].cycles[Len(earn[u].cycles)].key
           ELSE IF u \in DOMAIN old THEN old[u] ELSE None]

(* ms are the packets of the rounds, as the observations.                  *)
build_audit_manifest(w, ms, as) ==
    LET ps == ms \cup as
        folding == {p.uid : p \in ps} \cap DOMAIN w.meta
        earn == [u \in folding |-> [prior |-> prior_accumulate(w, u), cycles |-> CycleScores(ps, u)]]
        chs == RoundsOf(w, ps)
        keys == {w.disp[ch].key : ch \in chs} \cup {k \in {PriorRound(w)} : k # None}
    IN  [refs |-> ms, avail |-> as, earn |-> earn, cursors |-> FoldCursors(w, earn),
         content |-> [ch \in Indexed(w) |-> [roster |-> ContentRoster(w, ch),
                                             skipped |-> SkippedComponents(w, ch)]],
         rounds |-> {[ch |-> ch, key |-> w.disp[ch].key, anchor |-> w.disp[ch].anchor,
                      commit |-> w.disp[ch].commit, round |-> w.disp[ch].round] : ch \in chs},
         roundCursor |-> IF keys = {} THEN None ELSE Max(keys)]

(* Mutant: the cursors are not looked at.                                 *)
MutNoReplayGuard(w, ms, as) ==
    /\ \A p \in ms : /\ _committed_dispatch_for(w, p)
                     /\ _require_stored(w, p.ch, "packet") /\ _require_stored(w, p.ch, "bundle")
    /\ \A ch \in Indexed(w) : _require_stored(w, ch, "bundle")
    /\ \A p \in as : _verify_availability_input(w, p)

(* What the manifest refuses: a file that is not stored, an item without   *)
(* its commitment, an observation that does not hold, and a challenge at   *)
(* or below the cursor of its uid or of the rounds.                        *)
ManifestAccepts(w, ms, as) ==
    LET beyond(key, cursor) == cursor # None => key > cursor
    IN  /\ \A p \in ms : /\ _committed_dispatch_for(w, p)
                         /\ _require_stored(w, p.ch, "packet") /\ _require_stored(w, p.ch, "bundle")
        /\ \A ch \in Indexed(w) : _require_stored(w, ch, "bundle")
        /\ \A p \in as : _verify_availability_input(w, p)
        /\ \A ch \in RoundsOf(w, ms \cup as) : beyond(w.disp[ch].key, PriorRound(w))
        /\ \A p \in ms \cup as :
              p.uid \in DOMAIN PriorCursors(w) => beyond(p.key, PriorCursors(w)[p.uid])

-----------------------------------------------------------------------------
(* The log.                                                                *)

(* The economic row of a uid: its fold, or what it carried in.             *)
MinerSnapshot(w, man, u) ==
    LET folds == u \in DOMAIN man.earn
        e == man.earn[u]
    IN  [hk |-> w.meta[u].hk, ck |-> w.meta[u].ck, ip |-> w.meta[u].ip, excl |-> FALSE,
         track |-> IF folds THEN e.cycles[1].pkt.track
                   ELSE IF Kept(w, u) THEN w.prior.miners[u].track ELSE "compression",
         acc |-> IF folds THEN FoldLeft(accumulate, e.prior, folded_scores(e.cycles))
                 ELSE prior_accumulate(w, u)]

(* A row for every uid of the census with evidence or a carried value.     *)
Snapshots(w, man, comp) ==
    LET rows == {u \in DOMAIN w.meta :
                   \/ u \in DOMAIN man.earn \/ Kept(w, u)
                   \/ comp # None /\ u \in Contenders(comp)}
        row == [u \in rows |-> MinerSnapshot(w, man, u)]
        losers == dedup_losers(row)
    IN  [u \in rows |-> [row[u] EXCEPT !.excl = u \in losers]]

build_log(w, man, comp) ==
    LET miners == Snapshots(w, man, comp)
        result == IF comp = None THEN None ELSE derive_competition_economics(comp)
        window == resolve_reward_window(IF w.prior = None THEN None ELSE w.prior.window,
                                        result, w.meta)
    IN  man @@ [shape |-> "sound", prior |-> IF w.genesis THEN "none" ELSE "prior",
                close |-> w.close, created |-> "close", census |-> w.meta, miners |-> miners,
                burn |-> IF build_weight_vector(miners, None, window) = << >> THEN Owner ELSE None,
                shares |-> build_weight_vector(miners, Owner, window),
                comp |-> comp, result |-> result, window |-> window]

(* Paid through a competition alone, and not by an accumulator.            *)
CompetitionOnly(l) ==
    (ContendersOf(l) \ DOMAIN l.miners)
    \cup {u \in DOMAIN l.miners : /\ u \in ContendersOf(l) \/ l.miners[u].hk = l.window
                                  /\ l.miners[u].excl \/ ~Payable(l.miners[u].acc)}

(* Every other payment follows from an earning input that folds to the     *)
(* row, or is carried unchanged from the predecessor's row of this holder. *)
_require_complete_earning(w, l) ==
    \A u \in DOMAIN l.shares \ ({l.burn} \cup CompetitionOnly(l)) :
        /\ u \in DOMAIN l.miners
        /\ IF u \in DOMAIN l.earn
           THEN FoldLeft(accumulate, l.earn[u].prior, folded_scores(l.earn[u].cycles))
                  = l.miners[u].acc
           ELSE Kept(w, u) /\ w.prior.miners[u].acc = l.miners[u].acc

(* The service reads the anchor of a competition from the chain itself:    *)
(* what the receipt says, before the start and before the close.           *)
_verify_competition_anchor(w, l) ==
    l.comp # None =>
        LET r == w.record.receipt
            a == w.record.onchain
        IN  a.root = r.root /\ a.block = r.block /\ a.at < w.record.start /\ a.block <= w.close

(* _require_complete_competition and _bind_complete_fold_cursors.          *)
_require_complete_competition(l) == (l.comp = None) = (l.result = None)

_bind_complete_fold_cursors(w, l) == l.cursors = FoldCursors(w, l.earn)

(* The log of the rounds' packets ms and the observations as, or None: the *)
(* finalizer refuses and the epoch waits.                                  *)
Finalized(w, ms, as) ==
    LET l == build_log(w, build_audit_manifest(w, {_refs_for_item(w, p) : p \in ms}, as),
                       build_competition_epoch_evidence(w))
    IN  IF /\ ManifestAccepts(w, ms, as)
           /\ _require_complete_earning(w, l) /\ _bind_complete_fold_cursors(w, l)
           /\ _require_complete_competition(l) /\ WellFormed(l)
           /\ _verify_competition_anchor(w, l)
        THEN l ELSE None

(* The packets of the epoch's rounds whose miner still holds its uid.      *)
RoundRefs(w) == {p \in UNION {RoundPackets(w, ch) : ch \in w.chs} : Seated(w, p)}

FaithfulLog(w) == Finalized(w, RoundRefs(w), {p \in w.avail : Seated(w, p)})
=============================================================================
