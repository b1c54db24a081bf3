------------------------------- MODULE EpochAudit -------------------------------
(***************************************************************************)
(* One audit of a finalized epoch: Auditor.audit_epoch of                  *)
(* vidaio/auditor/service.py with the checks it calls and the roll-up of   *)
(* report.py.  What it makes of one item and of a round is in ItemAudit.   *)
(*                                                                         *)
(* The world is what happened: the predecessor, the close-block metagraph, *)
(* the pre-dispatch challenge commitments, the answers and how they        *)
(* measure.  The log is what the authority published about it, faithfully  *)
(* or not.  Some of the evidence may be out of reach.                      *)
(***************************************************************************)
EXTENDS ItemAudit, EpochBuild

CONSTANTS
    Cases,    \* pairs of a world and a log published about it
    Outages,  \* sets of evidence that may be out of reach, see Evidence
    Samples   \* bound of the model: how many items of a source are drawn

ASSUME EpochAuditAssumption == Outages \subseteq SUBSET Evidence /\ Samples \subseteq Nat

VARIABLES
    leg,      \* the next leg of audit_epoch
    sampled,  \* the packets drawn for recomputation
    items,    \* the kinds of the item verdicts so far
    earning,  \* the kinds on the earning-verdicts channel so far
    weight,   \* the kind of the weight verdict
    overall   \* the status of the report, None before there is one

case == <<world, log, gone, drift>>
vars == <<world, log, gone, drift, leg, sampled, items, earning, weight, overall>>

-----------------------------------------------------------------------------
(* What the predecessor a log names, and the one this auditor holds, say.  *)

PriorLog == IF Reach("prior") THEN world.prior ELSE None

Metagraph == IF Reach("metagraph") THEN world.meta ELSE None

-----------------------------------------------------------------------------
(* The snapshot binding.                                                   *)

_evidenced_uids ==
    DOMAIN log.earn \cup {p.uid : p \in log.refs \cup log.avail} \cup ContendersOf(log)

_recompute_excluded(mg) ==
    LET seated == DOMAIN log.miners \cap DOMAIN mg
    IN  dedup_losers([u \in seated |->
            [log.miners[u] EXCEPT !.ck = mg[u].ck, !.ip = mg[u].ip]])

_committed_track_for_uid(u) ==
    LET tracks == {p.ref : p \in InferenceOf(log, u)}
    IN  IF Cardinality(tracks) = 1 THEN CHOOSE t \in tracks : TRUE ELSE None

DedupVerdict(u, mg) ==
    IF (u \in _recompute_excluded(mg)) # log.miners[u].excl THEN "FAIL" ELSE "PASS"

_snapshot_verdict_for_uid(u, mg) ==
    IF u \notin DOMAIN log.miners \/ u \notin DOMAIN mg THEN "FAIL"
    ELSE IF ~SameIdentity(mg[u], log.miners[u]) THEN "FAIL"
    ELSE LET track == _committed_track_for_uid(u)
         IN  IF track = None
             THEN IF InferenceOf(log, u) = {} /\ u \notin DOMAIN log.earn THEN DedupVerdict(u, mg)
                  ELSE "SKIP"
             ELSE IF log.miners[u].track # track THEN "FAIL" ELSE DedupVerdict(u, mg)

(* A zero-weight row of the census: the same binding, for an evidenced uid *)
(* also its track.                                                         *)
ZeroWeightVerdict(u, mg) ==
    IF u \notin DOMAIN mg
    THEN IF u \in _evidenced_uids \/ Payable(log.miners[u].acc) THEN "FAIL" ELSE "PASS"
    ELSE IF ~SameIdentity(mg[u], log.miners[u]) THEN "FAIL"
    ELSE IF u \notin _evidenced_uids THEN DedupVerdict(u, mg)
    ELSE LET track == _committed_track_for_uid(u)
         IN  IF track = None
             THEN IF InferenceOf(log, u) = {} /\ u \in ContendersOf(log) THEN DedupVerdict(u, mg) ELSE "SKIP"
             ELSE IF log.miners[u].track # track THEN "FAIL" ELSE DedupVerdict(u, mg)

Paid == DOMAIN log.shares \ {log.burn}

_snapshot_verdicts ==
    LET zero == DOMAIN log.miners \ (Paid \cup {log.burn})
        mg == Metagraph
    IN  IF Paid = {} /\ zero = {} THEN {}
        ELSE IF mg = None THEN {"SKIP"}
        ELSE {_snapshot_verdict_for_uid(u, mg) : u \in Paid}
             \cup {ZeroWeightVerdict(u, mg) : u \in zero}

-----------------------------------------------------------------------------
(* The competition economics: every committed packet score is read, the    *)
(* result derived from them and the reward window from the predecessor's.  *)

DerivedResult == IF log.comp = None THEN None ELSE derive_competition_economics(log.comp)

(* The committed evidence of a competition, in the order it is read: the   *)
(* manifest, its commitment and anchor against the executed policy; the    *)
(* items against their commitments; each subject's bundles; its packets,   *)
(* image, census row and dedup.  The first that fails decides.             *)
CompetitionPolicy ==
    IF ~Reach("competition") THEN "SKIP"
    ELSE IF "policy" \in log.comp.broken THEN "FAIL" ELSE "PASS"

CompetitionItems == IF "items" \in log.comp.broken THEN "FAIL" ELSE "PASS"

(* The bundle of every item is the subject's own, on the committed item.   *)
CompetitionBundles ==
    IF ~Reach("bundles") \/ (\E p \in log.comp.items : p.b.altered) THEN "SKIP"
    ELSE IF \A p \in log.comp.items :
               /\ p.b.ch = p.ch /\ p.ctx # None /\ p.ctx.manifest = "committed"
               /\ p.b.hk = ExpectedHotkey(p)
         THEN "PASS" ELSE "FAIL"

CompetitionPackets ==
    IF ~Reach("packets") THEN "SKIP"
    ELSE IF \A p \in log.comp.items : /\ Shaped(p) /\ p.track = p.ctx.track /\ p.out = p.b.out
                                       /\ p.hk = ExpectedHotkey(p)
         THEN "PASS" ELSE "FAIL"

(* One execution image per subject, the close-block census row of every    *)
(* contender, and the exclusions that follow.                              *)
CompetitionSubjects ==
    LET c == log.comp
    IN  IF /\ "images" \notin c.broken
           /\ \A u \in Contenders(c) : u \in DOMAIN log.census /\ log.census[u].hk = c.hotkeys[u]
           /\ c.excl = competition_dedup_losers(c, log.census)
        THEN "PASS" ELSE "FAIL"

FirstBad(checks) ==
    LET bad == SelectSeq(checks, LAMBDA v : v # "PASS")
    IN  IF bad = << >> THEN "PASS" ELSE Head(bad)

CompetitionEvidence ==
    IF log.comp = None THEN IF log.result # None THEN "FAIL" ELSE "PASS"
    ELSE LET early == FirstBad(<<CompetitionPolicy, CompetitionItems, CompetitionBundles>>)
         IN  IF early # "PASS" THEN early
             ELSE FirstBad(<<CompetitionPackets, CompetitionSubjects>>)

PriorWindow ==
    IF Chained THEN PriorLog.window ELSE None

WindowUnverifiable == log.prior # "none" /\ PriorLog = None

(* _competition_verdicts: the verdicts and the window the weight leg uses. *)
DerivedWindow ==
    IF CompetitionEvidence = "SKIP" \/ WindowUnverifiable THEN log.window
    ELSE IF CompetitionEvidence = "FAIL" /\ log.comp # None THEN None
    ELSE resolve_reward_window(PriorWindow, DerivedResult, log.census)

(* A contender above the baseline opens a window of its own.               *)
WindowOpens ==
    /\ DerivedResult # None
    /\ winners(DerivedResult) # {}

(* The archive of a winner whose window opens is committed, intact and     *)
(* released.                                                               *)
ReleaseVerdicts ==
    IF ~WindowOpens THEN {}
    ELSE IF log.comp.archive # "intact" THEN {"FAIL"}
    ELSE IF ~Reach("archive") THEN {"SKIP"} ELSE {}

_competition_verdicts ==
    IF log.comp # None /\ CompetitionEvidence # "PASS" THEN {CompetitionEvidence}
    ELSE (IF DerivedResult # log.result THEN {"FAIL"} ELSE {"PASS"})
         \cup (IF WindowUnverifiable THEN {"SKIP"}
               ELSE ReleaseVerdicts \cup
                    (IF DerivedWindow = log.window THEN {"PASS"} ELSE {"FAIL"}))

-----------------------------------------------------------------------------
(* The weight verdict: the published vector against the one re-derived     *)
(* from the metagraph's identities, the re-derived exclusions, the         *)
(* committed tracks and the log's accumulators.                            *)

_reconstructed_miners(mg) ==
    [u \in DOMAIN log.miners |->
        IF u \notin DOMAIN mg THEN log.miners[u]
        ELSE LET track == _committed_track_for_uid(u)
             IN  [log.miners[u] EXCEPT !.hk = mg[u].hk, !.ck = mg[u].ck, !.ip = mg[u].ip,
                    !.track = IF track = None THEN @ ELSE track,
                    !.excl = u \in _recompute_excluded(mg)]]

_weight_verdict(snapshot) ==
    CASE "FAIL" \in snapshot -> "FAIL"
      [] "FAIL" \notin snapshot /\ "SKIP" \in snapshot -> "SKIP"
      [] OTHER ->
           LET miners == IF Metagraph = None THEN log.miners
                         ELSE _reconstructed_miners(Metagraph)
           IN  IF build_weight_vector(miners, log.burn, DerivedWindow) = log.shares
               THEN "PASS" ELSE "FAIL"

-----------------------------------------------------------------------------
(* The earning state.                                                      *)

(* Uids paid by a competition alone: no inference state, no evidence.      *)
_competition_window_only ==
    {u \in DOMAIN log.miners :
        /\ u \in ContendersOf(log) \/ log.miners[u].hk = log.window
        /\ log.miners[u].excl \/ ~Payable(log.miners[u].acc)
        /\ u \notin DOMAIN log.earn /\ InferenceOf(log, u) = {}}

(* _availability_evidence_fields: a signed observation of a miner that did *)
(* not answer, its zero, the census, the row and the anchored dispatch.    *)
ObservationSigned(p) == p \in world.avail /\ p.score = 0

ObservationBound(p, row) ==
    /\ p.uid \in DOMAIN log.census /\ log.census[p.uid].hk = p.hk
    /\ row.hk = p.hk /\ row.track = p.track

AnchorInEpoch(p) ==
    world.disp[p.ch].anchor # None /\ world.disp[p.ch].anchor <= log.close

_availability_error(u) ==
    IF \E p \in AvailabilityOf(log, u) :
          ~(ObservationSigned(p) /\ ObservationBound(p, log.miners[u]) /\ AnchorInEpoch(p))
    THEN "FAIL"
    ELSE IF AvailabilityOf(log, u) # {} /\ ~Reach("chain") THEN "SKIP" ELSE "PASS"

(* _earning_identity_error: packets read through their bundles; one that   *)
(* cannot be read is left to the legs below.                               *)
_earning_identity_error(u) ==
    \E p \in MediaOf(log, u) :
        /\ bundle_for(p)
        /\ \/ p.b.ch # p.ch \/ p.b.hk # log.miners[u].hk
           \/ Reach("packets") /\ p.hk # log.miners[u].hk

(* _cycle_scores_backing_error: the cycles are exactly the committed       *)
(* packets, each with its value and its sequence.                          *)
_cycle_scores_backing_error(u) ==
    LET cycles == log.earn[u].cycles
        committed == InferenceOf(log, u)
    IN  \/ \E i \in DOMAIN cycles :
              \/ cycles[i].pkt \notin committed
              \/ cycles[i].key # cycles[i].pkt.key
              \/ cycles[i].score # (IF cycles[i].pkt.excl THEN Excluded ELSE cycles[i].pkt.score)
        \/ {cycles[i].pkt : i \in DOMAIN cycles} # committed
        \/ Len(cycles) # Cardinality(committed)

(* _challenge_commitment_backing_error: order and track from the           *)
(* pre-dispatch commitment, not from the packet.                           *)
_challenge_commitment_backing_error(u) ==
    \E i \in DOMAIN log.earn[u].cycles :
        LET p == log.earn[u].cycles[i].pkt
        IN  \/ log.earn[u].cycles[i].key # world.disp[p.ch].key
            \/ p.ref # world.disp[p.ch].track

_replay_check(u) ==
    LET keys == CycleKeys(log, u)
    IN  IF keys = {} \/ ~Chained THEN "PASS"
        ELSE IF u \notin DOMAIN PriorLog.cursors
             THEN IF u \in DOMAIN PriorLog.census THEN "FAIL" ELSE "PASS"
             ELSE IF PriorLog.cursors[u] # None /\ Min(keys) <= PriorLog.cursors[u]
                  THEN "FAIL" ELSE "PASS"

SameHolder(u) ==
    u \in DOMAIN PriorLog.miners /\ u \in DOMAIN log.miners
    /\ PriorLog.miners[u].hk = log.miners[u].hk

(* _carry_in_check: what the fold starts from is what the predecessor      *)
(* ended with, for the same holder of the uid.                             *)
_carry_in_check(u) ==
    LET stated == log.earn[u].prior
        expected == IF SameHolder(u) THEN PriorLog.miners[u].acc ELSE 0
    IN  IF PriorLog # None
        THEN IF log.prior # "prior" THEN "FAIL"
             ELSE IF stated = expected THEN "PASS" ELSE "FAIL"
        ELSE IF log.prior = "none"
             THEN IF world.genesis /\ stated = 0 THEN "PASS" ELSE "FAIL"
             ELSE "SKIP"

(* _carry_forward_verdict: no evidence this epoch, so nothing changed.     *)
_carry_forward_verdict(u) ==
    IF u \notin DOMAIN log.miners THEN "SKIP"
    ELSE LET row == log.miners[u]
         IN  IF PriorLog # None
             THEN IF log.prior # "prior" THEN "FAIL"
                  ELSE IF u \notin DOMAIN PriorLog.miners
                       THEN IF row.acc = 0 THEN "PASS" ELSE "FAIL"
                       ELSE IF /\ SameHolder(u)
                               /\ PriorLog.miners[u].track = row.track
                               /\ PriorLog.miners[u].acc = row.acc
                            THEN "PASS" ELSE "FAIL"
             ELSE IF log.prior = "none" THEN "FAIL" ELSE "SKIP"

FoldOf(u) == FoldLeft(accumulate, log.earn[u].prior, folded_scores(log.earn[u].cycles))

(* _committed_challenge_fields: a commitment is only believed behind its   *)
(* whole chronology.                                                       *)
CommitmentUnknown(u) ==
    \E p \in MediaOf(log, u) :
        ~bundle_for(p) \/ verify_challenge_chronology(p) # "PASS" \/ ~_read_reveal(p)

(* The committed packets that back the cycles, in the order of the checks: *)
(* it decides whether a fault is proved or only suspected.                 *)
EarningBacking(u) ==
    IF _earning_identity_error(u) THEN "FAIL"
    ELSE IF MediaOf(log, u) # {} /\ ~Reach("packets") THEN "SKIP"
    ELSE IF _cycle_scores_backing_error(u) THEN "FAIL"
    ELSE IF CommitmentUnknown(u) THEN "SKIP"
    ELSE IF _challenge_commitment_backing_error(u) THEN "FAIL" ELSE "PASS"

EarningInput(u) ==
    IF u \notin DOMAIN log.miners THEN "FAIL"
    ELSE IF _availability_error(u) # "PASS" THEN _availability_error(u)
    ELSE IF EarningBacking(u) # "PASS" THEN EarningBacking(u)
    ELSE IF FoldOf(u) # log.miners[u].acc \/ _replay_check(u) = "FAIL" THEN "FAIL"
    ELSE _carry_in_check(u)

_earning_verdict_for_uid(u) ==
    IF u \in DOMAIN log.earn THEN EarningInput(u)
    ELSE IF AvailabilityOf(log, u) # {} \/ (u \in Paid /\ u \notin DOMAIN log.miners) THEN "FAIL"
    ELSE _carry_forward_verdict(u)

_earning_verdicts ==
    LET audited == (DOMAIN log.shares \cup DOMAIN log.earn \cup {p.uid : p \in log.avail}
                    \cup {u \in DOMAIN log.miners : Payable(log.miners[u].acc)})
                   \ ({log.burn} \cup _competition_window_only)
    IN  {_earning_verdict_for_uid(u) : u \in audited}

-----------------------------------------------------------------------------
(* The legs that need no selected uid.                                     *)

MutCreatedAtHeld == IF Reach("closeTime") /\ log.created = "close" THEN "PASS" ELSE "SKIP"

_created_at_verdict ==
    IF ~Reach("closeTime") THEN "SKIP" ELSE IF log.created = "close" THEN "PASS" ELSE "FAIL"

(* _census_verdicts: the census is the metagraph, every economic row is in *)
(* it, every evidenced uid has a row.                                      *)
_census_verdicts ==
    (IF Metagraph = None THEN {"SKIP"}
     ELSE IF log.census = Metagraph THEN {"PASS"} ELSE {"FAIL"})
    \cup (IF \E u \in DOMAIN log.miners :
               u \notin DOMAIN log.census \/ ~SameIdentity(log.census[u], log.miners[u])
          THEN {"FAIL"} ELSE {})
    \cup (IF _evidenced_uids \subseteq DOMAIN log.miners THEN {} ELSE {"FAIL"})

(* The replay boundaries that follow from those of the predecessor.        *)
ExpectedCursors(prior) ==
    [u \in DOMAIN prior \cup DOMAIN log.census \cup Folding(log) |->
        LET old == IF u \in DOMAIN prior THEN prior[u] ELSE None
        IN  IF u \in Folding(log) /\ (old = None \/ Min(CycleKeys(log, u)) > old)
            THEN Max(CycleKeys(log, u)) ELSE old]

MutCursorsOnlyOfCensus ==
    LET cs == log.cursors
        short == \E u \in Folding(log) : u \notin DOMAIN cs \/ cs[u] = None \/ cs[u] < Max(CycleKeys(log, u))
    IN  IF ~(DOMAIN log.census \subseteq DOMAIN cs) \/ short THEN {"FAIL"}
        ELSE IF PriorLog = None /\ log.prior # "none" THEN {"SKIP"}
        ELSE IF (PriorLog = None /\ ~world.genesis) \/ (PriorLog # None /\ ~Chained) THEN {}
        ELSE LET want == ExpectedCursors(IF PriorLog = None THEN << >> ELSE PriorLog.cursors)
             IN  IF \A u \in DOMAIN log.census : cs[u] = want[u] THEN {} ELSE {"FAIL"}

(* _fold_cursor_verdicts: the whole map, deregistered uids included.       *)
_fold_cursor_verdicts ==
    LET cs == log.cursors
        short == \E u \in Folding(log) : u \notin DOMAIN cs \/ cs[u] = None \/ cs[u] < Max(CycleKeys(log, u))
    IN  IF ~(DOMAIN log.census \subseteq DOMAIN cs) \/ short THEN {"FAIL"}
        ELSE IF PriorLog = None /\ log.prior # "none" THEN {"SKIP"}
        ELSE IF (PriorLog = None /\ ~world.genesis) \/ (PriorLog # None /\ ~Chained) THEN {}
        ELSE IF cs = ExpectedCursors(IF PriorLog = None THEN << >> ELSE PriorLog.cursors)
             THEN {} ELSE {"FAIL"}

(* _reset_earning_verdicts: a payable accumulator of a miner that is still *)
(* registered under its hotkey does not vanish without evidence.           *)
_reset_earning_verdicts ==
    IF ~Chained \/ Metagraph = None THEN {}
    ELSE IF \E u \in DOMAIN PriorLog.miners :
               /\ Payable(PriorLog.miners[u].acc)
               /\ u \in DOMAIN Metagraph /\ Metagraph[u].hk = PriorLog.miners[u].hk
               /\ u \notin DOMAIN log.earn
               /\ u \in DOMAIN log.miners => ~Payable(log.miners[u].acc)
         THEN {"FAIL"} ELSE {}

(* _predecessor_chain_verdict: only the genuine genesis has none.          *)
_predecessor_chain_verdict ==
    IF log.prior = "none" THEN (IF world.genesis THEN {} ELSE {"FAIL"})
    ELSE IF PriorLog = None THEN {"SKIP"}
    ELSE IF Chained THEN {} ELSE {"FAIL"}

_track_membership_verdicts ==
    IF \/ \E u \in DOMAIN log.miners \ {log.burn} : log.miners[u].track \notin Protocol
       \/ \E p \in log.refs : p.ref \notin Protocol
       \/ \E p \in log.avail : p.track \notin Protocol
    THEN {"FAIL"} ELSE {}

(* _burn_uid_verdict: a recipient of the burn is nobody's seat and is the  *)
(* uid this auditor resolves itself.                                       *)
_burn_uid_verdict ==
    CASE log.burn = None -> {}
      [] log.burn # None /\ log.burn \in DOMAIN log.miners \cup _evidenced_uids -> {"FAIL"}
      [] OTHER -> IF ~Reach("owner") THEN {"SKIP"}
                  ELSE IF log.burn = Owner THEN {} ELSE {"FAIL"}

-----------------------------------------------------------------------------
(* audit_round_membership: the index of atomic rounds covers exactly the   *)
(* admitted challenges, inside the window after the predecessor's close,   *)
(* and its cursor advances through them.                                   *)
RoundWindowVerdict ==
    LET admitted == {p.ch : p \in log.refs \cup log.avail} \cup DOMAIN log.content
        keys == {r.key : r \in log.rounds}
        oldClose == IF PriorLog = None THEN -1 ELSE PriorLog.close
        oldCursor == IF PriorLog = None THEN None ELSE PriorLog.roundCursor
        known == keys \cup (IF oldCursor = None THEN {} ELSE {oldCursor})
    IN  CASE {r.ch : r \in log.rounds} # admitted \/ Cardinality(keys) # Cardinality(log.rounds)
               \/ (\E r \in log.rounds : ~(r.anchor <= r.commit /\ r.commit <= log.close)) -> "FAIL"
          [] PriorLog = None /\ log.prior # "none" -> "SKIP"
          [] PriorLog = None /\ log.prior = "none" /\ ~world.genesis -> "FAIL"
          [] OTHER ->
               IF /\ PriorLog = None \/ (Chained /\ oldClose < log.close)
                  /\ \A r \in log.rounds : r.commit > oldClose
                  /\ oldCursor # None => \A k \in keys : k > oldCursor
                  /\ log.roundCursor = (IF known = {} THEN None ELSE Max(known))
               THEN "PASS" ELSE "FAIL"

(* Each committed object is bound to its entry through the dispatch        *)
(* preimage.                                                               *)
RoundBinding(p) ==
    LET r == CHOOSE e \in log.rounds : e.ch = p.ch
        d == world.disp[p.ch]
        bound == /\ r.key = d.key /\ r.anchor = d.anchor /\ p.key = d.key
                 /\ p.track = d.track /\ p.ref = d.track
    IN  IF p.kind = "avail" THEN IF ObservationSigned(p) /\ bound THEN "PASS" ELSE "FAIL"
        ELSE IF ~bundle_for(p) THEN "SKIP"
        ELSE IF p.b.ch # p.ch THEN "FAIL"
        ELSE IF ~Reach("packets") THEN "SKIP"
        ELSE IF ~(r.key = d.key /\ r.anchor = d.anchor) THEN "FAIL"
        ELSE IF ~Reach("reveals") THEN "SKIP"
        ELSE IF bound /\ p.b.reveal # "other" THEN "PASS" ELSE "FAIL"

TemplateBinding(ch) ==
    LET r == CHOOSE e \in log.rounds : e.ch = ch
    IN  IF ~Reach("bundles") THEN "SKIP"
        ELSE IF r.key # world.disp[ch].key \/ r.anchor # world.disp[ch].anchor THEN "FAIL"
        ELSE IF ~Reach("reveals") THEN "SKIP" ELSE "PASS"

audit_round_membership ==
    IF RoundWindowVerdict # "PASS" THEN {RoundWindowVerdict}
    ELSE {RoundBinding(p) : p \in log.refs \cup log.avail}
         \cup {TemplateBinding(ch) : ch \in DOMAIN log.content}

-----------------------------------------------------------------------------
(* The roll-up.                                                            *)

_fold_earning_into_weight(w, kinds) ==
    IF w = "FAIL" \/ "FAIL" \in kinds THEN "FAIL"
    ELSE IF "SKIP" \in kinds THEN "SKIP" ELSE w

overall_status(its, w, kinds) ==
    IF "FAIL" \in its \cup {w} \cup kinds THEN "DISPUTED"
    ELSE IF "SKIP" \in its \cup {w} \cup kinds THEN "INCONCLUSIVE" ELSE "CLEAN"

-----------------------------------------------------------------------------
Init ==
    /\ \E c \in Cases : world = c.world /\ log = c.log
    /\ gone \in Outages /\ drift \in -Tol..Tol
    /\ leg = "decode" /\ sampled = {} /\ items = {} /\ earning = {}
    /\ weight = None /\ overall = None

Add(at, kinds, next) ==
    /\ leg = at /\ leg' = next
    /\ earning' = earning \cup kinds
    /\ UNCHANGED <<case, sampled, items, weight, overall>>

(* invalid_epoch_report and _structural_defect_report: authenticated bytes *)
(* that do not decode, or a manifest that cannot be sampled, still end in  *)
(* a signed report.                                                        *)
Unauditable ==
    /\ leg = "decode" /\ (~WellFormed(log) \/ log.shape # "sound")
    /\ weight' = IF WellFormed(log) /\ log.shape = "unexpected" THEN "SKIP" ELSE "FAIL"
    /\ overall' = overall_status({}, weight', {})
    /\ leg' = "done"
    /\ UNCHANGED <<case, sampled, items, earning>>

(* Sampling.  The beacon ranks the items of a source; whatever it is, the  *)
(* policy draws the first target_count of them.                            *)
target_count(policy, population) == IF population <= policy THEN population ELSE policy

CompetitionRefs == IF log.comp = None THEN {} ELSE log.comp.items

Drawn(stratum, policy) ==
    {s \in SUBSET stratum : Cardinality(s) = target_count(policy, Cardinality(stratum))}

sample_items ==
    /\ leg = "decode" /\ WellFormed(log) /\ log.shape = "sound" /\ leg' = "items"
    /\ \E policy \in Samples :
          \E a \in Drawn(log.refs, policy), b \in Drawn(CompetitionRefs, policy) :
              sampled' = a \cup b
    /\ UNCHANGED <<case, items, earning, weight, overall>>

AuditItems ==
    /\ leg = "items" /\ leg' = "weight"
    /\ items' = {_audit_item(p) : p \in sampled}
    /\ UNCHANGED <<case, sampled, earning, weight, overall>>

WeightLeg ==
    /\ leg = "weight" /\ leg' = "earning"
    /\ weight' = _weight_verdict(_snapshot_verdicts)
    /\ earning' = earning \cup _snapshot_verdicts \cup _competition_verdicts
    /\ UNCHANGED <<case, sampled, items, overall>>

EarningLeg == Add("earning", _earning_verdicts, "chain")

ChainLeg ==
    Add("chain", {_created_at_verdict} \cup _fold_cursor_verdicts \cup _reset_earning_verdicts
                 \cup _predecessor_chain_verdict, "census")

CensusLeg ==
    Add("census", _census_verdicts \cup _track_membership_verdicts \cup _burn_uid_verdict, "rounds")

RoundsLeg ==
    Add("rounds", audit_manifest_rounds \cup audit_source_rounds \cup audit_round_membership,
        "report")

Report ==
    /\ leg = "report" /\ leg' = "done"
    /\ weight' = _fold_earning_into_weight(weight, earning)
    /\ overall' = overall_status(items, weight', earning)
    /\ UNCHANGED <<case, sampled, items, earning>>

Next == \/ Unauditable \/ sample_items \/ AuditItems \/ WeightLeg \/ EarningLeg
        \/ ChainLeg \/ CensusLeg \/ RoundsLeg \/ Report

Spec == Init /\ [][Next]_vars

-----------------------------------------------------------------------------
(* What a log pays and what it hands to the next epoch; the accumulators   *)
(* of the uids of "but" are left out.                                      *)
Economics(l, but) ==
    [shares |-> l.shares, window |-> l.window, cursors |-> l.cursors, round |-> l.roundCursor,
     carried |-> [u \in {v \in DOMAIN l.miners \ but : Payable(l.miners[v].acc)} |->
                    l.miners[u].acc]]

-----------------------------------------------------------------------------
(* Evidence whose absence the code reports as a fault: of a drawn item the *)
(* media, the packet, the reference or the competition's manifest while    *)
(* its bundle is there, and of a content round its media or its template.  *)
Starved ==
    \/ sampled # {} /\ gone \cap {"media", "packets", "reference", "competition"} # {}
    \/ log.content # << >> /\ gone \cap {"media", "bundles"} # {}

(* A source round whose roster is not the fold set of its log: it holds    *)
(* the winner of a content share, or a member that left its uid or whose   *)
(* witness was lost.                                                       *)
SourceRoundSplit(w) ==
    \E ch \in w.chs :
        /\ Flagged(w, ch) # {}
        /\ \E q \in Eligible(w, ch) :
              \/ ~Seated(w, q) \/ q.uid \in w.unwritten
              \/ Cardinality(Component(ContentRoster(w, ch), q)) > 1

(* What the authority's builder publishes of the truth, with every refusal *)
(* and deferral it makes first, is never called provably wrong, whatever   *)
(* part of the evidence the auditor cannot reach and however its own       *)
(* measurement drifts within the tolerance: apart from the two exceptions  *)
(* above, which audit/recompute.py and source_evidence.py make.            *)
FaithfulNeverDisputed ==
    (overall = "DISPUTED" /\ ~Starved /\ ~SourceRoundSplit(world)) => log # FaithfulLog(world)

(* The truth about a committed score: the decision on the answer it names, *)
(* or an answer so near the threshold that the tolerance excuses it.       *)
ScoreHolds(p) ==
    \E m \in AnswerOf(p) :
        \/ Distance(m.vmaf, Threshold) <= 2 * Tol
        \/ p.score = IF p.ctx = None THEN Decision(world, m).score ELSE Original(world, m).score

(* The log that follows from the packets of this one; the authority may    *)
(* have deferred the competition.                                          *)
Derived ==
    build_log(world, build_audit_manifest(world, log.refs, log.avail),
              IF log.comp = None THEN None ELSE build_competition_epoch_evidence(world))

(* A clean report with every item drawn means that every committed score   *)
(* is the one that was earned, and that every payment, accumulator, cursor *)
(* and window follows from them and from the predecessor: no check was     *)
(* washed out by missing evidence, and no row slipped between the legs.    *)
(* Left out is the accumulator of an excluded contender without evidence:  *)
(* _competition_window_only takes it from every leg (see README).          *)
CleanIsEarned ==
    (overall = "CLEAN" /\ sampled = log.refs \cup CompetitionRefs) =>
        /\ \A p \in sampled : ScoreHolds(p)
        /\ log.avail \subseteq world.avail
        /\ Economics(log, _competition_window_only)
             = Economics(Derived, _competition_window_only)

(* With all the evidence at hand the auditor decides: an inconclusive      *)
(* report is always explained by evidence out of reach (a predecessor that *)
(* does not exist included), by a component the authority declared         *)
(* skipped, by a decoder that failed unexpectedly, by the items of one uid *)
(* on two tracks, or by a broken chronology of an item that was not drawn, *)
(* which the earning leg only suspects.                                    *)
DecidesWithEvidence ==
    (overall = "INCONCLUSIVE") =>
        \/ gone # {} \/ log.shape = "unexpected"
        \/ (world.prior = None /\ log.prior # "none")
        \/ \E ch \in DOMAIN log.content : log.content[ch].skipped # {}
        \/ \E p, q \in log.refs : p.uid = q.uid /\ p.ref # q.ref
        \/ \E p \in log.refs \ sampled : verify_challenge_chronology(p) = "FAIL"
=============================================================================
