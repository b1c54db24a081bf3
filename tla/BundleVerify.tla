------------------------------ MODULE BundleVerify ------------------------------
(***************************************************************************)
(* One scored item, from both sides: what the validator records of a round *)
(* (the measurement, the source-proximity zeros, the content shares, the   *)
(* exact duplicates; vidaio/scoring and validator/inference.py) and what   *)
(* verify_bundle of vidaio/audit/recompute.py, with the recomputer of      *)
(* auditor/recomputer.py, makes of the packet and of the bundle published. *)
(*                                                                         *)
(* A world w holds what happened.  w.meas are the answers that were        *)
(* received: their quality vmaf and worth, canonical content, residuals    *)
(* and output.  w.disp are the pre-dispatch commitments, w.order the       *)
(* anchor-salted order of the hotkeys, w.unwritten the uids for which the  *)
(* witness of a decision could not be archived.                            *)
(*                                                                         *)
(* A metric is an integer; the worth of an answer is its final score above *)
(* the threshold.  A scorer identity is the pair (by, of): the convention, *)
(* and the committed worker it is derived from.                            *)
(***************************************************************************)
EXTENDS Integers, Sequences, FiniteSets, SequencesExt, FiniteSetsExt, TLC

CONSTANTS
    Tol,        \* the declared tolerance of the vmaf metric
    Threshold,  \* the vmaf threshold of the compression track
    Band,       \* the band below it: the gate fails below Threshold - Band
    Unit,       \* the score 1.0
    None

ASSUME BundleVerifyAssumption == Tol \in Nat /\ Threshold \in Nat /\ Band \in Nat /\ Unit \in Nat

Distance(a, b) == IF a < b THEN b - a ELSE a - b

-----------------------------------------------------------------------------
(* The measurement of an answer.                                           *)

Floor == Threshold - Band

vmaf_floor_gate(v) ==
    IF v < Floor THEN {[code |-> "VMAF_BELOW_FLOOR", measured |-> v, limit |-> Floor]} ELSE {}

zero_reason(v) ==
    IF v < Floor THEN "VMAF_BELOW_FLOOR" ELSE IF v < Threshold THEN "VMAF_BELOW_THRESHOLD" ELSE None

(* _formula_boundary: only the near miss is a decision surface.            *)
_formula_boundary(v) ==
    IF zero_reason(v) = "VMAF_BELOW_THRESHOLD"
    THEN [code |-> "VMAF_BELOW_THRESHOLD", measured |-> v, limit |-> Threshold] ELSE None

(* compose_item_score: gates first, then the formula.                      *)
Measurement(v, worth) ==
    LET final == IF zero_reason(v) = None THEN worth ELSE 0
        gate == vmaf_floor_gate(v) = {}
    IN  [metrics |-> [vmaf |-> v, final_score |-> final], gate |-> gate,
         facts |-> vmaf_floor_gate(v), zero |-> _formula_boundary(v),
         score |-> IF gate THEN final ELSE 0]

Backends == {"libvmaf"}

(* The bundle of an item as the epoch finalizer builds it.                 *)
Bundle(ch, hk, out, by, of, backends) ==
    [stage |-> "post_retirement", altered |-> FALSE, corrupt |-> {}, ch |-> ch, hk |-> hk,
     out |-> out, by |-> by, of |-> of, backends |-> backends, reveal |-> "sound", proof |-> TRUE]

Packet(w, m, by, backends, rest) ==
    LET d == w.disp[m.ch]
    IN  rest @@ [uid |-> m.uid, ch |-> m.ch, key |-> d.key, track |-> d.track, ref |-> d.track,
                 hk |-> m.hk, out |-> m.out, excl |-> FALSE, kind |-> "media", ctx |-> None,
                 by |-> by, of |-> d.scorer, backends |-> backends,
                 b |-> Bundle(m.ch, m.hk, m.out, by, d.scorer, backends)]

NoWitness == [kind |-> "none"]

(* The original packet of an answer, as the scoring worker measured it.    *)
Original(w, m) ==
    Packet(w, m, "measured", Backends,
           Measurement(m.vmaf, m.worth) @@ [content |-> m.content, res |-> m.res,
                                            witness |-> NoWitness])

(* A minted decision measures nothing.                                     *)
Minted(w, m, by, score, code, witness) ==
    Packet(w, m, by, {}, [metrics |-> << >>, gate |-> FALSE, zero |-> None, score |-> score,
                          facts |-> {[code |-> code, measured |-> None, limit |-> None]},
                          content |-> None, res |-> None, witness |-> witness])

-----------------------------------------------------------------------------
(* Source proximity: both residuals of an answer well above the medians of *)
(* its round.  Residuals are in units of 0.05 (vmaf, and dB).              *)

MIN_ROSTER == 3
RULE_MARGINS == [luma |-> 9, chroma |-> 5, floor |-> 3]

(* median, doubled so that the mean of the middle two stays an integer.    *)
median(roster, i) ==
    LET s == SetToSortSeq(roster, LAMBDA a, b : a.res[i] < b.res[i])
        n == Len(s)
    IN  s[(n + 1) \div 2].res[i] + s[(n + 2) \div 2].res[i]

derive_flags(roster) ==
    IF Cardinality(roster) < MIN_ROSTER THEN {}
    ELSE {q \in roster : /\ 2 * q.res[1] - median(roster, 1) >= 2 * RULE_MARGINS.luma
                         /\ 2 * q.res[2] - median(roster, 2) >= 2 * RULE_MARGINS.chroma
                         /\ q.res[1] > RULE_MARGINS.floor}

(* Content: answers with one canonical digest share the score of the       *)
(* anchor-salted winner among them.                                        *)
same_content(a, b) == a.content = b.content

Component(roster, q) == {r.uid : r \in {x \in roster : same_content(q, x)}}

derive_components(roster) == {Component(roster, q) : q \in roster}

(* The first of the order in a set of records with a hotkey.               *)
First(order, S) == CHOOSE q \in S : \A r \in S : order[q.hk] <= order[r.hk]

share(score, comp) == score \div Cardinality(comp)

-----------------------------------------------------------------------------
(* What the validator folds of one round, in its order: exact duplicates   *)
(* are taken out, the others measured, flagged ones zeroed, and the rest   *)
(* grouped by content.                                                     *)

Answers(w, ch) == {m \in w.meas : m.ch = ch}

DuplicateLosers(w, ch) ==
    {m \in Answers(w, ch) :
        \E n \in Answers(w, ch) : n.out = m.out /\ w.order[n.hk] < w.order[m.hk]}

Eligible(w, ch) ==
    {q \in {Original(w, m) : m \in Answers(w, ch) \ DuplicateLosers(w, ch)} : q.gate /\ q.score > 0}

Flagged(w, ch) ==
    IF w.disp[ch].track = "compression" THEN derive_flags(Eligible(w, ch)) ELSE {}

ContentRoster(w, ch) == Eligible(w, ch) \ Flagged(w, ch)

SkippedComponents(w, ch) ==
    {comp \in derive_components(ContentRoster(w, ch)) :
        Cardinality(comp) > 1 /\ comp \cap w.unwritten # {}}

mint_duplicate_packet(w, m) ==
    LET winner == First(w.order, {n \in Answers(w, m.ch) : n.out = m.out})
    IN  Minted(w, m, "duplicate", 0, "REPLAY_DUPLICATE",
               [kind |-> "duplicate", winner |-> winner.hk, out |-> winner.out])

mint_source_proximity_packet(w, m) ==
    Minted(w, m, "source", 0, "SOURCE_PROXIMITY",
           [kind |-> "source", roster |-> Eligible(w, m.ch),
            flagged |-> {q.uid : q \in Flagged(w, m.ch)}])

mint_content_share_packet(w, m, comp) ==
    LET winner == First(w.order, {q \in ContentRoster(w, m.ch) : q.uid \in comp})
        wit == [kind |-> "content", comp |-> comp, winner |-> winner.uid, wscore |-> winner.score,
                roster |-> ContentRoster(w, m.ch)]
        s == share(winner.score, comp)
    IN  IF winner.uid = m.uid
        THEN [winner EXCEPT !.by = "content", !.b.by = "content", !.score = s, !.witness = wit]
        ELSE Minted(w, m, "content", s, "DUPLICATE_CONTENT", wit)

Decision(w, m) ==
    LET q == Original(w, m)
        comp == Component(ContentRoster(w, m.ch), q)
    IN  IF m \in DuplicateLosers(w, m.ch) THEN mint_duplicate_packet(w, m)
        ELSE IF q \in Flagged(w, m.ch) THEN mint_source_proximity_packet(w, m)
        ELSE IF q \in ContentRoster(w, m.ch) /\ Cardinality(comp) > 1
             THEN mint_content_share_packet(w, m, comp)
        ELSE q

(* An answer whose witness could not be archived is skipped, not zeroed.   *)
Folded(w, m) ==
    LET p == Decision(w, m)
    IN  CASE p.by = "content" -> p.witness.comp \notin SkippedComponents(w, m.ch)
          [] p.by \in {"source", "duplicate"} -> m.uid \notin w.unwritten
          [] OTHER -> TRUE

RoundPackets(w, ch) == {Decision(w, m) : m \in {n \in Answers(w, ch) : Folded(w, n)}}

-----------------------------------------------------------------------------
(* The boundary: a metric that crosses a decision surface by no more than  *)
(* its tolerance leaves the committed outcome standing.                    *)

_BOUNDARY_METRICS == {"VMAF_BELOW_FLOOR", "VMAF_BELOW_THRESHOLD"}

_boundary_fact_is_tolerated(fact, failing, passing) ==
    /\ fact.code \in _BOUNDARY_METRICS
    /\ Distance(failing.vmaf, fact.measured) <= Tol
    /\ Distance(failing.vmaf, passing.vmaf) <= Tol
    /\ Distance(fact.measured, fact.limit) <= Tol
    /\ failing.vmaf < fact.limit /\ fact.limit <= passing.vmaf

(* The facts on which packet p and the fresh score f differ: a flipped     *)
(* gate, or a formula zero on one side alone.                              *)
GateFlip(p, f) == p.gate # f.gate
FormulaFlip(p, f) == p.gate = f.gate /\ (p.zero = None) # (f.zero = None)

BoundaryFacts(p, f) ==
    IF GateFlip(p, f) THEN IF p.gate THEN f.facts ELSE p.facts
    ELSE IF FormulaFlip(p, f) THEN {IF p.zero # None THEN p.zero ELSE f.zero} ELSE {}

_boundary_hysteresis(p, f) ==
    LET recordedFails == ~p.gate \/ (FormulaFlip(p, f) /\ p.zero # None)
        failing == IF recordedFails THEN p.metrics ELSE f.metrics
        passing == IF recordedFails THEN f.metrics ELSE p.metrics
    IN  /\ DOMAIN p.metrics = DOMAIN f.metrics /\ "vmaf" \in DOMAIN p.metrics
        /\ BoundaryFacts(p, f) # {}
        /\ Distance(p.metrics.vmaf, f.metrics.vmaf) <= Tol
        /\ FormulaFlip(p, f) \/ p.metrics.final_score = f.metrics.final_score
        /\ \A fact \in BoundaryFacts(p, f) : _boundary_fact_is_tolerated(fact, failing, passing)

Honest(s) == s.score = IF s.gate THEN s.metrics.final_score ELSE 0

_scores_are_internally_honest(p, f) == Honest(p) /\ Honest(f)

-----------------------------------------------------------------------------
(* verify_bundle.  x is what the auditor brings: the hotkey the item is    *)
(* attributed to, the artifacts it cannot read, the committed worker and   *)
(* track, the order of the hotkeys, the fresh score.  A check answers with *)
(* the codes of its failures.                                              *)

Fails(ok, code) == IF ok THEN {} ELSE {code}

Kinds == {"input", "output", "manifest", "packet", "reference", "dag"}

(* AuditBundle: which artifacts a bundle of a stage references.            *)
Referenced(p) ==
    CASE p.b.stage = "pre_reveal" -> Kinds \ {"dag", "reference"}
      [] p.b.stage = "sealed" -> Kinds \ {"dag"}
      [] OTHER -> Kinds

Artifacts(p, x) == Referenced(p) \ (x.lost \cup p.b.corrupt)

(* ScorePacketShape: a finite score of the unit interval.                  *)
Shaped(p) == p.score \in 0..Unit

Parsed(p, x) == "packet" \in Artifacts(p, x) /\ Shaped(p)

stage_recomputable(p) ==
    Fails(\/ p.b.stage = "post_retirement"
          \/ /\ p.ctx # None
             /\ p.b.stage = IF p.ctx.track = "compression" THEN "pre_reveal" ELSE "sealed",
          "INCOMPLETE_BUNDLE")

bundle_digest(p) == Fails(~p.b.altered, "DIGEST_MISMATCH")

artifact_integrity(p, x) ==
    Fails(p.b.corrupt \cap Referenced(p) = {}, "ARTIFACT_CORRUPT")
    \cup Fails(x.lost \cap Referenced(p) = {}, "ARTIFACT_MISSING")

(* The preimage of an upscaling or removal item: the bundle, the epoch     *)
(* evidence and the anchored manifest name one pair at one index.          *)
ItemBinding(p, x) ==
    p.ctx.track = "compression" \/ (p.ctx.preimage = "bound" /\ "reference" \in Artifacts(p, x))

competition_manifest(p, x) ==
    IF p.ctx = None THEN {}
    ELSE Fails(/\ {"manifest", "input"} \subseteq Artifacts(p, x)
               /\ p.ctx.manifest = "committed" /\ p.ctx.threshold = "committed"
               /\ ItemBinding(p, x),
               "COMPETITION_MANIFEST_INVALID")

commitment_reveal(p, x) ==
    IF p.ctx # None THEN {}
    ELSE IF "dag" \notin Artifacts(p, x) THEN {"ARTIFACT_MISSING"}
    ELSE Fails(p.b.reveal # "other", "COMMITMENT_MISMATCH")

dag_reveal_generation(p, x) ==
    IF p.ctx # None THEN {}
    ELSE IF "dag" \notin Artifacts(p, x) THEN {"ARTIFACT_MISSING"}
    ELSE Fails(p.b.reveal # "invalid", "REVEAL_INVALID")

(* What an original packet of a roster has to be.                          *)
validate_member_packet(q) == q.by = "measured" /\ q.gate /\ q.score > 0

(* validate_share_packet: either role of a share, against the winner's     *)
(* original packet as the roster of its witness names it.                  *)
WinnerCopy(p, orig) ==
    /\ p.gate /\ p.facts = {}
    /\ p.metrics = orig.metrics /\ p.backends = orig.backends /\ p.content = orig.content

LoserShape(p) ==
    /\ ~p.gate /\ {f.code : f \in p.facts} = {"DUPLICATE_CONTENT"}
    /\ p.metrics = << >> /\ p.backends = {} /\ p.content = None

validate_share_packet(p, order) ==
    LET t == p.witness
    IN  /\ t.kind = "content" /\ p.uid \in t.comp /\ t.comp \in derive_components(t.roster)
        /\ LET orig == First(order, {q \in t.roster : q.uid \in t.comp})
           IN  /\ orig.uid = t.winner /\ validate_member_packet(orig) /\ orig.score = t.wscore
               /\ p.score = share(t.wscore, t.comp)
               /\ IF p.uid = t.winner THEN WinnerCopy(p, orig) ELSE LoserShape(p)

(* validate_source_packet and verify_roster: the exact zero of a flagged   *)
(* member, and the flags that follow from the original packets.            *)
validate_source_packet(p) ==
    /\ p.witness.kind = "source" /\ p.uid \in p.witness.flagged
    /\ p.score = 0 /\ ~p.gate /\ {f.code : f \in p.facts} = {"SOURCE_PROXIMITY"}
    /\ p.metrics = << >> /\ p.backends = {} /\ p.content = None

verify_roster(t) ==
    /\ \A q \in t.roster : validate_member_packet(q)
    /\ t.flagged = {q.uid : q \in derive_flags(t.roster)}

(* duplicate_witness: the exact duplicate names the winner, whose output   *)
(* is the loser's and whose salted order is lower.                         *)
duplicate_witness(p, x) ==
    IF p.by # "duplicate" THEN {}
    ELSE Fails(/\ p.witness.kind = "duplicate" /\ p.witness.winner # p.hk
               /\ p.metrics = << >> /\ p.score = 0 /\ ~p.gate /\ p.zero = None
               /\ {f.code : f \in p.facts} = {"REPLAY_DUPLICATE"} /\ p.backends = {}
               /\ p.out = p.b.out /\ p.witness.out = p.out
               /\ x.order[p.witness.winner] < x.order[p.hk],
               "MALFORMED_SCORE_PACKET")

packet_identity(p, x) ==
    Fails(/\ p.ch = p.b.ch /\ p.out = p.b.out /\ p.hk = p.b.hk
          /\ x.hotkey = None \/ p.hk = x.hotkey,
          "IDENTITY_MISMATCH")

scorer_version(p) == Fails(p.by = p.b.by /\ p.of = p.b.of, "SCORER_VERSION_MISMATCH")

backend_versions(p) == Fails(p.backends = p.b.backends, "BACKEND_VERSION_MISMATCH")

(* packet_consistency: a failed gate pays nothing, except the share of a   *)
(* content loser whose witness the store bears out (x.shares).             *)
packet_consistency(p, x) ==
    IF ~p.gate /\ p.score # 0
    THEN IF p.by = "content" THEN Fails(p.witness.winner # p.uid /\ x.shares, "CONTENT_EVIDENCE_MISMATCH")
         ELSE {"PACKET_INCONSISTENT"}
    ELSE Fails(~(p.gate /\ p.facts # {}), "PACKET_INCONSISTENT")

(* _expected_packet_scorer: measured packets name the committed worker,    *)
(* the reserved conventions derive their identity from it, and an          *)
(* authority-observed zero is no evidence.                                 *)
_expected_packet_scorer(p, committed) ==
    IF p.by = "validator" \/ (p.by # "measured" /\ p.track # committed.track) THEN None
    ELSE [by |-> p.by, of |-> committed.scorer]

committed_scorer_version(p, x) ==
    IF p.ctx = None /\ "dag" \notin Artifacts(p, x) THEN {"ARTIFACT_MISSING"}
    ELSE IF p.ctx # None /\ "manifest" \notin Artifacts(p, x) THEN {"COMPETITION_MANIFEST_INVALID"}
    ELSE Fails(/\ Parsed(p, x)
               /\ _expected_packet_scorer(p, x.committed) = [by |-> p.by, of |-> p.of]
               /\ _expected_packet_scorer(p, x.committed) = [by |-> p.b.by, of |-> p.b.of],
               "SCORER_VERSION_MISMATCH")

merkle_inclusion(p) == Fails(p.b.proof, "MERKLE_EXCLUSION")

(* The committed packet against the fresh score f.                         *)
metrics_recompute(p, f) ==
    Fails(DOMAIN p.metrics = DOMAIN f.metrics, "METRIC_SET_MISMATCH")
    \cup Fails(\A k \in DOMAIN p.metrics \cap DOMAIN f.metrics :
                  \/ Distance(p.metrics[k], f.metrics[k]) <= IF k = "vmaf" THEN Tol ELSE 0
                  \/ k = "final_score" /\ FormulaFlip(p, f) /\ _boundary_hysteresis(p, f),
               "SCORE_MISMATCH")

score_recompute(p, f) ==
    Fails(\/ p.score = f.score
          \/ _boundary_hysteresis(p, f) /\ _scores_are_internally_honest(p, f),
          "SCORE_MISMATCH")

gate_recompute(p, f) == Fails(p.gate = f.gate \/ _boundary_hysteresis(p, f), "SCORE_MISMATCH")

versions_recompute(p, f) ==
    Fails(f.content = p.content, "CONTENT_EVIDENCE_MISMATCH")
    \cup Fails(f.by = p.b.by /\ f.of = p.b.of, "SCORER_VERSION_MISMATCH")
    \cup Fails(f.backends = p.b.backends, "BACKEND_VERSION_MISMATCH")

(* The recomputation is only tried with the packet and both media; its     *)
(* failure is a finding, except a roster that is out of reach.             *)
recompute(p, x) ==
    IF ~Parsed(p, x) \/ ~({"input", "output"} \subseteq Artifacts(p, x)) THEN {"RECOMPUTE_ERROR"}
    ELSE CASE x.fresh.kind = "unavailable" -> {"STRICT_SKIP"}
           [] x.fresh.kind = "error" -> {"RECOMPUTE_ERROR"}
           [] OTHER -> versions_recompute(p, x.fresh) \cup metrics_recompute(p, x.fresh)
                       \cup score_recompute(p, x.fresh) \cup gate_recompute(p, x.fresh)

PacketChecks(p, x) ==
    IF "packet" \notin Artifacts(p, x) THEN {"ARTIFACT_MISSING"}
    ELSE IF ~Shaped(p) THEN {"MALFORMED_SCORE_PACKET"}
    ELSE duplicate_witness(p, x) \cup packet_identity(p, x) \cup scorer_version(p)
         \cup backend_versions(p) \cup packet_consistency(p, x)

verify_bundle(p, x) ==
    stage_recomputable(p) \cup bundle_digest(p) \cup artifact_integrity(p, x)
    \cup competition_manifest(p, x) \cup commitment_reveal(p, x) \cup dag_reveal_generation(p, x)
    \cup PacketChecks(p, x) \cup committed_scorer_version(p, x) \cup merkle_inclusion(p)
    \cup recompute(p, x)

(* _verdict_from: a finding is a fault, what could not be read is not.     *)
_verdict_from(codes) ==
    IF codes \ {"ARTIFACT_MISSING", "STRICT_SKIP"} # {} THEN "FAIL"
    ELSE IF codes # {} THEN "SKIP" ELSE "PASS"
=============================================================================
