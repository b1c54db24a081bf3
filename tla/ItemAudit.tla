------------------------------- MODULE ItemAudit --------------------------------
(***************************************************************************)
(* What an auditor makes of one committed item, of a content round and of  *)
(* a source round: auditor/chronology.py, recomputer.py,                   *)
(* content_evidence.py, source_evidence.py and _audit_item of service.py.  *)
(*                                                                         *)
(* The world is what happened (see BundleVerify): chs are the challenges   *)
(* of the epoch, matrix those of its competition.  The log is what the     *)
(* authority published about it.  Evidence in gone is out of reach, and    *)
(* every fresh vmaf measurement is off by drift, within the tolerance.     *)
(* A check answers PASS, FAIL (provably wrong) or SKIP (not verifiable).   *)
(***************************************************************************)
EXTENDS EpochLog

VARIABLES
    world,  \* what happened
    log,    \* what the authority published
    gone,   \* the evidence this auditor cannot reach
    drift   \* what its measurement differs by

Evidence == {"bundles", "packets", "media", "reference", "reveals", "chain", "pieapp",
             "metagraph", "closeTime", "prior", "owner", "competition", "archive"}

Reach(e) == e \notin gone

(* The artifacts of an item that cannot be read.                           *)
Lost(p) ==
    LET kinds == [e \in {"media", "packets", "reference", "reveals", "competition"} |->
                    CASE e = "media" -> {"input", "output"} [] e = "packets" -> {"packet"}
                      [] e = "reference" -> {"reference"} [] e = "reveals" -> {"dag"}
                      [] OTHER -> IF p.ctx = None THEN {} ELSE {"manifest"}]
    IN  UNION {kinds[e] : e \in gone \cap DOMAIN kinds}

(* The bundle as the auditor resolves it: stored, and of its own digest.   *)
bundle_for(p) == Reach("bundles") /\ ~p.b.altered

(* The answer a bundle is the record of: the miner's signed receipt names  *)
(* the challenge, its hotkey and its output.                               *)
AnswerOf(p) == {m \in world.meas : m.ch = p.b.ch /\ m.hk = p.b.hk /\ m.out = p.b.out}

-----------------------------------------------------------------------------
(* verify_challenge_chronology: the anchor on chain at its block, the      *)
(* miner's receipt bound to the dispatch that the reveal opens, and the    *)
(* receipts the witness of a decision names.                               *)

AnchorVerdict(p) ==
    IF ~Reach("chain") THEN "SKIP" ELSE IF world.disp[p.b.ch].anchor = None THEN "FAIL" ELSE "PASS"

_read_reveal(p) == Reach("reveals") /\ "dag" \notin p.b.corrupt /\ p.b.reveal # "other"

(* An authority-observed zero has no receipt at all.                       *)
ReceiptVerdict(p) ==
    IF p.by = "validator" THEN IF Reach("packets") THEN "FAIL" ELSE "SKIP"
    ELSE IF ~_read_reveal(p) THEN "SKIP"
    ELSE IF AnswerOf(p) = {} THEN "FAIL" ELSE "PASS"

WinnerReceipt(p) ==
    \E m \in world.meas : /\ m.ch = p.b.ch /\ m.hk = p.witness.winner /\ m.out = p.witness.out
                          /\ world.order[m.hk] < world.order[p.hk]

WitnessVerdict(p) ==
    IF /\ Reach("packets")
       /\ \/ p.by = "content" /\ ~validate_share_packet(p, world.order)
          \/ p.by = "duplicate" /\ (p.witness.kind # "duplicate" \/ ~WinnerReceipt(p))
    THEN "FAIL" ELSE "PASS"

verify_challenge_chronology(p) ==
    IF AnchorVerdict(p) # "PASS" THEN AnchorVerdict(p)
    ELSE IF ReceiptVerdict(p) # "PASS" THEN ReceiptVerdict(p) ELSE WitnessVerdict(p)

-----------------------------------------------------------------------------
(* The recomputation.                                                      *)

Unscored(kind) == [kind |-> kind]

(* recompute: the honest pipeline over the media of an answer.  Only a     *)
(* compression competition measures against the input itself.              *)
NeedsReference(p) == p.b.stage # "pre_reveal"

FreshMeasured(p) ==
    IF AnswerOf(p) = {} \/ (NeedsReference(p) /\ ~Reach("reference")) THEN Unscored("error")
    ELSE LET m == CHOOSE a \in AnswerOf(p) : TRUE
         IN  Measurement(m.vmaf + drift, m.worth)
             @@ [kind |-> "score", by |-> "measured", of |-> world.disp[p.b.ch].scorer,
                 backends |-> Backends, content |-> m.content]

FreshMinted(p, score) ==
    [kind |-> "score", metrics |-> << >>, gate |-> FALSE, facts |-> p.facts, zero |-> None,
     score |-> score, by |-> p.by, of |-> world.disp[p.b.ch].scorer, backends |-> {},
     content |-> None]

(* What the auditor brings to verify_bundle.                               *)
Brought(p, hotkey, fresh) ==
    [hotkey |-> hotkey, lost |-> Lost(p), order |-> world.order, fresh |-> fresh,
     committed |-> [track |-> world.disp[p.b.ch].track, scorer |-> world.disp[p.b.ch].scorer],
     shares |-> /\ Reach("packets") /\ p.by = "content"
                /\ validate_share_packet(p, world.order)]

(* verify_round: the original packets of a roster, each verified as a      *)
(* bundle of its own; chron says whether its chronology is checked too.    *)
measured_bundle(ch, q) ==
    [q EXCEPT !.b = Bundle(ch, q.hk, q.out, q.by, q.of, q.backends)]

(* The reference alone is missing: the recomputer says it is unavailable.  *)
BackendUnavailable(q) ==
    {"packet", "input", "output"} \cap Lost(q) = {} /\ "reference" \in Lost(q)

MemberStatus(ch, q, chron) ==
    LET p == measured_bundle(ch, q)
        seen == IF chron THEN verify_challenge_chronology(p) ELSE "PASS"
        codes == verify_bundle(p, Brought(p, q.hk, FreshMeasured(p)))
        proven == codes \ ({"ARTIFACT_MISSING"} \cup
                           (IF BackendUnavailable(p) THEN {"RECOMPUTE_ERROR"} ELSE {}))
    IN  IF ~Reach("packets") THEN "unavailable"
        ELSE IF ~validate_member_packet(q) \/ seen = "FAIL" THEN "invalid"
        ELSE IF seen = "SKIP" THEN "unavailable"
        ELSE IF proven # {} THEN "invalid"
        ELSE IF codes # {} THEN "unavailable" ELSE "verified"

ComponentStatus(ch, roster, comp, chron) ==
    LET found == {MemberStatus(ch, q, chron) : q \in {r \in roster : r.uid \in comp}}
    IN  IF "invalid" \in found THEN "invalid"
        ELSE IF "unavailable" \in found THEN "unavailable" ELSE "verified"

(* recompute_content_duplicate.                                            *)
FreshShare(p) ==
    LET t == p.witness
        status == ComponentStatus(p.b.ch, t.roster, t.comp, FALSE)
        orig == CHOOSE q \in t.roster : q.uid = t.winner
    IN  IF ~validate_share_packet(p, world.order) THEN Unscored("error")
        ELSE IF status = "unavailable" THEN Unscored("unavailable")
        ELSE IF status = "invalid" THEN Unscored("error")
        ELSE IF p.uid # t.winner THEN FreshMinted(p, share(t.wscore, t.comp))
        ELSE [kind |-> "score", metrics |-> orig.metrics, gate |-> TRUE, facts |-> p.facts,
              zero |-> orig.zero, score |-> share(t.wscore, t.comp), by |-> p.by,
              of |-> world.disp[p.b.ch].scorer, backends |-> orig.backends,
              content |-> orig.content]

(* recompute_source_proximity: the flagged member's own measurement again, *)
(* then the decision of its round.                                         *)
FreshSource(p) ==
    LET mine == {q \in p.witness.roster : q.uid = p.uid}
    IN  IF ~validate_source_packet(p) THEN Unscored("error")
        ELSE IF /\ \A q \in mine : /\ validate_member_packet(q)
                                   /\ FreshMeasured(q).kind = "score"
                                   /\ FreshMeasured(q).gate /\ FreshMeasured(q).score > 0
                                   /\ q.res = (CHOOSE a \in AnswerOf(q) : TRUE).res
                /\ verify_roster(p.witness)
             THEN FreshMinted(p, 0) ELSE Unscored("error")

(* recompute_duplicate, recompute_orchestrator_zero.                       *)
FreshDuplicate(p) ==
    IF p.witness.kind = "duplicate" /\ p.witness.out = p.b.out /\ WinnerReceipt(p)
    THEN FreshMinted(p, 0) ELSE Unscored("error")

FreshOrchestratorZero(p) ==
    IF /\ p.ctx # None /\ p.b.out = "empty" /\ p.out = "empty"
       /\ p.score = 0 /\ ~p.gate /\ p.metrics = << >> /\ p.backends = {}
       /\ {f.code : f \in p.facts} = {"METRIC_MISSING"}
    THEN FreshMinted(p, 0) ELSE Unscored("error")

Fresh(p) ==
    CASE p.by = "measured" -> FreshMeasured(p)
      [] p.by = "content" -> FreshShare(p)
      [] p.by = "source" -> FreshSource(p)
      [] p.by = "duplicate" -> FreshDuplicate(p)
      [] p.by = "orchestrator" -> FreshOrchestratorZero(p)
      [] OTHER -> Unscored("error")

unsupported_reason(p) ==
    p.ref = "upscaling" /\ ~Reach("pieapp") /\ p.by \notin {"validator", "orchestrator", "duplicate"}

(* _audit_item: identity first, then the bundle, its chronology, the       *)
(* committed track, the backend, and the recomputation itself.             *)
ExpectedHotkey(p) ==
    IF p.uid = None THEN None
    ELSE IF p.ctx # None THEN log.comp.hotkeys[p.uid]
    ELSE IF p.uid \in DOMAIN log.miners THEN log.miners[p.uid].hk ELSE None

_audit_item(p) ==
    LET seen == IF p.ctx = None THEN verify_challenge_chronology(p) ELSE "PASS"
    IN  IF p.uid # None /\ ExpectedHotkey(p) = None THEN "FAIL"
        ELSE IF ~bundle_for(p) THEN "SKIP"
        ELSE IF seen # "PASS" THEN seen
        ELSE IF Reach("packets") /\ p.track # p.ref THEN "FAIL"
        ELSE IF unsupported_reason(p) THEN "SKIP"
        ELSE _verdict_from(verify_bundle(p, Brought(p, ExpectedHotkey(p), Fresh(p))))

-----------------------------------------------------------------------------
(* audit_manifest_rounds.  log.content indexes, for a challenge, the       *)
(* original packets of its roster and the components it declares skipped.  *)

Chained == Reach("prior") /\ world.prior # None /\ log.prior = "prior"

(* A positive score with a failed gate is the share of a content loser.    *)
PositiveClaim(p) ==
    p.score > 0 /\ ~p.gate =>
        /\ p.by = "content" /\ p.witness.kind = "content" /\ p.uid \in p.witness.comp
        /\ p.uid # p.witness.winner /\ p.score = share(p.witness.wscore, p.witness.comp)

FinalOf(ch, u) ==
    IF ~Reach("packets") THEN {}
    ELSE {p \in log.refs : /\ p.ch = ch /\ p.uid = u /\ p.key = world.disp[ch].key
                           /\ PositiveClaim(p)}

FinalVerdicts ==
    IF ~Reach("packets") THEN (IF log.refs = {} THEN {} ELSE {"SKIP"})
    ELSE IF \E q \in log.refs :
               \/ ~PositiveClaim(q)
               \/ \E r \in log.refs \ {q} : r.ch = q.ch /\ r.uid = q.uid /\ r.key = q.key
         THEN {"FAIL"} ELSE {}

(* A member must fold when it still holds its uid and was not folded.      *)
MustFold(ch, q) ==
    LET old == IF Chained /\ q.uid \in DOMAIN world.prior.cursors
               THEN world.prior.cursors[q.uid] ELSE None
    IN  /\ q.uid \in DOMAIN log.census /\ log.census[q.uid].hk = q.hk
        /\ old = None \/ old < world.disp[ch].key

(* The folded decision on a member of a verified component.                *)
DecisionBacked(ch, roster, comp, u) ==
    LET q == CHOOSE r \in roster : r.uid = u
        winner == First(world.order, {r \in roster : r.uid \in comp})
    IN  IF ~MustFold(ch, q) THEN FinalOf(ch, u) = {}
        ELSE /\ FinalOf(ch, u) # {}
             /\ \A p \in FinalOf(ch, u) :
                   IF Cardinality(comp) = 1 THEN p = q
                   ELSE /\ p.by = "content" /\ p.witness.roster = roster
                        /\ p.witness.comp = comp /\ p.witness.winner = winner.uid
                        /\ validate_share_packet(p, world.order) /\ ~p.excl

ComponentVerdict(ch, entry, comp) ==
    LET status == ComponentStatus(ch, entry.roster, comp, TRUE)
    IN  IF status = "invalid" THEN "FAIL"
        ELSE IF comp \in entry.skipped
             THEN IF \E u \in comp : FinalOf(ch, u) # {} THEN "FAIL" ELSE "SKIP"
        ELSE IF status = "unavailable" THEN "SKIP"
        ELSE IF \A u \in comp : DecisionBacked(ch, entry.roster, comp, u) THEN "PASS" ELSE "FAIL"

(* One version of the economics in a round: its shared components fold     *)
(* content shares only.                                                    *)
OneVersion(ch, entry) ==
    \A comp \in derive_components(entry.roster) \ entry.skipped :
        Cardinality(comp) > 1 => \A u \in comp, p \in log.refs : p \in FinalOf(ch, u) => p.by = "content"

(* A round is read through the bundle that serves as its template.         *)
RoundVerdicts(ch) ==
    LET entry == log.content[ch]
    IN  IF ~Reach("bundles") THEN {"SKIP"}
        ELSE IF ~OneVersion(ch, entry) THEN {"FAIL"}
        ELSE {ComponentVerdict(ch, entry, comp) : comp \in derive_components(entry.roster)}

Covered(p) ==
    /\ p.ch \in DOMAIN log.content /\ Reach("bundles") /\ OneVersion(p.ch, log.content[p.ch])
    /\ \E q \in log.content[p.ch].roster : q.uid = p.uid
    /\ p.key = world.disp[p.ch].key

audit_manifest_rounds ==
    FinalVerdicts \cup UNION {RoundVerdicts(ch) : ch \in DOMAIN log.content}
    \cup (IF /\ Reach("packets")
             /\ \E p \in log.refs : ((p.gate /\ p.score > 0) \/ p.by = "content") /\ ~Covered(p)
          THEN {"FAIL"} ELSE {})

-----------------------------------------------------------------------------
(* audit_source_rounds: the roster of a round with a flagged answer is the *)
(* set of the packets that were eligible in it.                            *)

(* The eligible packet of a reference: for the loser of a content share    *)
(* its original of the content index.                                      *)
EligibleOf(p) ==
    IF p.by = "content" /\ ~p.gate
    THEN IF p.ch \in DOMAIN log.content THEN {q \in log.content[p.ch].roster : q.uid = p.uid} ELSE {}
    ELSE {p}

SourceZeros(ch) == {p \in log.refs : p.ch = ch /\ p.by = "source"}

ExpectedRoster(ch) ==
    {p.uid : p \in SourceZeros(ch)}
    \cup {q.uid : q \in {r \in UNION {EligibleOf(p) : p \in {s \in log.refs : s.ch = ch}} :
                            r.gate /\ r.score > 0 /\ r.by = "measured"}}

SourceRoundVerdict(ch) ==
    LET zeros == SourceZeros(ch)
        t == (CHOOSE p \in zeros : TRUE).witness
    IN  IF /\ \A p \in zeros : p.witness.kind = "source" /\ p.witness = t
           /\ verify_roster(t)
           /\ {q.uid : q \in t.roster} = ExpectedRoster(ch)
           /\ t.flagged = {p.uid : p \in zeros}
        THEN "PASS" ELSE "FAIL"

audit_source_rounds ==
    IF ~Reach("packets") THEN (IF log.refs = {} THEN {} ELSE {"SKIP"})
    ELSE (IF \E q \in log.refs : q.track = "compression" /\ EligibleOf(q) = {}
          THEN {"FAIL"} ELSE {})
         \cup {SourceRoundVerdict(p.ch) : p \in {q \in log.refs : q.by = "source"}}
=============================================================================
