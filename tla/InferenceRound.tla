--------------------------- MODULE InferenceRound ---------------------------
(***************************************************************************)
(* The inference validator: it pins the scorer, runs scoring rounds over   *)
(* the registered miners, commits each round in one transaction, settles   *)
(* the challenge with the challenge service and releases its holdout; and  *)
(* the epoch authority, another process on the same database, captures the *)
(* rounds of a window and seals its close.                                 *)
(*                                                                         *)
(* The validator is one asyncio loop, so an action is the code between two *)
(* awaits and `step' holds the locals of the suspended round.  Tracks run  *)
(* one after the other on disjoint miners; one track is modelled.  An      *)
(* accumulator is kept as the sequence of scores folded into it.           *)
(***************************************************************************)
EXTENDS Naturals, Sequences, FiniteSets

CONSTANTS Uids,          \* registered miner slots
          None,          \* absent value
          MaxRounds,     \* bound on rounds begun
          MaxHead,       \* bound on the chain's height
          MaxEvents,     \* bound on faults, restarts and changes of the surroundings
          AnchorWindow   \* blocks in which a closed epoch may be anchored

\* A row of inflight_challenges.
InflightRow == [outcome : {"expired", "resolved"}, parked : BOOLEAN]

ASSUME InferenceAssumption ==
    /\ IsFiniteSet(Uids) /\ Uids # {}
    /\ MaxRounds \in Nat /\ MaxHead \in Nat /\ MaxEvents \in Nat /\ AnchorWindow \in Nat \ {0}
    /\ None \notin Nat /\ None \notin InflightRow

VARIABLES head, holder,               \* chain: best head, hotkey of each uid
          worker,                     \* identity of the running scoring worker
          svc,                        \* challenge service: status of each challenge
          mine,                       \* challenges the service still holds as ours
          rounds, miners, history,    \* ledger, registry, per-round state rows
          evidence,                   \* score packets and availability folds
          inflight,                   \* inflight_challenges rows
          dbpin, seal,                \* scorer_pin and round_seal rows
          released,                   \* challenges whose holdout was released
          proc,                       \* memory of the process
          step,                       \* locals of the suspended coroutine
          captured,                   \* windows captured by the authority
          resets,                     \* pins the operator reset
          events                      \* faults, restarts and changes so far

chainVars  == <<head, holder>>
ledgerVars == <<rounds, miners, history, evidence>>
svcVars    == <<svc, mine>>
vars == <<head, holder, worker, svc, mine, rounds, miners, history, evidence,
          inflight, dbpin, seal, released, proc, step, captured, resets, events>>

\* A fault or a change of the surroundings, within the bound.
Event == events < MaxEvents /\ events' = events + 1
WithFault(faulty) == IF faulty THEN Event ELSE UNCHANGED events

Full == 2
Idle == [at |-> "idle"]
NoRow == [hk |-> None, known |-> FALSE, acc |-> <<>>]

Init ==
    /\ head = 1 /\ holder = [u \in Uids |-> 0] /\ worker = 1
    /\ svc = <<>> /\ mine = {}
    /\ rounds = <<>> /\ miners = [u \in Uids |-> NoRow] /\ history = {} /\ evidence = {}
    /\ inflight = <<>> /\ dbpin = None /\ seal = 0 /\ released = {}
    /\ proc = [pin |-> None, conflict |-> FALSE, verified |-> FALSE, contract |-> None]
    /\ step = [at |-> "boot"] /\ captured = <<>> /\ resets = 0 /\ events = 0

-----------------------------------------------------------------------------
\* The scorer pin.

\* scoring_pin: a conflict leaves the validator without a pin.
scoring_pin(p) == IF p.conflict THEN None ELSE p.pin

\* _load_scorer_pin, in the constructor: the row, if it could be read.
_load_scorer_pin(row) == [pin |-> row, conflict |-> FALSE, verified |-> FALSE, contract |-> None]

\* discover_scorer_identity: `seen' is the identity the worker reports, None when it
\* could not be asked.  A changed identity, or a pin row that says otherwise, conflicts.
discover_scorer_identity(p, seen) ==
    IF p.conflict \/ seen = None THEN p
    ELSE IF p.pin # None /\ p.pin # seen
    THEN [p EXCEPT !.conflict = TRUE, !.contract = seen]
    ELSE IF dbpin # None /\ dbpin # seen
    THEN [p EXCEPT !.pin = seen, !.conflict = TRUE, !.contract = seen]
    ELSE [pin |-> seen, conflict |-> FALSE, verified |-> TRUE, contract |-> seen]

\* record_scorer_pin writes the row once.
PinRow(p) == IF dbpin = None /\ p.verified THEN p.pin ELSE dbpin

-----------------------------------------------------------------------------
\* Settling challenges: the in-flight ledger, the service and the holdouts.

Live   == {c \in DOMAIN inflight : inflight[c] # None /\ ~inflight[c].parked}
Parked == {c \in DOMAIN inflight : inflight[c] # None /\ inflight[c].parked}
Row(c) == c \in DOMAIN inflight /\ inflight[c] # None

\* reference_original_refs: only a committed round's rows are released.
CommittedRefs(c) == {e \in evidence : e.ch = c /\ e.kind # "avail"}

\* The row leaves the ledger once the holdout is released; a store that fails keeps it.
MutClearsFirst(c) ==
    /\ inflight' = [inflight EXCEPT ![c] = None]
    /\ \/ UNCHANGED events /\ released' = IF CommittedRefs(c) = {} THEN released ELSE released \cup {c}
       \/ Event /\ UNCHANGED released
ReleaseAndClear(c) ==
    \/ /\ released' = IF CommittedRefs(c) = {} THEN released ELSE released \cup {c}
       /\ inflight' = [inflight EXCEPT ![c] = None] /\ UNCHANGED events
    \/ CommittedRefs(c) # {} /\ Event /\ UNCHANGED <<released, inflight>>

\* One row of _drain_inflight_challenges: the resolve is answered, refused, already
\* done, or its answer is lost after it did or did not take effect.
DrainRow(c) ==
    \/ /\ svc[c] = "dispatched" /\ c \in mine
       /\ svc' = [svc EXCEPT ![c] = inflight[c].outcome]
       /\ ReleaseAndClear(c)
    \/ /\ svc[c] # "dispatched" /\ ReleaseAndClear(c) /\ UNCHANGED svc
    \/ /\ svc[c] = "dispatched" /\ c \notin mine
       /\ inflight' = [inflight EXCEPT ![c].parked = TRUE] /\ UNCHANGED <<svc, released, events>>
    \/ /\ Event
       /\ svc' \in {svc, [svc EXCEPT ![c] = IF @ = "dispatched" /\ c \in mine
                                            THEN inflight[c].outcome ELSE @]}
       /\ UNCHANGED <<inflight, released>>

\* Rows are taken in the order they were fetched; `todo' is the list read at the start.
Drain(next) ==
    /\ step.at = "drain" /\ step.next = next
    /\ IF step.todo = {}
       THEN /\ step' = IF next = "idle" THEN Idle ELSE [at |-> next]
            /\ UNCHANGED <<svc, inflight, released, events>>
       ELSE LET c == CHOOSE x \in step.todo : \A y \in step.todo : x <= y IN
            step' = [step EXCEPT !.todo = @ \ {c}] /\ DrainRow(c)
    /\ UNCHANGED <<chainVars, worker, mine, ledgerVars, dbpin, seal, proc, captured,
                   resets>>

StartDrain(next) == step' = [at |-> "drain", next |-> next, todo |-> Live]

\* sweep_orphaned_challenges: what the service lists as ours and this ledger, parked rows
\* included, does not know.
Orphans == {c \in DOMAIN svc : svc[c] = "dispatched" /\ c \in mine /\ ~Row(c)}

\* The startup pass.  It repeats while rows or orphans are left, until its time is up.
sweep_orphaned_challenges ==
    /\ step.at = "sweep"
    /\ \/ svc' = [c \in DOMAIN svc |-> IF c \in Orphans THEN "expired" ELSE svc[c]] /\ UNCHANGED events
       \/ Orphans # {} /\ Event /\ UNCHANGED svc
    /\ \/ step' = Idle
       \/ (Live # {} \/ Orphans # {}) /\ StartDrain("sweep")
    /\ UNCHANGED <<chainVars, worker, mine, ledgerVars, inflight, dbpin, seal, released, proc,
                   captured, resets>>

\* run: the pin is discovered, parked rows are returned if configured, recovery begins.
Boot ==
    /\ step.at = "boot"
    /\ \E seen \in {None, worker} :
          /\ proc' = discover_scorer_identity(proc, seen)
          /\ dbpin' = PinRow(proc')
    /\ \E unpark \in {{}, Parked} :
          /\ inflight' = [c \in DOMAIN inflight |-> IF c \in unpark
                                                   THEN [inflight[c] EXCEPT !.parked = FALSE]
                                                   ELSE inflight[c]]
          /\ step' = [at |-> "drain", next |-> "sweep", todo |-> Live \cup unpark]
    /\ UNCHANGED <<chainVars, worker, svcVars, ledgerVars, seal, released, captured,
                   resets, events>>

-----------------------------------------------------------------------------
\* A round.

\* planned_tracks: a stored track counts only under the same hotkey.
planned_tracks == {u \in Uids : miners[u].hk = holder[u] /\ miners[u].known}

\* run_round to begin_round.  Without a pin, or with a stale chain, the round is skipped.
run_round ==
    /\ step.at = "idle" /\ Len(rounds) < MaxRounds
    /\ \E seen \in {None, worker} :
       LET p == IF proc.verified THEN proc ELSE discover_scorer_identity(proc, seen) IN
       /\ proc' = p /\ dbpin' = PinRow(p)
       /\ IF scoring_pin(p) = None
          THEN UNCHANGED <<rounds, step>>
          ELSE /\ rounds' = Append(rounds, [block |-> head, commit |-> 0, ch |-> None, sealed |-> {}])
               /\ step' = [at |-> "probe", r |-> Len(rounds) + 1, block |-> head,
                           hks |-> holder, tracks |-> planned_tracks, probed |-> {},
                           ch |-> None, anchor |-> 0, out |-> <<>>, left |-> {},
                           scores |-> <<>>, avail |-> {}, packets |-> {}, dups |-> {},
                           skipped |-> {}]
    /\ UNCHANGED <<chainVars, worker, svcVars, miners, history, evidence, inflight, seal,
                   released, captured, resets, events>>

RoundStep == UNCHANGED <<chainVars, worker, mine, ledgerVars, dbpin, seal, released, proc,
                         captured, resets>>

\* _probe_warrant of every miner whose track is unknown; those that do not answer are
\* left out of the round.
_probe_warrant ==
    /\ step.at = "probe"
    /\ \E answered \in SUBSET (Uids \ step.tracks) :
          /\ WithFault(answered # Uids \ step.tracks)
          /\ step' = [step EXCEPT !.probed = answered, !.tracks = @ \cup answered,
                               !.at = IF step.tracks \cup answered = {} THEN "commit" ELSE "fetch"]
    /\ UNCHANGED <<svc, inflight>> /\ RoundStep

\* The challenge is fetched and recorded before any work, as expired until it is scored.
\* A request that fails here leaves the round without scores; the service may have
\* dispatched the challenge all the same.
_next_challenge ==
    /\ step.at = "fetch"
    /\ LET c == Len(svc) + 1 IN
       \/ /\ svc' = Append(svc, "dispatched") /\ mine' = mine \cup {c}
          /\ inflight' = Append(inflight, [outcome |-> "expired", parked |-> FALSE])
          /\ step' = [step EXCEPT !.at = "dispatch", !.ch = c, !.anchor = head]
          /\ UNCHANGED events
       \/ /\ svc' = Append(svc, "dispatched") /\ mine' = mine \cup {c} /\ Event
          /\ inflight' = Append(inflight, None) /\ step' = [step EXCEPT !.at = "commit"]
       \/ /\ Event /\ UNCHANGED <<svc, mine, inflight>> /\ step' = [step EXCEPT !.at = "commit"]
    /\ UNCHANGED <<chainVars, worker, ledgerVars, dbpin, seal, released, proc, captured,
                   resets>>

MutZeroesAnyway(s, U, signed) ==
    [s EXCEPT !.scores = [u \in (DOMAIN @) \cup U |-> IF u \in U THEN 0 ELSE @[u]],
              !.avail = @ \cup (U \cap signed)]
\* _availability_zero: a zero is folded only together with a signed observation.
_availability_zero(s, U, signed) ==
    [s EXCEPT !.scores = [u \in (DOMAIN @) \cup (U \cap signed) |->
                             IF u \in U \cap signed THEN 0 ELSE @[u]],
              !.avail = @ \cup (U \cap signed)]

\* What a miner's attempt comes to: an output, an output whose receipt is not bound to
\* the task, a fault of the miner, a fault of the validator.
Outcomes == {"out", "unbound", "fault", "system"}
Returned(out) == {u \in DOMAIN out : out[u] \in {"out", "unbound"}}

\* _dedup: of the outputs with the same bytes one is scored.
_dedup(same, winner) == {[loser |-> u, winner |-> winner] : u \in same \ {winner}}

\* _dispatch_all, _verify_digests and _dedup: faults become availability zeros, and of
\* the outputs with the same bytes the anchor's block hash picks the one to score.
_dispatch_all ==
    /\ step.at = "dispatch"
    /\ \E out \in [step.tracks -> Outcomes] :
       LET faults == {u \in step.tracks : out[u] = "fault"}
           copies == {S \in SUBSET Returned(out) : Cardinality(S) # 1} IN
       \E signed \in {faults, {}} :
       \E same \in copies : \E winner \in IF same = {} THEN Uids ELSE same :
          /\ WithFault(signed # faults \/ \E u \in step.tracks : out[u] \in {"system", "unbound"})
          /\ step' = [_availability_zero(step, faults, signed) EXCEPT
                      !.at = "score", !.out = out,
                      !.left = Returned(out) \ (same \ {winner}),
                      !.dups = _dedup(same, winner)]
    /\ UNCHANGED <<svc, inflight>> /\ RoundStep

MutIgnoresScorer(version) == FALSE
\* _binding_mismatch: the packet is another request's, or another scorer's.
_binding_mismatch(version) == scoring_pin(proc) # None /\ version # scoring_pin(proc)

Packet(u, score, kind) ==
    [r |-> step.r, uid |-> u, hk |-> step.hks[u], ch |-> step.ch, score |-> score,
     kind |-> kind, scorer |-> IF kind = "packet" THEN worker ELSE scoring_pin(proc),
     era |-> resets]

\* The client learns the worker's contract once.
_runtime_contract_for_score == IF proc.contract = None THEN worker ELSE proc.contract

\* A packet that was refused, or that could not be archived with its media, scores nothing;
\* when it was sound the archive is at fault.
Unarchived(s, sound) == step' = s /\ WithFault(sound)

\* _score_one: the client refuses a worker other than the one it learnt, the round
\* refuses one other than the pin, and nothing counts that was not archived.
_score_one(u) ==
    /\ step.at = "score" /\ u \in step.left
    /\ LET s == [step EXCEPT !.left = @ \ {u}]
           contract == _runtime_contract_for_score IN
       IF step.out[u] = "unbound"
       THEN step' = _availability_zero(s, {u}, {u}) /\ UNCHANGED <<proc, events>>
       ELSE /\ proc' = [proc EXCEPT !.contract = contract]
            /\ \/ Unarchived(s, contract = worker /\ ~_binding_mismatch(worker))
               \/ /\ contract = worker /\ ~_binding_mismatch(worker) /\ UNCHANGED events
                  /\ \E score \in {0, Full} :
                        step' = [s EXCEPT !.packets = @ \cup {Packet(u, score, "packet")}]
    /\ UNCHANGED <<chainVars, worker, svcVars, inflight, ledgerVars, dbpin, seal, released,
                   captured, resets>>

Positive(P) == {p \in P : p.score > 0}

\* _apply_source_proximity: a flagged output is zeroed with a witness packet, or left out
\* of the round when its evidence cannot be archived.
SourceProximity(P, flagged, archived) ==
    {p \in P : p.uid \notin flagged}
      \cup {[p EXCEPT !.score = 0, !.scorer = scoring_pin(proc)] :
               p \in {q \in P : q.uid \in flagged \cap archived}}

\* _apply_content_duplicates: the members of a component share one score, all or none.
ContentShares(P, comp, archived) ==
    {p \in P : p.uid \notin comp}
      \cup (IF comp \subseteq archived
            THEN {[p EXCEPT !.score = 1, !.kind = "share", !.scorer = scoring_pin(proc)] :
                     p \in {q \in P : q.uid \in comp}}
            ELSE {})

\* _attribute_duplicate needs the bound receipts of loser and winner, and the archive.
DuplicatePackets(dups, archived) ==
    {Packet(d.loser, 0, "dup") :
        d \in {x \in dups : {step.out[x.loser], step.out[x.winner]} = {"out"}
                            /\ x.loser \in archived}}

Scored(P) == [u \in {p.uid : p \in P} |-> (CHOOSE p \in P : p.uid = u).score]

\* The rest of _run_track once every output was scored, and its outcome.
FinishTrack ==
    /\ step.at = "score" /\ step.left = {}
    /\ \E flagged \in SUBSET {p.uid : p \in Positive(step.packets)}, archived \in SUBSET Uids :
       /\ WithFault(archived # Uids)
       /\ LET P1 == SourceProximity(step.packets, flagged, archived)
              alike == {p.uid : p \in Positive(P1)} IN
          \E comp \in {{}} \cup (IF Cardinality(alike) > 1 THEN {alike} ELSE {}) :
          LET P2 == ContentShares(P1, comp, archived)
              P3 == P2 \cup DuplicatePackets(step.dups, archived) IN
          step' = [step EXCEPT !.at = "commit", !.packets = P3, !.skipped = comp,
                               !.out = <<>>, !.dups = {},
                               !.scores = [u \in (DOMAIN @) \cup DOMAIN Scored(P3) |->
                                              IF u \in DOMAIN Scored(P3) THEN Scored(P3)[u] ELSE @[u]]]
    /\ inflight' = [inflight EXCEPT ![step.ch].outcome = "resolved"]
    /\ UNCHANGED svc /\ RoundStep

-----------------------------------------------------------------------------
\* commit_round: one transaction.

SetMax(S) == CHOOSE x \in S : \A y \in S : y <= x

MutIgnoresSeal(h) == h >= SetMax({step.block, step.anchor} \cup {rounds[r].commit : r \in DOMAIN rounds})
\* The completion height is a fresh head beyond the sealed close, and not below the round's
\* block, its challenge's anchor or the previous completion.
CommitAllowed(h) ==
    /\ h > seal
    /\ h >= SetMax({step.block, step.anchor} \cup {rounds[r].commit : r \in DOMAIN rounds})

\* sync_neurons and record_track: a new hotkey starts with no track and an empty score.
sync_neurons(u) ==
    LET row == IF miners[u].hk = step.hks[u] THEN miners[u] ELSE [NoRow EXCEPT !.hk = step.hks[u]]
    IN  [row EXCEPT !.known = @ \/ u \in step.probed]

\* accumulate.
Fold(row, u) ==
    IF u \in DOMAIN step.scores THEN [row EXCEPT !.acc = Append(@, step.scores[u])] ELSE row

AvailabilityObservation(u) == [Packet(u, 0, "avail") EXCEPT !.scorer = None]

commit_round ==
    /\ step.at = "commit"
    /\ CommitAllowed(head)
    /\ miners' = [u \in Uids |-> Fold(sync_neurons(u), u)]
    /\ evidence' = evidence \cup step.packets
                     \cup {AvailabilityObservation(u) : u \in step.avail}
    /\ history' = history \cup {[r |-> step.r, uid |-> u, hk |-> miners'[u].hk,
                                 known |-> miners'[u].known, acc |-> miners'[u].acc] : u \in Uids}
    /\ rounds' = [rounds EXCEPT ![step.r] = [@ EXCEPT !.commit = head, !.ch = step.ch,
                                                      !.sealed = step.skipped]]
    /\ StartDrain("idle")
    /\ UNCHANGED <<chainVars, worker, svcVars, inflight, dbpin, seal, released, proc, captured,
                   resets, events>>

\* An exception anywhere in the round: nothing is committed, the drain runs all the same
\* (during the probe or the dispatch it leaves what it leaves one step later).
RoundFails ==
    /\ step.at \in {"fetch", "score", "commit"}
    /\ Event /\ StartDrain("idle")
    /\ UNCHANGED <<svc, inflight>> /\ RoundStep

-----------------------------------------------------------------------------
\* The epoch authority: capture_epoch_inputs, one transaction on the same database.

LastClose == IF captured = <<>> THEN 0 ELSE captured[Len(captured)].close
InWindow(prior, close) == {r \in DOMAIN rounds : rounds[r].commit > prior /\ rounds[r].commit <= close}

\* snapshot_at: the last state row of a uid at the close, if it is still the same hotkey's.
snapshot_at(close) ==
    {h \in history : /\ rounds[h.r].commit <= close /\ h.known /\ h.hk = holder[h.uid]
                     /\ \A g \in history : g.uid = h.uid /\ rounds[g.r].commit <= close => g.r <= h.r}

capture_epoch_inputs(close) ==
    /\ step.at \in {"idle", "commit"}
    /\ close > LastClose /\ close >= seal /\ head >= close /\ head < close + AnchorWindow
    /\ captured' = Append(captured,
         [prior |-> LastClose, close |-> close, rounds |-> InWindow(LastClose, close),
          evidence |-> {e \in evidence : e.r \in InWindow(LastClose, close)},
          snapshot |-> snapshot_at(close)])
    /\ seal' = close
    /\ UNCHANGED <<chainVars, worker, svcVars, ledgerVars, inflight, dbpin, released, proc, step,
                   resets, events>>

-----------------------------------------------------------------------------
\* External: the chain, the worker, the service, and the process itself.

\* The head and the holders are read, and the authority's transaction matters, only
\* between rounds and around the fetch and the commit; elsewhere a change commutes with
\* the round's steps and is not enumerated.
ChainRead == step.at \in {"boot", "idle", "fetch", "commit"}

AdvanceHead ==
    /\ ChainRead /\ head < MaxHead /\ head' = head + 1
    /\ UNCHANGED <<holder, worker, svcVars, ledgerVars, inflight, dbpin, seal, released,
                   proc, step, captured, resets, events>>

\* A slot changes hands, and may come back to its former hotkey.
SwapHotkey(u) ==
    /\ ChainRead /\ Event /\ holder' = [holder EXCEPT ![u] = 1 - @]
    /\ UNCHANGED <<head, worker, svcVars, ledgerVars, inflight, dbpin, seal, released, proc, step,
                   captured, resets>>

ReplaceWorker ==
    /\ step.at \in {"boot", "idle", "score"} /\ Event /\ worker' = worker + 1
    /\ UNCHANGED <<chainVars, svcVars, ledgerVars, inflight, dbpin, seal, released, proc, step,
                   captured, resets>>

\* The service no longer accepts this validator as the owner of a challenge.
Disown(c) ==
    /\ c \in mine /\ svc[c] = "dispatched" /\ step.at = "drain" /\ Event /\ mine' = mine \ {c}
    /\ UNCHANGED <<chainVars, worker, svc, ledgerVars, inflight, dbpin, seal, released, proc, step,
                   captured, resets>>

\* The process dies and comes back; the operator may have asked for a new pin, and the row
\* may be unreadable at that moment.
Restart ==
    /\ Event
    /\ \/ dbpin' = None /\ resets' = resets + 1 /\ proc' = _load_scorer_pin(None)
       \/ /\ UNCHANGED <<dbpin, resets>>
          /\ \E row \in {dbpin, None} : proc' = _load_scorer_pin(row)
    /\ step' = [at |-> "boot"]
    /\ UNCHANGED <<chainVars, worker, svcVars, ledgerVars, inflight, seal, released, captured>>

Next ==
    \/ Boot \/ Drain("idle") \/ Drain("sweep") \/ sweep_orphaned_challenges
    \/ run_round \/ _probe_warrant \/ _next_challenge \/ _dispatch_all
    \/ (\E u \in Uids : _score_one(u)) \/ FinishTrack \/ commit_round \/ RoundFails
    \/ (\E close \in 1..MaxHead : capture_epoch_inputs(close))
    \/ AdvanceHead \/ (\E u \in Uids : SwapHotkey(u)) \/ ReplaceWorker
    \/ (\E c \in DOMAIN svc : Disown(c)) \/ Restart

Spec == Init /\ [][Next]_vars

-----------------------------------------------------------------------------

(***************************************************************************)
(* A captured window never gains a round: what the authority read for an   *)
(* epoch is all that ever commits inside it, so no round falls between two *)
(* epochs, whatever was in progress at the close (commit_round, seal).     *)
(***************************************************************************)
WindowsAreFrozen ==
    \A i \in DOMAIN captured :
       captured[i].rounds = InWindow(captured[i].prior, captured[i].close)

\* State row h folds, in round order, the scores that evidence set E shows for its uid and
\* hotkey since the slot last belonged to another hotkey.
FoldsExactly(h, E) ==
    LET since == {g.r : g \in {x \in history : x.uid = h.uid /\ x.hk # h.hk /\ x.r < h.r}}
        rows  == {e \in E : e.uid = h.uid /\ e.hk = h.hk /\ e.r <= h.r /\ \A q \in since : e.r > q}
    IN  /\ Len(h.acc) = Cardinality(rows)
        /\ \A e \in rows : LET i == Cardinality({f \in rows : f.r <= e.r})
                           IN  i \in DOMAIN h.acc /\ h.acc[i] = e.score

(***************************************************************************)
(* An accumulator is the fold of evidence on record for the present holder *)
(* of the slot, one row a round: no zero without an observation, nothing   *)
(* kept across a change of hotkey, and a captured snapshot folds nothing   *)
(* that the captured windows do not show.                                  *)
(***************************************************************************)
FoldMatchesEvidence ==
    /\ \A h \in history : FoldsExactly(h, evidence)
    /\ \A i \in DOMAIN captured : \A h \in captured[i].snapshot :
          FoldsExactly(h, UNION {captured[j].evidence : j \in 1..i})

(***************************************************************************)
(* Between two resets by the operator every measured packet carries one    *)
(* scorer identity, although the worker may be replaced at any moment, the *)
(* process restarts and the pin row may be unreadable (scorer_pin).        *)
(***************************************************************************)
OneScorer ==
    \A a, b \in {e \in evidence : e.kind # "avail"} : a.era = b.era => a.scorer = b.scorer

(***************************************************************************)
(* A holdout is released only when its challenge is over; a scored         *)
(* challenge ends as resolved and is never swept as an orphan; and its row *)
(* is forgotten only when it is over and its holdout was released.         *)
(***************************************************************************)
ChallengeSettled ==
    /\ \A c \in released : svc[c] # "dispatched"
    /\ \A r \in DOMAIN rounds :
          LET c == rounds[r].ch IN
          rounds[r].commit > 0 /\ c # None =>
             /\ svc[c] # "expired"
             /\ ~Row(c) => svc[c] = "resolved" /\ (CommittedRefs(c) # {} => c \in released)

(***************************************************************************)
(* The members of one content component all share, or none of them is paid *)
(* in that round: a failing archive never leaves one member with the whole *)
(* score beside another's share.                                           *)
(***************************************************************************)
ComponentsWhole ==
    \A e \in evidence : e.uid \in rounds[e.r].sealed =>
       /\ e.kind = "share"
       /\ \A u \in rounds[e.r].sealed :
             \E f \in evidence : f.r = e.r /\ f.uid = u /\ f.kind = "share"

(***************************************************************************)
(* Scores are accounted for: every accumulator by its evidence, and every  *)
(* shared score by all its members.                                        *)
(***************************************************************************)
ScoresAccounted == FoldMatchesEvidence /\ ComponentsWhole
=============================================================================
