-------------------------- MODULE InferenceRoundProofs --------------------------
(***************************************************************************)
(* Proofs about InferenceRound, for any slots and bounds.                  *)
(*                                                                         *)
(* Three independent arguments share one invariant.  Windows: a round that *)
(* has not committed is in no window, and it commits beyond the seal, at   *)
(* or below which every captured window closes.  The scorer: in a round    *)
(* the process has a pin, which is the pin row, and the row changes only   *)
(* with the operator's reset.  Challenges: the challenge of a round is     *)
(* dispatched, in the ledger and nobody else's until the round ends, and a *)
(* committed one leaves the ledger only as resolved.  The scores, at the   *)
(* end, build on all three.                                                *)
(***************************************************************************)
EXTENDS InferenceRound, SequenceTheorems, FiniteSetTheorems, WellFoundedInduction, TLAPS

IsSeq(s) == \E S : s \in Seq(S)

ProcRow == [pin : Nat \cup {None}, conflict : BOOLEAN, verified : BOOLEAN,
            contract : Nat \cup {None}]
RoundRow == [block : Nat, commit : Nat, ch : Nat \cup {None}, sealed : SUBSET Uids]
PacketFields == {"r", "uid", "hk", "ch", "score", "kind", "scorer", "era"}
RoundFields == {"at", "r", "block", "hks", "tracks", "probed", "ch", "anchor", "out", "left",
                "scores", "avail", "packets", "dups", "skipped"}

Shape ==
    /\ head \in Nat /\ worker \in Nat /\ resets \in Nat
    /\ svc \in Seq({"dispatched", "expired", "resolved"})
    /\ inflight \in Seq(InflightRow \cup {None}) /\ Len(inflight) = Len(svc)
    /\ rounds \in Seq(RoundRow)
    /\ proc \in ProcRow /\ dbpin \in Nat \cup {None}

(* Every captured window closes at or below the seal.                      *)
WindowsOK ==
    /\ seal \in Nat /\ IsSeq(captured)
    /\ \A i \in DOMAIN captured : /\ captured[i].prior \in Nat /\ captured[i].close \in Nat
                                  /\ captured[i].close <= seal
    /\ WindowsAreFrozen

(* The pin in use is the one of the row.                                   *)
PinOK == scoring_pin(proc) # None => dbpin = scoring_pin(proc)

(* What was measured since the last reset carries the pin.                 *)
EvidenceOK ==
    /\ \A e \in evidence : e.era \in Nat /\ e.era <= resets
    /\ \A e \in evidence : e.kind # "avail" /\ e.era = resets => dbpin # None /\ e.scorer = dbpin
    /\ OneScorer

(* A challenge that some round committed.                                  *)
Settling(c) ==
    /\ c \in DOMAIN svc /\ svc[c] # "expired"
    /\ Row(c) => inflight[c].outcome = "resolved"
    /\ ~Row(c) => svc[c] = "resolved" /\ (CommittedRefs(c) # {} => c \in released)

ChallengesOK ==
    /\ \A c \in released : c \in DOMAIN svc /\ svc[c] # "dispatched"
    /\ \A r \in DOMAIN rounds : rounds[r].ch # None => Settling(rounds[r].ch)

(* The locals of a round in progress.                                      *)
InRound == step.at \in {"probe", "fetch", "dispatch", "score", "commit"}

Pinned(p, c, pin) ==
    /\ DOMAIN p = PacketFields
    /\ p.uid \in Uids /\ p.ch = c /\ p.era = resets /\ p.scorer = pin
PacketOK(p) == Pinned(p, step.ch, scoring_pin(proc))

Pending(c) ==
    /\ c \in DOMAIN svc /\ svc[c] = "dispatched" /\ Row(c)
    /\ \A r \in DOMAIN rounds : rounds[r].ch # c

RoundOK ==
    InRound =>
        /\ DOMAIN step = RoundFields
        /\ step.r \in DOMAIN rounds /\ rounds[step.r].commit = 0 /\ rounds[step.r].ch = None
        /\ step.skipped \in SUBSET Uids /\ step.tracks \in SUBSET Uids
        /\ \A d \in step.dups : d.loser \in Uids
        /\ scoring_pin(proc) # None
        /\ \A p \in step.packets : PacketOK(p)
        /\ step.at \in {"probe", "fetch"} => step.ch = None /\ step.packets = {}
        /\ step.at \in {"dispatch", "score"} => Pending(step.ch)
        /\ step.at = "commit" => \/ step.ch = None
                                 \/ Pending(step.ch) /\ inflight[step.ch].outcome = "resolved"

(* A drain works on rows.                                                  *)
DrainOK ==
    step.at = "drain" => /\ DOMAIN step = {"at", "next", "todo"}
                         /\ \A c \in step.todo : Row(c)

IInv == /\ Shape /\ WindowsOK /\ PinOK /\ EvidenceOK /\ ChallengesOK /\ RoundOK /\ DrainOK

-----------------------------------------------------------------------------
(* Facts about the operators.                                              *)

(* A set of naturals has a least element.                                  *)
LEMMA NatMin ==
    ASSUME NEW S \in SUBSET Nat, S # {}
    PROVE  \E x \in S : \A y \in S : x <= y
  <1>1. PICK x \in S : \A y \in S : ~(<<y, x>> \in OpToRel(<, Nat))
    BY NatLessThanWellFounded, WFMin
  <1>2. \A y \in S : ~(y < x)
    BY <1>1 DEF OpToRel
  <1> QED
    BY <1>2

(* A sequence that grew by one element.                                    *)
LEMMA Grown ==
    ASSUME NEW S, NEW s \in Seq(S), NEW x \in S
    PROVE  /\ Append(s, x) \in Seq(S) /\ Len(Append(s, x)) = Len(s) + 1
           /\ DOMAIN s = 1..Len(s) /\ DOMAIN Append(s, x) = 1..(Len(s) + 1)
           /\ Len(s) \in Nat
           /\ \A i \in DOMAIN s : Append(s, x)[i] = s[i]
           /\ Append(s, x)[Len(s) + 1] = x
  BY AppendProperties, LenProperties

(* The same for a sequence of whatever it holds.                           *)
LEMMA GrownAny ==
    ASSUME NEW s, IsSeq(s), NEW x
    PROVE  /\ IsSeq(Append(s, x))
           /\ DOMAIN s = 1..Len(s) /\ DOMAIN Append(s, x) = 1..(Len(s) + 1)
           /\ Len(s) \in Nat
           /\ \A i \in DOMAIN s : Append(s, x)[i] = s[i]
           /\ Append(s, x)[Len(s) + 1] = x
  <1>1. PICK S : s \in Seq(S)
    BY DEF IsSeq
  <1> DEFINE T == S \cup {x}
  <1>2. s \in Seq(T) /\ x \in T
    BY <1>1
  <1> HIDE DEF T
  <1>3. IsSeq(Append(s, x))
    BY <1>2, Grown DEF IsSeq
  <1> QED
    BY <1>2, <1>3, Grown

(* The pin after a discovery is typed and agrees with the row, and a row   *)
(* that was written stays (discover_scorer_identity, record_scorer_pin).   *)
LEMMA Discovered ==
    ASSUME Shape, PinOK, NEW seen \in {None, worker},
           NEW p \in {proc, discover_scorer_identity(proc, seen)}
    PROVE  /\ p \in ProcRow
           /\ scoring_pin(p) # None => PinRow(p) = scoring_pin(p)
           /\ dbpin # None => PinRow(p) = dbpin
  <1> USE DEF ProcRow
  <1>1. proc \in ProcRow /\ seen \in Nat \cup {None}
    BY DEF Shape
  <1>2. dbpin # None => PinRow(p) = dbpin
    BY DEF PinRow
  <1>3. CASE p = proc
    BY <1>1, <1>2, <1>3 DEF PinOK, scoring_pin, PinRow
  <1>4. CASE p = discover_scorer_identity(proc, seen) /\ p # proc
    <2>1. ~proc.conflict /\ seen # None
      BY <1>4 DEF discover_scorer_identity
    <2>2. CASE proc.pin # None /\ proc.pin # seen
      <3>1. p = [proc EXCEPT !.conflict = TRUE, !.contract = seen]
        BY <1>4, <2>1, <2>2 DEF discover_scorer_identity
      <3>2. p \in ProcRow /\ p.conflict
        BY <1>1, <3>1
      <3> QED
        BY <3>2, <1>2 DEF scoring_pin
    <2>3. CASE ~(proc.pin # None /\ proc.pin # seen) /\ dbpin # None /\ dbpin # seen
      <3>1. p = [proc EXCEPT !.pin = seen, !.conflict = TRUE, !.contract = seen]
        BY <1>4, <2>1, <2>3 DEF discover_scorer_identity
      <3>2. p \in ProcRow /\ p.conflict
        BY <1>1, <3>1
      <3> QED
        BY <3>2, <1>2 DEF scoring_pin
    <2>4. CASE ~(proc.pin # None /\ proc.pin # seen) /\ ~(dbpin # None /\ dbpin # seen)
      <3>1. p = [pin |-> seen, conflict |-> FALSE, verified |-> TRUE, contract |-> seen]
        BY <1>4, <2>1, <2>4 DEF discover_scorer_identity
      <3>2. p \in ProcRow /\ p.verified /\ p.pin = seen /\ ~p.conflict
        BY <1>1, <3>1
      <3> QED
        BY <3>2, <1>2, <2>4 DEF scoring_pin, PinRow
    <2> QED
      BY <2>2, <2>3, <2>4
  <1> QED
    BY <1>3, <1>4

-----------------------------------------------------------------------------
(* Captured windows (capture_epoch_inputs, commit_round).                  *)

(* A step that moves no round into or out of a sealed window.              *)
LEMMA WindowsKept ==
    ASSUME WindowsOK, UNCHANGED <<captured, seal>>,
           \A p, c \in Nat : c <= seal => InWindow(p, c)' = InWindow(p, c)
    PROVE  WindowsOK'
  <1>1. ASSUME NEW i \in DOMAIN captured
        PROVE  captured[i].rounds = {r \in DOMAIN rounds' : /\ rounds'[r].commit > captured[i].prior
                                                           /\ rounds'[r].commit <= captured[i].close}
    <2>1. PICK p, c : p = captured[i].prior /\ c = captured[i].close
      OBVIOUS
    <2>2. p \in Nat /\ c \in Nat /\ c <= seal /\ captured[i].rounds = InWindow(p, c)
      BY <2>1 DEF WindowsOK, WindowsAreFrozen
    <2>3. captured[i].rounds = InWindow(p, c)'
      BY <2>2
    <2> QED
      BY <2>1, <2>3 DEF InWindow
  <1> QED
    BY <1>1 DEF WindowsOK, WindowsAreFrozen, InWindow

LEMMA WindowsStep ==
    ASSUME IInv, Next
    PROVE  WindowsOK'
  <1> USE DEF IInv
  <1>0. Shape /\ WindowsOK
    OBVIOUS
  <1>1. CASE UNCHANGED <<rounds, captured, seal>>
    <2>1. \A p, c \in Nat : InWindow(p, c)' = InWindow(p, c)
      BY <1>1 DEF InWindow
    <2> QED
      BY <1>1, <2>1, WindowsKept
  <1>2. CASE run_round
    <2>1. UNCHANGED <<captured, seal>>
      BY <1>2 DEF run_round
    <2>2. CASE UNCHANGED rounds
      BY <1>1, <2>1, <2>2
    <2>3. CASE ~UNCHANGED rounds
      <3> DEFINE row == [block |-> head, commit |-> 0, ch |-> None, sealed |-> {}]
      <3>1. rounds' = Append(rounds, row)
        BY <1>2, <2>3 DEF run_round
      <3>2. row \in RoundRow /\ row.commit = 0
        BY <1>0 DEF Shape, RoundRow
      <3> HIDE DEF row
      <3>3. /\ DOMAIN rounds' = 1..(Len(rounds) + 1) /\ DOMAIN rounds = 1..Len(rounds)
            /\ Len(rounds) \in Nat /\ rounds'[Len(rounds) + 1] = row
            /\ \A i \in DOMAIN rounds : rounds'[i] = rounds[i]
        BY <1>0, <3>1, <3>2, Grown DEF Shape
      <3>4. ASSUME NEW p \in Nat, NEW c \in Nat PROVE InWindow(p, c)' = InWindow(p, c)
        <4>1. \A r \in DOMAIN rounds' : r \in DOMAIN rounds \/ r = Len(rounds) + 1
          BY <3>3
        <4>2. \A r \in DOMAIN rounds : r \in DOMAIN rounds'
          BY <3>3
        <4>3. ~(rounds'[Len(rounds) + 1].commit > p)
          BY <3>3, <3>2
        <4> QED
          BY <3>3, <4>1, <4>2, <4>3 DEF InWindow
      <3> QED
        BY <1>0, <2>1, <3>4, WindowsKept
    <2> QED
      BY <2>2, <2>3
  <1>3. CASE commit_round
    <2>1. UNCHANGED <<captured, seal>> /\ head > seal /\ step.at = "commit"
      BY <1>3 DEF commit_round, CommitAllowed
    <2>2. step.r \in DOMAIN rounds /\ rounds[step.r].commit = 0
      BY <2>1 DEF RoundOK, InRound
    <2>3. /\ DOMAIN rounds' = DOMAIN rounds
          /\ \A r \in DOMAIN rounds : r # step.r => rounds'[r] = rounds[r]
          /\ rounds'[step.r] = [rounds[step.r] EXCEPT !.commit = head, !.ch = step.ch,
                                                      !.sealed = step.skipped]
      BY <1>3, <2>2 DEF commit_round
    <2>4. rounds'[step.r].commit = head
      <3>1. rounds[step.r] \in RoundRow
        BY <1>0, <2>2, ElementOfSeq, LenProperties DEF Shape
      <3> QED
        BY <2>3, <3>1 DEF RoundRow
    <2>5. ASSUME NEW p \in Nat, NEW c \in Nat, c <= seal PROVE InWindow(p, c)' = InWindow(p, c)
      <3>1. ~(rounds[step.r].commit > p) /\ ~(rounds'[step.r].commit <= c)
        BY <1>0, <2>1, <2>2, <2>4, <2>5 DEF Shape, WindowsOK
      <3> QED
        BY <2>3, <3>1 DEF InWindow
    <2> QED
      BY <1>0, <2>1, <2>5, WindowsKept
  <1>4. ASSUME NEW close \in 1..MaxHead, capture_epoch_inputs(close) PROVE WindowsOK'
    <2> DEFINE w == [prior |-> LastClose, close |-> close, rounds |-> InWindow(LastClose, close),
                     evidence |-> {e \in evidence : e.r \in InWindow(LastClose, close)},
                     snapshot |-> snapshot_at(close)]
    <2>1. /\ captured' = Append(captured, w) /\ seal' = close /\ rounds' = rounds
          /\ close >= seal /\ close \in Nat
      BY <1>4, InferenceAssumption DEF capture_epoch_inputs, ledgerVars
    <2>2. w.prior = LastClose /\ w.close = close /\ w.rounds = InWindow(LastClose, close)
      OBVIOUS
    <2> HIDE DEF w
    <2>3. IsSeq(captured)
      BY <1>0 DEF WindowsOK
    <2>4. /\ IsSeq(captured')
          /\ DOMAIN captured = 1..Len(captured) /\ DOMAIN captured' = 1..(Len(captured) + 1)
          /\ Len(captured) \in Nat
          /\ \A i \in DOMAIN captured : captured'[i] = captured[i]
          /\ captured'[Len(captured) + 1] = w
      BY <2>1, <2>3, GrownAny
    <2>5. LastClose \in Nat
      <3>1. CASE captured = <<>>
        BY <3>1 DEF LastClose
      <3>2. CASE captured # <<>>
        <4>1. PICK S : captured \in Seq(S)
          BY <2>3 DEF IsSeq
        <4>2. Len(captured) # 0
          BY <4>1, <3>2, EmptySeq
        <4>3. Len(captured) \in DOMAIN captured
          BY <2>4, <4>2
        <4> QED
          BY <1>0, <3>2, <4>3 DEF LastClose, WindowsOK
      <3> QED
        BY <3>1, <3>2
    <2>7. ASSUME NEW i \in DOMAIN captured'
          PROVE  /\ captured'[i].prior \in Nat /\ captured'[i].close \in Nat
                 /\ captured'[i].close <= seal'
                 /\ captured'[i].rounds = {r \in DOMAIN rounds' :
                                              /\ rounds'[r].commit > captured'[i].prior
                                              /\ rounds'[r].commit <= captured'[i].close}
      <3>1. CASE i \in DOMAIN captured
        <4>1. /\ captured[i].prior \in Nat /\ captured[i].close \in Nat
              /\ captured[i].close <= seal /\ seal \in Nat
              /\ captured[i].rounds = InWindow(captured[i].prior, captured[i].close)
          BY <1>0, <3>1 DEF WindowsOK, WindowsAreFrozen
        <4>2. captured[i].close <= seal'
          BY <4>1, <2>1
        <4> QED
          BY <4>1, <4>2, <2>1, <2>4, <3>1 DEF InWindow
      <3>2. CASE i \notin DOMAIN captured
        <4>1. i = Len(captured) + 1
          BY <2>4, <3>2
        <4>2. captured'[i] = w
          BY <4>1, <2>4
        <4> QED
          BY <4>2, <2>1, <2>2, <2>5 DEF InWindow
      <3> QED
        BY <3>1, <3>2
    <2>8. seal' \in Nat
      BY <2>1
    <2> QED
      BY <2>4, <2>7, <2>8 DEF WindowsOK, WindowsAreFrozen, InWindow
  <1>5. CASE Boot \/ Drain("idle") \/ Drain("sweep") \/ sweep_orphaned_challenges
    BY <1>1, <1>5 DEF Boot, Drain, sweep_orphaned_challenges, ledgerVars
  <1>6. CASE _probe_warrant \/ _next_challenge \/ _dispatch_all
    BY <1>1, <1>6 DEF _probe_warrant, _next_challenge, _dispatch_all, RoundStep, ledgerVars
  <1>7. CASE (\E u \in Uids : _score_one(u)) \/ FinishTrack \/ RoundFails
    BY <1>1, <1>7 DEF _score_one, FinishTrack, RoundFails, RoundStep, ledgerVars
  <1>8. CASE \/ AdvanceHead \/ (\E u \in Uids : SwapHotkey(u)) \/ ReplaceWorker
             \/ (\E c \in DOMAIN svc : Disown(c)) \/ Restart
    BY <1>1, <1>8 DEF AdvanceHead, SwapHotkey, ReplaceWorker, Disown, Restart, ledgerVars
  <1> QED
    BY <1>2, <1>3, <1>4, <1>5, <1>6, <1>7, <1>8 DEF Next

-----------------------------------------------------------------------------
(* The scorer pin (discover_scorer_identity, record_scorer_pin, and the    *)
(* reset at a restart).                                                    *)

(* The pin in use stays the one of the row, and only a reset changes a row *)
(* that was written.                                                       *)
LEMMA PinStep ==
    ASSUME IInv, Next
    PROVE  /\ proc' \in ProcRow /\ PinOK'
           /\ \/ resets' = resets /\ (dbpin # None => dbpin' = dbpin)
              \/ resets' = resets + 1 /\ evidence' = evidence
  <1>0. Shape /\ PinOK /\ proc \in ProcRow
    BY DEF IInv, Shape
  <1>1. CASE UNCHANGED <<proc, dbpin, resets>>
    BY <1>0, <1>1 DEF PinOK, scoring_pin
  <1>2. ASSUME NEW seen \in {None, worker}, resets' = resets,
               proc' \in {proc, discover_scorer_identity(proc, seen)}, dbpin' = PinRow(proc')
        PROVE  proc' \in ProcRow /\ PinOK' /\ resets' = resets /\ (dbpin # None => dbpin' = dbpin)
    <2>1. PICK p : p = proc'
      OBVIOUS
    <2>2. p \in {proc, discover_scorer_identity(proc, seen)} /\ dbpin' = PinRow(p)
      BY <1>2, <2>1
    <2>3. /\ p \in ProcRow /\ (scoring_pin(p) # None => PinRow(p) = scoring_pin(p))
          /\ (dbpin # None => PinRow(p) = dbpin)
      BY <1>0, <2>2, Discovered
    <2>4. scoring_pin(p) # None => dbpin' = scoring_pin(p)
      BY <2>2, <2>3
    <2>5. PinOK'
      BY <2>1, <2>4 DEF PinOK, scoring_pin
    <2> QED
      BY <1>2, <2>1, <2>2, <2>3, <2>5
  <1>3. CASE Boot
    <2>1. PICK seen \in {None, worker} :
             proc' = discover_scorer_identity(proc, seen) /\ dbpin' = PinRow(proc')
      BY <1>3 DEF Boot
    <2>2. resets' = resets
      BY <1>3 DEF Boot
    <2> QED
      BY <1>2, <2>1, <2>2
  <1>4. CASE run_round
    <2>1. PICK seen \in {None, worker} :
             LET p == IF proc.verified THEN proc ELSE discover_scorer_identity(proc, seen)
             IN  proc' = p /\ dbpin' = PinRow(p)
      BY <1>4 DEF run_round
    <2>2. proc' \in {proc, discover_scorer_identity(proc, seen)} /\ dbpin' = PinRow(proc')
      BY <2>1
    <2>3. resets' = resets
      BY <1>4 DEF run_round
    <2> QED
      BY <1>2, <2>2, <2>3
  <1>5. ASSUME NEW u \in Uids, _score_one(u)
        PROVE  proc' \in ProcRow /\ PinOK' /\ resets' = resets /\ dbpin' = dbpin
    <2>1. resets' = resets /\ dbpin' = dbpin
      BY <1>5 DEF _score_one
    <2>2. \/ proc' = proc
          \/ proc' = [proc EXCEPT !.contract = _runtime_contract_for_score]
      BY <1>5 DEF _score_one
    <2>3. _runtime_contract_for_score \in Nat \cup {None}
      BY <1>0 DEF _runtime_contract_for_score, Shape, ProcRow
    <2>4. proc' \in ProcRow /\ proc'.pin = proc.pin /\ proc'.conflict = proc.conflict
      BY <1>0, <2>2, <2>3 DEF ProcRow
    <2> QED
      BY <1>0, <2>1, <2>4 DEF PinOK, scoring_pin
  <1>6. CASE Restart
    <2>1. PICK row \in {dbpin, None} : proc' = _load_scorer_pin(row)
      BY <1>6 DEF Restart
    <2>2. \/ dbpin' = None /\ resets' = resets + 1 /\ proc' = _load_scorer_pin(None)
          \/ UNCHANGED <<dbpin, resets>>
      BY <1>6 DEF Restart
    <2>3. proc'.pin \in {dbpin', None} /\ evidence' = evidence
      BY <1>6 DEF Restart, _load_scorer_pin, ledgerVars
    <2>4. PinOK'
      BY <2>3, <2>1 DEF PinOK, scoring_pin, _load_scorer_pin
    <2>5. dbpin \in Nat \cup {None}
      BY DEF IInv, Shape
    <2>6. proc' \in ProcRow
      BY <2>1, <2>5 DEF _load_scorer_pin, ProcRow
    <2> QED
      BY <2>2, <2>3, <2>4, <2>6
  <1>7. CASE Drain("idle") \/ Drain("sweep") \/ sweep_orphaned_challenges
    BY <1>1, <1>7 DEF Drain, sweep_orphaned_challenges
  <1>8. CASE _probe_warrant \/ _next_challenge \/ _dispatch_all \/ FinishTrack \/ RoundFails
    BY <1>1, <1>8 DEF _probe_warrant, _next_challenge, _dispatch_all, FinishTrack, RoundFails,
                      RoundStep
  <1>9. CASE commit_round \/ (\E close \in 1..MaxHead : capture_epoch_inputs(close))
    BY <1>1, <1>9 DEF commit_round, capture_epoch_inputs
  <1>10. CASE \/ AdvanceHead \/ (\E u \in Uids : SwapHotkey(u)) \/ ReplaceWorker
              \/ (\E c \in DOMAIN svc : Disown(c))
    BY <1>1, <1>10 DEF AdvanceHead, SwapHotkey, ReplaceWorker, Disown
  <1> QED
    BY <1>3, <1>4, <1>5, <1>6, <1>7, <1>8, <1>9, <1>10 DEF Next

(* What a round adds to the evidence was measured under the pin.           *)
LEMMA EvidenceStep ==
    ASSUME IInv, Next
    PROVE  EvidenceOK'
  <1>0. Shape /\ EvidenceOK /\ resets \in Nat
    BY DEF IInv, Shape
  <1>1. \/ resets' = resets /\ (dbpin # None => dbpin' = dbpin)
        \/ resets' = resets + 1 /\ evidence' = evidence
    BY PinStep
  <1>2. CASE evidence' = evidence
    <2>1. OneScorer'
      BY <1>0, <1>2 DEF EvidenceOK, OneScorer
    <2>2. \A e \in evidence : e.era \in Nat /\ e.era <= resets'
      BY <1>0, <1>1 DEF EvidenceOK
    <2>3. ASSUME NEW e \in evidence, e.kind # "avail", e.era = resets'
          PROVE  dbpin' # None /\ e.scorer = dbpin'
      BY <1>0, <1>1, <2>3 DEF EvidenceOK
    <2> QED
      BY <1>2, <2>1, <2>2, <2>3 DEF EvidenceOK
  <1>3. CASE commit_round
    <2>1. /\ resets' = resets /\ dbpin' = dbpin /\ step.at = "commit"
          /\ evidence' = evidence \cup step.packets
                           \cup {AvailabilityObservation(u) : u \in step.avail}
      BY <1>3 DEF commit_round
    <2>2. /\ \A p \in step.packets : p.era = resets /\ p.scorer = scoring_pin(proc)
          /\ scoring_pin(proc) # None /\ dbpin = scoring_pin(proc)
      BY <2>1 DEF IInv, RoundOK, InRound, PacketOK, Pinned, PinOK
    <2>3. \A u \in step.avail : /\ AvailabilityObservation(u).kind = "avail"
                                /\ AvailabilityObservation(u).era = resets
      BY DEF AvailabilityObservation, Packet
    <2>4. ASSUME NEW e \in evidence'
          PROVE  /\ e.era \in Nat /\ e.era <= resets
                 /\ e \in evidence \/ e.kind = "avail" \/ (e.era = resets /\ e.scorer = dbpin)
      <3>1. CASE e \in evidence
        BY <1>0, <3>1 DEF EvidenceOK
      <3>2. CASE e \in step.packets
        BY <1>0, <2>2, <3>2
      <3>3. CASE e \in {AvailabilityObservation(u) : u \in step.avail}
        BY <1>0, <2>3, <3>3
      <3> QED
        BY <2>1, <2>4, <3>1, <3>2, <3>3
    <2>5. ASSUME NEW e \in evidence', e.kind # "avail", e.era = resets
          PROVE  dbpin # None /\ e.scorer = dbpin
      BY <1>0, <2>2, <2>4, <2>5 DEF EvidenceOK
    <2>6. ASSUME NEW a \in evidence', NEW b \in evidence', a.kind # "avail", b.kind # "avail",
                 a.era = b.era
          PROVE  a.scorer = b.scorer
      <3>1. CASE a.era = resets
        BY <3>1, <2>5, <2>6
      <3>2. CASE a.era # resets
        <4>1. a \in evidence /\ b \in evidence
          BY <3>2, <2>4, <2>6
        <4> QED
          BY <4>1, <1>0, <2>6 DEF EvidenceOK, OneScorer
      <3> QED
        BY <3>1, <3>2
    <2>7. OneScorer'
      BY <2>6 DEF OneScorer
    <2> QED
      BY <2>1, <2>4, <2>5, <2>7 DEF EvidenceOK
  <1>4. CASE Boot \/ Drain("idle") \/ Drain("sweep") \/ sweep_orphaned_challenges \/ run_round
    BY <1>2, <1>4 DEF Boot, Drain, sweep_orphaned_challenges, run_round, ledgerVars
  <1>5. CASE _probe_warrant \/ _next_challenge \/ _dispatch_all \/ FinishTrack \/ RoundFails
    BY <1>2, <1>5 DEF _probe_warrant, _next_challenge, _dispatch_all, FinishTrack, RoundFails,
                      RoundStep, ledgerVars
  <1>6. CASE \/ (\E u \in Uids : _score_one(u))
             \/ (\E close \in 1..MaxHead : capture_epoch_inputs(close))
    BY <1>2, <1>6 DEF _score_one, capture_epoch_inputs, ledgerVars
  <1>7. CASE \/ AdvanceHead \/ (\E u \in Uids : SwapHotkey(u)) \/ ReplaceWorker
             \/ (\E c \in DOMAIN svc : Disown(c)) \/ Restart
    BY <1>2, <1>7 DEF AdvanceHead, SwapHotkey, ReplaceWorker, Disown, Restart, ledgerVars
  <1> QED
    BY <1>3, <1>4, <1>5, <1>6, <1>7 DEF Next

-----------------------------------------------------------------------------
(* The in-flight ledger (_drain_inflight_challenges,                       *)
(* sweep_orphaned_challenges, _next_challenge, commit_round).              *)

Statuses == {"dispatched", "expired", "resolved"}

(* The part of Shape that is about challenges.                             *)
LedgerShape ==
    svc \in Seq(Statuses) /\ inflight \in Seq(InflightRow \cup {None}) /\ Len(inflight) = Len(svc)

(* The ledger and the service number the challenges alike.                 *)
LEMMA LedgerDomains ==
    ASSUME LedgerShape
    PROVE  /\ DOMAIN svc = DOMAIN inflight /\ DOMAIN svc = 1..Len(svc) /\ Len(svc) \in Nat
           /\ \A c \in DOMAIN svc : svc[c] \in Statuses
           /\ \A c \in DOMAIN inflight : inflight[c] # None => inflight[c] \in InflightRow
           /\ None \notin DOMAIN svc
  <1>1. /\ DOMAIN svc = 1..Len(svc) /\ DOMAIN inflight = 1..Len(inflight)
        /\ Len(svc) \in Nat /\ Len(inflight) = Len(svc)
    BY LenProperties DEF LedgerShape
  <1>2. \A c \in DOMAIN svc : svc[c] \in Statuses
    BY <1>1, ElementOfSeq DEF LedgerShape
  <1>3. \A c \in DOMAIN inflight : inflight[c] \in InflightRow \cup {None}
    BY <1>1, ElementOfSeq DEF LedgerShape
  <1> QED
    BY <1>1, <1>2, <1>3, InferenceAssumption

(* One entry of a sequence is replaced.                                    *)
LEMMA Edited ==
    ASSUME NEW S, NEW s \in Seq(S), NEW i \in DOMAIN s, NEW x \in S
    PROVE  /\ [s EXCEPT ![i] = x] \in Seq(S) /\ Len([s EXCEPT ![i] = x]) = Len(s)
           /\ DOMAIN [s EXCEPT ![i] = x] = DOMAIN s
           /\ [s EXCEPT ![i] = x][i] = x
           /\ \A j \in DOMAIN s : j # i => [s EXCEPT ![i] = x][j] = s[j]
  <1>1. i \in 1..Len(s)
    BY LenProperties
  <1>2. [s EXCEPT ![i] = x] \in Seq(S) /\ Len([s EXCEPT ![i] = x]) = Len(s)
    BY <1>1, ExceptSeq
  <1> QED
    BY <1>2

(* What an attempt on row c does to the service, the ledger and the        *)
(* holdouts.                                                               *)
LEMMA DrainRowEffect ==
    ASSUME LedgerShape, NEW c, Row(c), DrainRow(c)
    PROVE  /\ LedgerShape' /\ DOMAIN svc' = DOMAIN svc /\ DOMAIN inflight' = DOMAIN inflight
           /\ \A d \in DOMAIN svc : d # c => svc'[d] = svc[d] /\ inflight'[d] = inflight[d]
           /\ svc'[c] = svc[c] \/ (svc[c] = "dispatched" /\ svc'[c] = inflight[c].outcome)
           /\ inflight'[c] # None => inflight'[c].outcome = inflight[c].outcome
           /\ inflight'[c] = None => /\ svc'[c] # "dispatched"
                                     /\ CommittedRefs(c) # {} => c \in released'
           /\ \/ released' = released
              \/ released' = released \cup {c} /\ svc'[c] # "dispatched"
  <1>1. /\ DOMAIN svc = DOMAIN inflight /\ c \in DOMAIN svc /\ c \in DOMAIN inflight
        /\ svc[c] \in Statuses /\ inflight[c] \in InflightRow
    BY LedgerDomains DEF Row
  <1>2. inflight[c].outcome \in {"expired", "resolved"}
    BY <1>1 DEF InflightRow
  <1>3. \/ svc' = svc
        \/ svc[c] = "dispatched" /\ svc' = [svc EXCEPT ![c] = inflight[c].outcome]
    <2>1. CASE svc' = [svc EXCEPT ![c] = IF @ = "dispatched" /\ c \in mine
                                         THEN inflight[c].outcome ELSE @]
      <3>1. CASE svc[c] = "dispatched" /\ c \in mine
        BY <2>1, <3>1
      <3>2. CASE ~(svc[c] = "dispatched" /\ c \in mine)
        <4>1. svc' = [svc EXCEPT ![c] = svc[c]]
          BY <2>1, <3>2
        <4>2. svc = [i \in DOMAIN svc |-> svc[i]]
          BY LenProperties DEF LedgerShape
        <4> QED
          BY <4>1, <4>2
      <3> QED
        BY <3>1, <3>2
    <2> QED
      BY <2>1 DEF DrainRow
  <1>4. /\ svc' \in Seq(Statuses) /\ Len(svc') = Len(svc) /\ DOMAIN svc' = DOMAIN svc
        /\ svc'[c] = svc[c] \/ (svc[c] = "dispatched" /\ svc'[c] = inflight[c].outcome)
        /\ \A d \in DOMAIN svc : d # c => svc'[d] = svc[d]
    <2>1. inflight[c].outcome \in Statuses /\ svc \in Seq(Statuses)
      BY <1>2 DEF Statuses, LedgerShape
    <2>2. PICK x : x = inflight[c].outcome
      OBVIOUS
    <2> QED
      BY <1>1, <1>3, <2>1, <2>2, Edited
  <1>5. \/ inflight' = inflight
        \/ /\ inflight' = [inflight EXCEPT ![c] = None]
           /\ svc'[c] # "dispatched"
           /\ released' = IF CommittedRefs(c) = {} THEN released ELSE released \cup {c}
        \/ /\ inflight' = [inflight EXCEPT ![c].parked = TRUE] /\ released' = released
    <2>1. CASE svc[c] = "dispatched" /\ svc' = [svc EXCEPT ![c] = inflight[c].outcome]
                 /\ ReleaseAndClear(c)
      BY <1>1, <1>2, <2>1 DEF ReleaseAndClear
    <2>2. CASE svc[c] # "dispatched" /\ ReleaseAndClear(c) /\ svc' = svc
      BY <2>2 DEF ReleaseAndClear
    <2> QED
      BY <2>1, <2>2 DEF DrainRow
  <1>6. \/ released' = released
        \/ released' = released \cup {c} /\ svc'[c] # "dispatched"
    <2>1. CASE svc[c] = "dispatched" /\ svc' = [svc EXCEPT ![c] = inflight[c].outcome]
                 /\ ReleaseAndClear(c)
      BY <1>1, <1>2, <2>1 DEF ReleaseAndClear
    <2>2. CASE svc[c] # "dispatched" /\ ReleaseAndClear(c) /\ svc' = svc
      BY <2>2 DEF ReleaseAndClear
    <2> QED
      BY <2>1, <2>2 DEF DrainRow
  <1>7. PICK x \in InflightRow \cup {None} :
           /\ inflight' = [inflight EXCEPT ![c] = x]
           /\ x # None => x.outcome = inflight[c].outcome
           /\ x = None => svc'[c] # "dispatched" /\ (CommittedRefs(c) # {} => c \in released')
    <2>1. None \notin InflightRow
      BY InferenceAssumption
    <2>2. CASE inflight' = inflight
      <3>1. inflight = [i \in DOMAIN inflight |-> inflight[i]]
        BY LenProperties DEF LedgerShape
      <3>2. inflight' = [inflight EXCEPT ![c] = inflight[c]]
        BY <2>2, <3>1
      <3> QED
        BY <1>1, <2>1, <3>2
    <2>3. CASE /\ inflight' = [inflight EXCEPT ![c] = None] /\ svc'[c] # "dispatched"
               /\ released' = IF CommittedRefs(c) = {} THEN released ELSE released \cup {c}
      BY <2>3
    <2>4. CASE inflight' = [inflight EXCEPT ![c].parked = TRUE]
      <3>1. PICK x : x = [inflight[c] EXCEPT !.parked = TRUE]
        OBVIOUS
      <3>2. x \in InflightRow /\ x.outcome = inflight[c].outcome
        BY <1>1, <3>1 DEF InflightRow
      <3>3. inflight' = [inflight EXCEPT ![c] = x]
        BY <2>4, <3>1
      <3> QED
        BY <2>1, <3>2, <3>3
    <2> QED
      BY <1>5, <2>2, <2>3, <2>4
  <1>8. /\ inflight' \in Seq(InflightRow \cup {None}) /\ Len(inflight') = Len(inflight)
        /\ DOMAIN inflight' = DOMAIN inflight /\ inflight'[c] = x
        /\ \A d \in DOMAIN inflight : d # c => inflight'[d] = inflight[d]
    <2>1. inflight \in Seq(InflightRow \cup {None})
      BY DEF LedgerShape
    <2> QED
      BY <1>1, <1>7, <2>1, Edited
  <1>9. LedgerShape'
    BY <1>4, <1>8 DEF LedgerShape
  <1> QED
    BY <1>1, <1>4, <1>6, <1>7, <1>8, <1>9

(* Which leaves every committed challenge settling.                        *)
LEMMA DrainRowSettles ==
    ASSUME LedgerShape, ChallengesOK, NEW c, Row(c), DrainRow(c), UNCHANGED <<rounds, evidence>>
    PROVE  ChallengesOK'
  <1>1. /\ DOMAIN svc' = DOMAIN svc /\ DOMAIN inflight' = DOMAIN inflight
        /\ \A d \in DOMAIN svc : d # c => svc'[d] = svc[d] /\ inflight'[d] = inflight[d]
        /\ svc'[c] = svc[c] \/ (svc[c] = "dispatched" /\ svc'[c] = inflight[c].outcome)
        /\ inflight'[c] # None => inflight'[c].outcome = inflight[c].outcome
        /\ inflight'[c] = None => /\ svc'[c] # "dispatched"
                                  /\ CommittedRefs(c) # {} => c \in released'
        /\ \/ released' = released
           \/ released' = released \cup {c} /\ svc'[c] # "dispatched"
    BY DrainRowEffect
  <1>2. /\ DOMAIN svc = DOMAIN inflight /\ c \in DOMAIN svc /\ c \in DOMAIN inflight
        /\ svc[c] \in Statuses /\ inflight[c] \in InflightRow
    BY LedgerDomains DEF Row
  <1>3. inflight[c].outcome \in {"expired", "resolved"}
    BY <1>2 DEF InflightRow
  <1>4. \A d \in released' : d \in DOMAIN svc' /\ svc'[d] # "dispatched"
    BY <1>1, <1>2, <1>3 DEF ChallengesOK
  <1>5. \A d : CommittedRefs(d)' = CommittedRefs(d)
    BY DEF CommittedRefs
  <1>6. ASSUME NEW d, Settling(d) PROVE Settling(d)'
    <2>1. CASE d # c
      BY <1>1, <1>2, <1>5, <1>6, <2>1 DEF Settling, Row
    <2>2. CASE d = c
      <3>1. svc[c] # "expired" /\ inflight[c].outcome = "resolved"
        BY <1>6, <2>2 DEF Settling
      <3>2. svc'[c] # "expired"
        BY <1>1, <3>1
      <3>3. svc'[c] # "dispatched" => svc'[c] = "resolved"
        BY <1>1, <1>2, <3>1 DEF Statuses
      <3>4. Row(c)' = (inflight'[c] # None)
        BY <1>1, <1>2 DEF Row
      <3> QED
        BY <1>1, <1>2, <1>5, <2>2, <3>1, <3>2, <3>3, <3>4 DEF Settling
    <2> QED
      BY <2>1, <2>2
  <1> QED
    BY <1>4, <1>6 DEF ChallengesOK

(* A drain with rows left takes one of them, which is still in the ledger. *)
LEMMA DrainTakes ==
    ASSUME IInv, NEW next, Drain(next), step.todo # {}
    PROVE  \E c \in step.todo : /\ Row(c) /\ DrainRow(c)
                                /\ step' = [step EXCEPT !.todo = step.todo \ {c}]
  <1>1. LedgerShape /\ step.at = "drain"
    BY DEF IInv, Shape, LedgerShape, Statuses, Drain
  <1>2. \A c \in step.todo : Row(c)
    BY <1>1 DEF IInv, DrainOK
  <1>3. step.todo \in SUBSET Nat
    BY <1>1, <1>2, LedgerDomains DEF Row
  <1> DEFINE c == CHOOSE x \in step.todo : \A y \in step.todo : x <= y
  <1>4. c \in step.todo
    BY <1>3, NatMin
  <1>5. step' = [step EXCEPT !.todo = @ \ {c}] /\ DrainRow(c)
    BY DEF Drain
  <1> HIDE DEF c
  <1> QED
    BY <1>2, <1>4, <1>5

(* A step that leaves a settling challenge alone.                          *)
LEMMA SettlingKept ==
    ASSUME NEW c, Settling(c), c \in DOMAIN svc', svc'[c] = svc[c], Row(c)' = Row(c),
           Row(c) => inflight'[c].outcome = inflight[c].outcome,
           CommittedRefs(c)' = CommittedRefs(c), released' = released
    PROVE  Settling(c)'
  BY DEF Settling

(* The challenge of a round in progress becomes a committed one.           *)
LEMMA CommitSettles ==
    ASSUME IInv, commit_round
    PROVE  LedgerShape' /\ ChallengesOK'
  <1>1. /\ step.at = "commit" /\ UNCHANGED <<svc, mine, inflight, released>>
        /\ evidence' = evidence \cup step.packets
                         \cup {AvailabilityObservation(u) : u \in step.avail}
        /\ rounds' = [rounds EXCEPT ![step.r] = [@ EXCEPT !.commit = head, !.ch = step.ch,
                                                          !.sealed = step.skipped]]
    BY DEF commit_round, svcVars
  <1>2. /\ LedgerShape /\ LedgerShape' /\ ChallengesOK
    BY <1>1 DEF IInv, Shape, LedgerShape, Statuses
  <1>3. /\ step.r \in DOMAIN rounds /\ rounds[step.r].ch = None
        /\ \A p \in step.packets : p.ch = step.ch
        /\ \/ step.ch = None
           \/ Pending(step.ch) /\ inflight[step.ch].outcome = "resolved"
    BY <1>1 DEF IInv, RoundOK, InRound, PacketOK, Pinned
  <1>4. /\ DOMAIN rounds' = DOMAIN rounds /\ rounds'[step.r].ch = step.ch
        /\ \A r \in DOMAIN rounds : r # step.r => rounds'[r] = rounds[r]
    <2>1. rounds[step.r] \in RoundRow
      BY <1>3, ElementOfSeq, LenProperties DEF IInv, Shape
    <2> QED
      BY <1>1, <1>3, <2>1 DEF RoundRow
  <1>5. \A u \in step.avail : AvailabilityObservation(u).kind = "avail"
    BY DEF AvailabilityObservation, Packet
  <1>6. ASSUME NEW c, c # step.ch PROVE CommittedRefs(c)' = CommittedRefs(c)
    BY <1>1, <1>3, <1>5, <1>6 DEF CommittedRefs
  <1>7. \A c \in released' : c \in DOMAIN svc' /\ svc'[c] # "dispatched"
    BY <1>1, <1>2 DEF ChallengesOK
  <1>8. ASSUME NEW r \in DOMAIN rounds', rounds'[r].ch # None
        PROVE  Settling(rounds[r].ch)' \/ r = step.r
    <2>1. CASE r # step.r
      <3>1. PICK c : c = rounds[r].ch
        OBVIOUS
      <3>2. c # None /\ Settling(c)
        BY <1>2, <1>4, <1>8, <2>1, <3>1 DEF ChallengesOK
      <3>3. c # step.ch
        BY <1>3, <1>4, <1>8, <3>1, <3>2 DEF Pending
      <3>4. CommittedRefs(c)' = CommittedRefs(c)
        BY <1>6, <3>3
      <3>5. c \in DOMAIN svc' /\ svc'[c] = svc[c] /\ Row(c)' = Row(c)
        BY <1>1, <3>2 DEF Settling, Row
      <3>6. Settling(c)'
        BY <1>1, <3>2, <3>4, <3>5, SettlingKept
      <3>7. c = rounds'[r].ch
        BY <1>4, <1>8, <2>1, <3>1
      <3> QED
        BY <3>6, <3>7
    <2> QED
      BY <2>1
  <1>9. ASSUME step.ch # None, NEW c, c = step.ch PROVE Settling(c)'
    BY <1>1, <1>3, <1>9 DEF Settling, Pending, Row
  <1> QED
    BY <1>2, <1>4, <1>7, <1>8, <1>9 DEF ChallengesOK

(* Whatever the step, the ledger and the service stay in agreement and     *)
(* every committed challenge stays on its way to being resolved.           *)
LEMMA LedgerStep ==
    ASSUME IInv, Next
    PROVE  LedgerShape' /\ ChallengesOK'
  <1>0. LedgerShape /\ ChallengesOK
    BY DEF IInv, Shape, LedgerShape, Statuses
  <1>1. CASE UNCHANGED <<svc, inflight, released, rounds, evidence>>
    BY <1>0, <1>1 DEF LedgerShape, ChallengesOK, Settling, Row, CommittedRefs
  <1>2. /\ DOMAIN svc = DOMAIN inflight /\ DOMAIN svc = 1..Len(svc) /\ Len(svc) \in Nat
        /\ \A c \in DOMAIN svc : svc[c] \in Statuses
        /\ \A c \in DOMAIN inflight : inflight[c] # None => inflight[c] \in InflightRow
        /\ None \notin DOMAIN svc
    BY <1>0, LedgerDomains
  <1>3. None \notin InflightRow
    BY InferenceAssumption
  <1>5. CASE Boot
    <2>1. UNCHANGED <<svc, released, rounds, evidence>>
      BY <1>5 DEF Boot, svcVars, ledgerVars
    <2>2. PICK unpark \in {{}, Parked} :
             inflight' = [c \in DOMAIN inflight |-> IF c \in unpark
                                                   THEN [inflight[c] EXCEPT !.parked = FALSE]
                                                   ELSE inflight[c]]
      BY <1>5 DEF Boot
    <2>3. \A c \in unpark : c \in DOMAIN inflight /\ inflight[c] # None
      BY <2>2 DEF Parked
    <2>4. ASSUME NEW c \in DOMAIN inflight
          PROVE  /\ inflight'[c] \in InflightRow \cup {None}
                 /\ (inflight'[c] # None) = (inflight[c] # None)
                 /\ inflight[c] # None => inflight'[c].outcome = inflight[c].outcome
      <3>1. CASE c \in unpark
        <4>1. inflight'[c] = [inflight[c] EXCEPT !.parked = FALSE] /\ inflight[c] \in InflightRow
          BY <1>2, <2>2, <2>3, <3>1
        <4>2. inflight'[c] \in InflightRow /\ inflight'[c].outcome = inflight[c].outcome
          BY <4>1 DEF InflightRow
        <4> QED
          BY <4>1, <4>2, <1>3
      <3>2. CASE c \notin unpark
        <4>1. inflight'[c] = inflight[c]
          BY <2>2, <3>2
        <4> QED
          BY <4>1, <1>2
      <3> QED
        BY <3>1, <3>2
    <2>5. DOMAIN inflight' = 1..Len(svc)
      BY <1>2, <2>2
    <2>6. inflight' \in [1..Len(svc) -> InflightRow \cup {None}]
      BY <1>2, <2>2, <2>4, <2>5
    <2>7. inflight' \in Seq(InflightRow \cup {None}) /\ Len(inflight') = Len(svc)
      BY <1>2, <2>6
    <2>8. LedgerShape'
      BY <1>0, <2>1, <2>7 DEF LedgerShape
    <2>9. ASSUME NEW c, Settling(c) PROVE Settling(c)'
      BY <1>2, <2>1, <2>4, <2>5, <2>9 DEF Settling, Row, CommittedRefs
    <2> QED
      BY <1>0, <2>1, <2>8, <2>9 DEF ChallengesOK
  <1>6. ASSUME NEW next, Drain(next) PROVE LedgerShape' /\ ChallengesOK'
    <2>1. UNCHANGED <<rounds, evidence>>
      BY <1>6 DEF Drain, ledgerVars
    <2>2. CASE step.todo = {}
      BY <1>1, <1>6, <2>1, <2>2 DEF Drain
    <2>3. CASE step.todo # {}
      <3>1. PICK c \in step.todo : Row(c) /\ DrainRow(c)
        BY <1>6, <2>3, DrainTakes
      <3>2. LedgerShape'
        BY <1>0, <3>1, DrainRowEffect
      <3>3. ChallengesOK'
        BY <1>0, <2>1, <3>1, DrainRowSettles
      <3> QED
        BY <3>2, <3>3
    <2> QED
      BY <2>2, <2>3
  <1>7. CASE sweep_orphaned_challenges
    <2>1. UNCHANGED <<inflight, released, rounds, evidence>>
      BY <1>7 DEF sweep_orphaned_challenges, ledgerVars
    <2>2. CASE UNCHANGED svc
      BY <1>1, <2>1, <2>2
    <2>3. CASE svc' = [c \in DOMAIN svc |-> IF c \in Orphans THEN "expired" ELSE svc[c]]
      <3>1. svc' \in [1..Len(svc) -> Statuses]
        BY <1>2, <2>3 DEF Statuses
      <3>2. svc' \in Seq(Statuses) /\ Len(svc') = Len(svc) /\ DOMAIN svc' = DOMAIN svc
        BY <1>2, <3>1
      <3>3. LedgerShape'
        BY <1>0, <2>1, <3>2 DEF LedgerShape
      <3>4. \A c \in Orphans : svc[c] = "dispatched" /\ ~Row(c)
        BY DEF Orphans
      <3>5. \A c \in released' : c \in DOMAIN svc' /\ svc'[c] # "dispatched"
        BY <1>0, <2>1, <2>3, <3>2 DEF ChallengesOK
      <3>6. ASSUME NEW c, Settling(c) PROVE Settling(c)'
        <4>1. c \in DOMAIN svc /\ c \notin Orphans
          BY <3>4, <3>6 DEF Settling
        <4>2. svc'[c] = svc[c]
          BY <2>3, <4>1
        <4> QED
          BY <2>1, <3>2, <3>6, <4>1, <4>2 DEF Settling, Row, CommittedRefs
      <3> QED
        BY <1>0, <2>1, <3>3, <3>5, <3>6 DEF ChallengesOK
    <2> QED
      BY <1>7, <2>2, <2>3 DEF sweep_orphaned_challenges
  <1>8. CASE run_round
    <2>1. UNCHANGED <<svc, inflight, released, evidence>>
      BY <1>8 DEF run_round, svcVars
    <2>2. CASE UNCHANGED rounds
      BY <1>1, <2>1, <2>2
    <2>3. CASE ~UNCHANGED rounds
      <3> DEFINE row == [block |-> head, commit |-> 0, ch |-> None, sealed |-> {}]
      <3>1. rounds' = Append(rounds, row)
        BY <1>8, <2>3 DEF run_round
      <3>2. row \in RoundRow /\ row.ch = None /\ rounds \in Seq(RoundRow)
        BY DEF IInv, Shape, RoundRow
      <3> HIDE DEF row
      <3>3. /\ DOMAIN rounds' = 1..(Len(rounds) + 1) /\ DOMAIN rounds = 1..Len(rounds)
            /\ Len(rounds) \in Nat /\ rounds'[Len(rounds) + 1] = row
            /\ \A i \in DOMAIN rounds : rounds'[i] = rounds[i]
        BY <3>1, <3>2, Grown
      <3>4. \A r \in DOMAIN rounds' : rounds'[r].ch # None => r \in DOMAIN rounds
        BY <3>2, <3>3
      <3>5. \A c : Settling(c) => Settling(c)'
        BY <2>1 DEF Settling, Row, CommittedRefs
      <3>6. LedgerShape'
        BY <1>0, <2>1 DEF LedgerShape
      <3> QED
        BY <1>0, <2>1, <3>3, <3>4, <3>5, <3>6 DEF ChallengesOK
    <2> QED
      BY <2>2, <2>3
  <1>9. CASE _next_challenge
    <2>1. UNCHANGED <<released, rounds, evidence>>
      BY <1>9 DEF _next_challenge, ledgerVars
    <2>2. CASE UNCHANGED <<svc, inflight>>
      BY <1>1, <2>1, <2>2
    <2>3. ASSUME NEW row \in InflightRow \cup {None},
                 svc' = Append(svc, "dispatched"), inflight' = Append(inflight, row)
          PROVE  LedgerShape' /\ ChallengesOK'
      <3>1. /\ svc' \in Seq(Statuses) /\ Len(svc') = Len(svc) + 1
            /\ DOMAIN svc' = 1..(Len(svc) + 1) /\ \A c \in DOMAIN svc : svc'[c] = svc[c]
        <4>1. "dispatched" \in Statuses /\ svc \in Seq(Statuses)
          BY <1>0 DEF Statuses, LedgerShape
        <4> QED
          BY <4>1, <2>3, Grown
      <3>2. /\ inflight' \in Seq(InflightRow \cup {None}) /\ Len(inflight') = Len(inflight) + 1
            /\ DOMAIN inflight' = 1..(Len(inflight) + 1)
            /\ \A c \in DOMAIN inflight : inflight'[c] = inflight[c]
        <4>1. inflight \in Seq(InflightRow \cup {None})
          BY <1>0 DEF LedgerShape
        <4> QED
          BY <4>1, <2>3, Grown
      <3>3. LedgerShape'
        BY <1>0, <3>1, <3>2 DEF LedgerShape
      <3>4. Len(inflight) = Len(svc)
        BY <1>0 DEF LedgerShape
      <3>5. DOMAIN svc \subseteq DOMAIN svc' /\ DOMAIN inflight \subseteq DOMAIN inflight'
        BY <1>2, <3>1, <3>2, <3>4
      <3>6. \A c \in released' : c \in DOMAIN svc' /\ svc'[c] # "dispatched"
        BY <1>0, <2>1, <3>1, <3>5 DEF ChallengesOK
      <3>7. ASSUME NEW c, Settling(c) PROVE Settling(c)'
        <4>1. c \in DOMAIN svc /\ c \in DOMAIN inflight
          BY <1>2, <3>7 DEF Settling
        <4> QED
          BY <2>1, <3>1, <3>2, <3>5, <3>7, <4>1 DEF Settling, Row, CommittedRefs
      <3> QED
        BY <1>0, <2>1, <3>3, <3>6, <3>7 DEF ChallengesOK
    <2>4. [outcome |-> "expired", parked |-> FALSE] \in InflightRow
      BY DEF InflightRow
    <2> QED
      BY <1>9, <2>2, <2>3, <2>4 DEF _next_challenge
  <1>10. CASE FinishTrack
    <2>1. /\ UNCHANGED <<svc, released, rounds, evidence>> /\ step.at = "score"
          /\ inflight' = [inflight EXCEPT ![step.ch].outcome = "resolved"]
      BY <1>10 DEF FinishTrack, RoundStep, ledgerVars
    <2>2. Pending(step.ch)
      BY <2>1 DEF IInv, RoundOK, InRound
    <2>3. step.ch \in DOMAIN inflight /\ inflight[step.ch] \in InflightRow
      BY <1>2, <2>2 DEF Pending, Row
    <2>4. PICK x : x = [inflight[step.ch] EXCEPT !.outcome = "resolved"]
      OBVIOUS
    <2>5. x \in InflightRow
      BY <2>3, <2>4 DEF InflightRow
    <2>6. inflight' = [inflight EXCEPT ![step.ch] = x]
      BY <2>1, <2>4
    <2>7. /\ inflight' \in Seq(InflightRow \cup {None}) /\ Len(inflight') = Len(inflight)
          /\ DOMAIN inflight' = DOMAIN inflight
          /\ \A d \in DOMAIN inflight : d # step.ch => inflight'[d] = inflight[d]
      <3>1. inflight \in Seq(InflightRow \cup {None}) /\ x \in InflightRow \cup {None}
        BY <1>0, <2>5 DEF LedgerShape
      <3> QED
        BY <2>3, <2>6, <3>1, Edited
    <2>8. LedgerShape'
      BY <1>0, <2>1, <2>7 DEF LedgerShape
    <2>9. ASSUME NEW r \in DOMAIN rounds, rounds[r].ch # None PROVE Settling(rounds[r].ch)'
      <3>1. PICK c : c = rounds[r].ch
        OBVIOUS
      <3>2. c # step.ch /\ Settling(c)
        BY <1>0, <2>2, <2>9, <3>1 DEF Pending, ChallengesOK
      <3>3. c \in DOMAIN inflight
        BY <1>2, <3>2 DEF Settling
      <3>4. Settling(c)'
        BY <2>1, <2>7, <3>2, <3>3 DEF Settling, Row, CommittedRefs
      <3> QED
        BY <2>1, <3>1, <3>4
    <2> QED
      BY <1>0, <2>1, <2>8, <2>9 DEF ChallengesOK
  <1>11. CASE commit_round
    BY <1>11, CommitSettles
  <1>12. CASE _probe_warrant \/ _dispatch_all \/ RoundFails \/ (\E u \in Uids : _score_one(u))
    BY <1>1, <1>12 DEF _probe_warrant, _dispatch_all, RoundFails, _score_one, RoundStep, svcVars,
                       ledgerVars
  <1>13. CASE \/ AdvanceHead \/ (\E u \in Uids : SwapHotkey(u)) \/ ReplaceWorker
              \/ (\E c \in DOMAIN svc : Disown(c)) \/ Restart
              \/ (\E close \in 1..MaxHead : capture_epoch_inputs(close))
    BY <1>1, <1>13 DEF AdvanceHead, SwapHotkey, ReplaceWorker, Disown, Restart,
                       capture_epoch_inputs, svcVars, ledgerVars
  <1> QED
    BY <1>5, <1>6, <1>7, <1>8, <1>9, <1>10, <1>11, <1>12, <1>13 DEF Next

-----------------------------------------------------------------------------
(* The rest of the state.                                                  *)

LEMMA ShapeStep ==
    ASSUME IInv, Next
    PROVE  Shape'
  <1>0. Shape /\ proc' \in ProcRow /\ LedgerShape'
    BY PinStep, LedgerStep DEF IInv
  <1>1. /\ svc' \in Seq({"dispatched", "expired", "resolved"})
        /\ inflight' \in Seq(InflightRow \cup {None}) /\ Len(inflight') = Len(svc')
    BY <1>0 DEF LedgerShape, Statuses
  <1>2. CASE UNCHANGED <<head, worker, resets, rounds, dbpin>>
    BY <1>0, <1>1, <1>2 DEF Shape
  <1>3. CASE Boot
    <2>1. UNCHANGED <<head, worker, resets, rounds>> /\ dbpin' = PinRow(proc')
      BY <1>3 DEF Boot, chainVars, ledgerVars
    <2>2. dbpin' \in Nat \cup {None}
      BY <1>0, <2>1 DEF PinRow, Shape, ProcRow
    <2> QED
      BY <1>0, <1>1, <2>1, <2>2 DEF Shape
  <1>4. CASE run_round
    <2>1. UNCHANGED <<head, worker, resets>>
      BY <1>4 DEF run_round, chainVars
    <2>2. dbpin' = PinRow(proc')
      BY <1>4 DEF run_round
    <2>3. dbpin' \in Nat \cup {None}
      BY <1>0, <2>2 DEF PinRow, Shape, ProcRow
    <2> DEFINE row == [block |-> head, commit |-> 0, ch |-> None, sealed |-> {}]
    <2>4. rounds' \in {rounds, Append(rounds, row)}
      BY <1>4 DEF run_round
    <2>5. row \in RoundRow /\ rounds \in Seq(RoundRow)
      BY <1>0 DEF Shape, RoundRow
    <2> HIDE DEF row
    <2>6. rounds' \in Seq(RoundRow)
      BY <2>4, <2>5, Grown
    <2> QED
      BY <1>0, <1>1, <2>1, <2>3, <2>6 DEF Shape
  <1>5. CASE commit_round
    <2>1. /\ UNCHANGED <<head, worker, resets, dbpin>> /\ step.at = "commit"
          /\ rounds' = [rounds EXCEPT ![step.r] = [@ EXCEPT !.commit = head, !.ch = step.ch,
                                                            !.sealed = step.skipped]]
      BY <1>5 DEF commit_round, chainVars
    <2>2. /\ step.r \in DOMAIN rounds /\ step.skipped \in SUBSET Uids
          /\ step.ch = None \/ Pending(step.ch)
      BY <2>1 DEF IInv, RoundOK, InRound
    <2>3. step.ch \in Nat \cup {None} /\ head \in Nat
      <3>1. DOMAIN svc = 1..Len(svc) /\ Len(svc) \in Nat
        BY <1>0, LenProperties DEF Shape
      <3> QED
        BY <1>0, <2>2, <3>1 DEF Pending, Shape
    <2>4. PICK x : x = [rounds[step.r] EXCEPT !.commit = head, !.ch = step.ch,
                                              !.sealed = step.skipped]
      OBVIOUS
    <2>5. rounds[step.r] \in RoundRow
      BY <1>0, <2>2, ElementOfSeq, LenProperties DEF Shape
    <2>6. x \in RoundRow
      BY <2>2, <2>3, <2>4, <2>5 DEF RoundRow
    <2>7. rounds' = [rounds EXCEPT ![step.r] = x]
      BY <2>1, <2>4
    <2>8. rounds' \in Seq(RoundRow)
      BY <1>0, <2>2, <2>6, <2>7, Edited DEF Shape
    <2> QED
      BY <1>0, <1>1, <2>1, <2>8 DEF Shape
  <1>6. CASE Restart
    <2>1. UNCHANGED <<head, worker, rounds>> /\ resets' \in {resets, resets + 1}
          /\ dbpin' \in {dbpin, None}
      BY <1>6 DEF Restart, chainVars, ledgerVars
    <2> QED
      BY <1>0, <1>1, <2>1 DEF Shape
  <1>7. CASE AdvanceHead
    BY <1>0, <1>1, <1>7 DEF AdvanceHead, Shape, ledgerVars
  <1>8. CASE ReplaceWorker
    BY <1>0, <1>1, <1>8 DEF ReplaceWorker, Shape, chainVars, ledgerVars
  <1>9. CASE Drain("idle") \/ Drain("sweep") \/ sweep_orphaned_challenges
    BY <1>2, <1>9 DEF Drain, sweep_orphaned_challenges, chainVars, ledgerVars
  <1>10. CASE _probe_warrant \/ _next_challenge \/ _dispatch_all \/ FinishTrack \/ RoundFails
    BY <1>2, <1>10 DEF _probe_warrant, _next_challenge, _dispatch_all, FinishTrack, RoundFails,
                       RoundStep, chainVars, ledgerVars
  <1>11. CASE \/ (\E u \in Uids : _score_one(u)) \/ (\E u \in Uids : SwapHotkey(u))
              \/ (\E c \in DOMAIN svc : Disown(c))
              \/ (\E close \in 1..MaxHead : capture_epoch_inputs(close))
    BY <1>2, <1>11 DEF _score_one, SwapHotkey, Disown, capture_epoch_inputs, chainVars, ledgerVars
  <1> QED
    BY <1>3, <1>4, <1>5, <1>6, <1>7, <1>8, <1>9, <1>10, <1>11 DEF Next

-----------------------------------------------------------------------------
(* The locals of a round in progress.                                      *)

(* What a step inside the round has to keep.                               *)
LEMMA RoundCarried ==
    ASSUME IInv, InRound, UNCHANGED <<rounds, resets>>,
           scoring_pin(proc') = scoring_pin(proc),
           DOMAIN step' = RoundFields, step'.r = step.r, step'.skipped \in SUBSET Uids,
           step'.tracks \in SUBSET Uids, \A d \in step'.dups : d.loser \in Uids,
           step'.at \in {"fetch", "dispatch", "score", "commit"},
           \A p \in step'.packets : Pinned(p, step'.ch, scoring_pin(proc)),
           step'.at = "fetch" => step'.ch = None /\ step'.packets = {},
           step'.at \in {"dispatch", "score"} => Pending(step.ch)',
           step'.at = "commit" => \/ step'.ch = None
                                  \/ /\ Pending(step.ch)'
                                     /\ inflight'[step'.ch].outcome = "resolved"
    PROVE  InRound' /\ RoundOK'
  <1>1. InRound' /\ step'.at # "probe"
    BY DEF InRound
  <1>2. \A p \in step'.packets : PacketOK(p)'
    BY DEF PacketOK, Pinned, scoring_pin
  <1>3. /\ step'.r \in DOMAIN rounds' /\ rounds'[step'.r].commit = 0 /\ rounds'[step'.r].ch = None
        /\ scoring_pin(proc') # None
    BY DEF IInv, RoundOK
  <1> QED
    BY <1>1, <1>2, <1>3 DEF RoundOK

(* What a suspended round knows.                                           *)
LEMMA RoundFacts ==
    ASSUME IInv, InRound
    PROVE  /\ DOMAIN step = RoundFields /\ step.skipped \in SUBSET Uids
           /\ step.tracks \in SUBSET Uids /\ \A d \in step.dups : d.loser \in Uids
           /\ scoring_pin(proc) # None
           /\ \A p \in step.packets : Pinned(p, step.ch, scoring_pin(proc))
  BY DEF IInv, RoundOK, PacketOK, Pinned

LEMMA ProbeKeeps ==
    ASSUME IInv, _probe_warrant
    PROVE  InRound' /\ RoundOK'
  <1>1. step.at = "probe" /\ InRound /\ step.ch = None /\ step.packets = {}
    BY DEF _probe_warrant, InRound, IInv, RoundOK
  <1>2. UNCHANGED <<rounds, resets, proc>>
    BY DEF _probe_warrant, RoundStep, ledgerVars
  <1>3. PICK a \in SUBSET Uids, t \in BOOLEAN :
           step' = [step EXCEPT !.probed = a, !.tracks = step.tracks \cup a,
                                !.at = IF t THEN "commit" ELSE "fetch"]
    BY DEF _probe_warrant
  <1>4. /\ DOMAIN step = RoundFields /\ step.skipped \in SUBSET Uids
        /\ step.tracks \in SUBSET Uids /\ \A d \in step.dups : d.loser \in Uids
    BY <1>1, RoundFacts
  <1>5. /\ DOMAIN step' = RoundFields /\ step'.r = step.r /\ step'.skipped = step.skipped
        /\ step'.ch = step.ch /\ step'.packets = step.packets /\ step'.at \in {"fetch", "commit"}
        /\ step'.tracks = step.tracks \cup a /\ step'.dups = step.dups
    BY <1>3, <1>4 DEF RoundFields
  <1>6. scoring_pin(proc') = scoring_pin(proc)
    BY <1>2
  <1>7. step'.tracks \in SUBSET Uids
    BY <1>3, <1>4, <1>5
  <1> QED
    BY <1>1, <1>2, <1>4, <1>5, <1>6, <1>7, RoundCarried

(* The new challenge is nobody else's, because the committed ones are      *)
(* challenges the service knew before.                                     *)
LEMMA FetchKeeps ==
    ASSUME IInv, _next_challenge
    PROVE  InRound' /\ RoundOK'
  <1>1. step.at = "fetch" /\ InRound /\ step.ch = None /\ step.packets = {}
    BY DEF _next_challenge, InRound, IInv, RoundOK
  <1>2. UNCHANGED <<rounds, resets, proc>>
    BY DEF _next_challenge, ledgerVars
  <1>3. /\ DOMAIN step = RoundFields /\ step.skipped \in SUBSET Uids
        /\ step.tracks \in SUBSET Uids /\ \A d \in step.dups : d.loser \in Uids
    BY <1>1, RoundFacts
  <1>4. scoring_pin(proc') = scoring_pin(proc)
    BY <1>2
  <1>5. CASE step' = [step EXCEPT !.at = "commit"]
    <2>1. /\ DOMAIN step' = RoundFields /\ step'.r = step.r /\ step'.skipped = step.skipped
          /\ step'.ch = step.ch /\ step'.packets = step.packets /\ step'.at = "commit"
          /\ step'.tracks = step.tracks /\ step'.dups = step.dups
      BY <1>3, <1>5 DEF RoundFields
    <2> QED
      BY <1>1, <1>2, <1>3, <1>4, <2>1, RoundCarried
  <1>6. CASE step' # [step EXCEPT !.at = "commit"]
    <2>1. PICK c, row : /\ c = Len(svc) + 1 /\ row = [outcome |-> "expired", parked |-> FALSE]
                        /\ svc' = Append(svc, "dispatched") /\ inflight' = Append(inflight, row)
                        /\ step' = [step EXCEPT !.at = "dispatch", !.ch = c, !.anchor = head]
      BY <1>6 DEF _next_challenge
    <2>2. /\ DOMAIN step' = RoundFields /\ step'.r = step.r /\ step'.skipped = step.skipped
          /\ step'.ch = c /\ step'.packets = {} /\ step'.at = "dispatch"
          /\ step'.tracks = step.tracks /\ step'.dups = step.dups
      BY <1>1, <1>3, <2>1 DEF RoundFields
    <2>3. LedgerShape /\ ChallengesOK
      BY DEF IInv, Shape, LedgerShape, Statuses
    <2>4. /\ c \in DOMAIN svc' /\ svc'[c] = "dispatched" /\ c \notin DOMAIN svc
      <3>1. svc \in Seq(Statuses) /\ "dispatched" \in Statuses
        BY <2>3 DEF LedgerShape, Statuses
      <3>2. /\ DOMAIN svc = 1..Len(svc) /\ DOMAIN svc' = 1..(Len(svc) + 1)
            /\ Len(svc) \in Nat /\ svc'[Len(svc) + 1] = "dispatched"
        BY <2>1, <3>1, Grown
      <3> QED
        BY <2>1, <3>2
    <2>5. c \in DOMAIN inflight' /\ inflight'[c] # None
      <3>1. /\ inflight \in Seq(InflightRow \cup {None}) /\ Len(inflight) = Len(svc)
        BY <2>3 DEF LedgerShape
      <3>3. row \in InflightRow
        BY <2>1 DEF InflightRow
      <3>4. row # None
        BY <3>3, InferenceAssumption
      <3>2. /\ DOMAIN inflight' = 1..(Len(inflight) + 1) /\ Len(inflight) \in Nat
            /\ inflight'[Len(inflight) + 1] = row
        BY <2>1, <3>1, <3>3, Grown
      <3> QED
        BY <2>1, <3>1, <3>2, <3>4
    <2>6. \A r \in DOMAIN rounds : rounds[r].ch # c
      <3>1. None \notin DOMAIN svc /\ c # None
        BY <2>1, <2>3, LedgerDomains, InferenceAssumption
      <3> QED
        BY <2>3, <2>4, <3>1 DEF ChallengesOK, Settling
    <2>7. Pending(step.ch)'
      BY <1>2, <2>2, <2>4, <2>5, <2>6 DEF Pending, Row
    <2> QED
      BY <1>1, <1>2, <1>3, <1>4, <2>2, <2>7, RoundCarried
  <1> QED
    BY <1>5, <1>6

(* An availability zero touches the scores and the observations only.      *)
LEMMA AvailabilityFields ==
    ASSUME NEW s, DOMAIN s = RoundFields, NEW U, NEW signed, NEW z,
           z = _availability_zero(s, U, signed)
    PROVE  /\ DOMAIN z = RoundFields /\ z.at = s.at /\ z.r = s.r /\ z.ch = s.ch
           /\ z.skipped = s.skipped /\ z.packets = s.packets
           /\ z.tracks = s.tracks /\ z.dups = s.dups
  <1>1. PICK sc, av : z = [s EXCEPT !.scores = sc, !.avail = av]
    BY DEF _availability_zero
  <1> QED
    BY <1>1 DEF RoundFields

LEMMA DispatchKeeps ==
    ASSUME IInv, _dispatch_all
    PROVE  InRound' /\ RoundOK'
  <1>1. step.at = "dispatch" /\ InRound /\ Pending(step.ch)
    BY DEF _dispatch_all, InRound, IInv, RoundOK
  <1>2. UNCHANGED <<rounds, resets, proc, svc, inflight>>
    BY DEF _dispatch_all, RoundStep, ledgerVars
  <1>3. /\ DOMAIN step = RoundFields /\ step.skipped \in SUBSET Uids /\ step.tracks \in SUBSET Uids
        /\ \A p \in step.packets : Pinned(p, step.ch, scoring_pin(proc))
    BY <1>1, RoundFacts
  <1>4. scoring_pin(proc') = scoring_pin(proc)
    BY <1>2
  <1>5. PICK z, U, signed, o, l, d :
           /\ z = _availability_zero(step, U, signed)
           /\ step' = [z EXCEPT !.at = "score", !.out = o, !.left = l, !.dups = d]
           /\ \A x \in d : x.loser \in Uids
    <2>1. PICK out \in [step.tracks -> Outcomes] :
             LET faults == {u \in step.tracks : out[u] = "fault"}
                 copies == {S \in SUBSET Returned(out) : Cardinality(S) # 1} IN
             \E g \in {faults, {}} : \E same \in copies : \E winner \in IF same = {} THEN Uids ELSE same :
                step' = [_availability_zero(step, faults, g) EXCEPT
                         !.at = "score", !.out = out, !.left = Returned(out) \ (same \ {winner}),
                         !.dups = _dedup(same, winner)]
      BY DEF _dispatch_all
    <2>2. PICK F : F = {u \in step.tracks : out[u] = "fault"}
      OBVIOUS
    <2>3. PICK same \in SUBSET Returned(out) :
             \E g \in {F, {}} : \E winner \in IF same = {} THEN Uids ELSE same :
                step' = [_availability_zero(step, F, g) EXCEPT
                         !.at = "score", !.out = out, !.left = Returned(out) \ (same \ {winner}),
                         !.dups = _dedup(same, winner)]
      BY <2>1, <2>2
    <2>6. PICK g \in {F, {}}, winner \in IF same = {} THEN Uids ELSE same :
             step' = [_availability_zero(step, F, g) EXCEPT
                      !.at = "score", !.out = out, !.left = Returned(out) \ (same \ {winner}),
                      !.dups = _dedup(same, winner)]
      BY <2>3
    <2>4. same \in SUBSET Uids
      BY <1>3, <2>1 DEF Returned
    <2>5. \A x \in _dedup(same, winner) : x.loser \in Uids
      BY <2>4 DEF _dedup
    <2> QED
      BY <2>6, <2>5
  <1>6. /\ DOMAIN z = RoundFields /\ z.at = step.at /\ z.r = step.r /\ z.ch = step.ch
        /\ z.skipped = step.skipped /\ z.packets = step.packets
        /\ z.tracks = step.tracks
    BY <1>3, <1>5, AvailabilityFields
  <1>7. /\ DOMAIN step' = RoundFields /\ step'.r = step.r /\ step'.skipped = step.skipped
        /\ step'.ch = step.ch /\ step'.packets = step.packets /\ step'.at = "score"
        /\ step'.tracks = step.tracks /\ step'.dups = d
    BY <1>5, <1>6 DEF RoundFields
  <1>8. Pending(step.ch)'
    BY <1>1, <1>2, <1>7 DEF Pending, Row
  <1> QED
    BY <1>1, <1>2, <1>3, <1>4, <1>5, <1>7, <1>8, RoundCarried

(* A packet that counts carries the pin: the worker that measured it was   *)
(* checked against it (_binding_mismatch).                                 *)
LEMMA ScoreKeeps ==
    ASSUME IInv, NEW u \in Uids, _score_one(u)
    PROVE  InRound' /\ RoundOK'
  <1>1. step.at = "score" /\ InRound /\ Pending(step.ch)
    BY DEF _score_one, InRound, IInv, RoundOK
  <1>2. UNCHANGED <<rounds, resets, svc, inflight, worker>>
    BY DEF _score_one, svcVars, ledgerVars
  <1>3. /\ DOMAIN step = RoundFields /\ step.skipped \in SUBSET Uids
        /\ step.tracks \in SUBSET Uids /\ \A d \in step.dups : d.loser \in Uids
        /\ scoring_pin(proc) # None
        /\ \A p \in step.packets : Pinned(p, step.ch, scoring_pin(proc))
    BY <1>1, RoundFacts
  <1>4. scoring_pin(proc') = scoring_pin(proc)
    <2>1. proc \in ProcRow
      BY DEF IInv, Shape
    <2>2. \/ proc' = proc
          \/ proc' = [proc EXCEPT !.contract = _runtime_contract_for_score]
      BY DEF _score_one
    <2>3. proc'.pin = proc.pin /\ proc'.conflict = proc.conflict
      BY <2>1, <2>2 DEF ProcRow
    <2> QED
      BY <2>3 DEF scoring_pin
  <1>5. PICK s : s = [step EXCEPT !.left = @ \ {u}]
    OBVIOUS
  <1>6. /\ DOMAIN s = RoundFields /\ s.at = step.at /\ s.r = step.r /\ s.ch = step.ch
        /\ s.skipped = step.skipped /\ s.packets = step.packets
        /\ s.tracks = step.tracks /\ s.dups = step.dups
    BY <1>3, <1>5 DEF RoundFields
  <1>7. \/ step' = _availability_zero(s, {u}, {u})
        \/ step' = s
        \/ /\ ~_binding_mismatch(worker)
           /\ \E score \in {0, Full} :
                 step' = [s EXCEPT !.packets = @ \cup {Packet(u, score, "packet")}]
    BY <1>5 DEF _score_one, Unarchived
  <1>8. /\ DOMAIN step' = RoundFields /\ step'.r = step.r /\ step'.skipped = step.skipped
        /\ step'.ch = step.ch /\ step'.at = "score"
        /\ step'.tracks = step.tracks /\ step'.dups = step.dups
        /\ \A p \in step'.packets : Pinned(p, step.ch, scoring_pin(proc))
    <2>1. CASE step' = _availability_zero(s, {u}, {u})
      <3>1. PICK z : z = step'
        OBVIOUS
      <3>2. /\ DOMAIN z = RoundFields /\ z.at = s.at /\ z.r = s.r /\ z.ch = s.ch
            /\ z.skipped = s.skipped /\ z.packets = s.packets
            /\ z.tracks = s.tracks /\ z.dups = s.dups
        BY <1>6, <2>1, <3>1, AvailabilityFields
      <3> QED
        BY <1>1, <1>3, <1>6, <3>1, <3>2
    <2>2. CASE step' = s
      BY <1>1, <1>3, <1>6, <2>2
    <2>3. ASSUME ~_binding_mismatch(worker), NEW score \in {0, Full},
                 step' = [s EXCEPT !.packets = @ \cup {Packet(u, score, "packet")}]
          PROVE  /\ DOMAIN step' = RoundFields /\ step'.r = step.r /\ step'.skipped = step.skipped
                 /\ step'.ch = step.ch /\ step'.at = "score"
                 /\ step'.tracks = step.tracks /\ step'.dups = step.dups
                 /\ \A p \in step'.packets : Pinned(p, step.ch, scoring_pin(proc))
      <3>1. PICK q : q = Packet(u, score, "packet")
        OBVIOUS
      <3>2. /\ DOMAIN q = PacketFields /\ q.uid = u /\ q.ch = step.ch /\ q.era = resets
            /\ q.scorer = worker
        BY <3>1 DEF Packet, PacketFields, Pinned
      <3>3. worker = scoring_pin(proc)
        BY <1>3, <2>3 DEF _binding_mismatch
      <3>4. step' = [s EXCEPT !.packets = step.packets \cup {q}]
        BY <1>6, <2>3, <3>1
      <3>5. /\ DOMAIN step' = RoundFields /\ step'.r = step.r /\ step'.skipped = step.skipped
            /\ step'.tracks = step.tracks /\ step'.dups = step.dups
            /\ step'.ch = step.ch /\ step'.at = "score" /\ step'.packets = step.packets \cup {q}
        BY <1>1, <1>6, <3>4 DEF RoundFields
      <3> QED
        BY <1>3, <3>2, <3>3, <3>5 DEF Pinned
    <2> QED
      BY <1>7, <2>1, <2>2, <2>3
  <1>9. Pending(step.ch)'
    BY <1>1, <1>2, <1>8 DEF Pending, Row
  <1> QED
    BY <1>1, <1>2, <1>3, <1>4, <1>8, <1>9, RoundCarried

(* Proximity, shares and duplicates rewrite scores and keep or set the pin *)
(* (_apply_source_proximity, _apply_content_duplicates,                    *)
(* _attribute_duplicate).                                                  *)
LEMMA RewritesKeepPin ==
    ASSUME NEW P, NEW ch, NEW pin, pin = scoring_pin(proc), ch = step.ch,
           NEW flagged, NEW comp, NEW archived, NEW dups,
           \A d \in dups : d.loser \in Uids,
           \A p \in P : Pinned(p, ch, pin)
    PROVE  /\ \A p \in SourceProximity(P, flagged, archived) : Pinned(p, ch, pin)
           /\ \A p \in ContentShares(P, comp, archived) : Pinned(p, ch, pin)
           /\ \A p \in DuplicatePackets(dups, archived) : Pinned(p, ch, pin)
  <1>1. ASSUME NEW p \in P, NEW q, q = [p EXCEPT !.score = 0, !.scorer = pin]
        PROVE  Pinned(q, ch, pin)
    BY <1>1 DEF PacketFields, Pinned
  <1>2. ASSUME NEW p \in P, NEW q, q = [p EXCEPT !.score = 1, !.kind = "share", !.scorer = pin]
        PROVE  Pinned(q, ch, pin)
    BY <1>2 DEF PacketFields, Pinned
  <1>3. ASSUME NEW u \in Uids, NEW q, q = Packet(u, 0, "dup")
        PROVE  Pinned(q, ch, pin)
    BY <1>3 DEF Packet, PacketFields, Pinned
  <1>4. ASSUME NEW p \in SourceProximity(P, flagged, archived)
        PROVE  p \in P \/ \E q \in P : p = [q EXCEPT !.score = 0, !.scorer = pin]
    BY DEF SourceProximity
  <1>5. ASSUME NEW p \in ContentShares(P, comp, archived)
        PROVE  p \in P \/ \E q \in P : p = [q EXCEPT !.score = 1, !.kind = "share", !.scorer = pin]
    BY DEF ContentShares
  <1>6. ASSUME NEW p \in DuplicatePackets(dups, archived)
        PROVE  \E u \in Uids : p = Packet(u, 0, "dup")
    BY DEF DuplicatePackets
  <1> QED
    BY <1>1, <1>2, <1>3, <1>4, <1>5, <1>6

(* The locals that FinishTrack leaves.                                     *)
Finished(P1, comp, archived) ==
    LET P2 == ContentShares(P1, comp, archived)
        P3 == P2 \cup DuplicatePackets(step.dups, archived) IN
    [step EXCEPT !.at = "commit", !.packets = P3, !.skipped = comp, !.out = <<>>, !.dups = {},
                 !.scores = [u \in (DOMAIN @) \cup DOMAIN Scored(P3) |->
                                IF u \in DOMAIN Scored(P3) THEN Scored(P3)[u] ELSE @[u]]]

(* After it the challenge counts as resolved.                              *)
LEMMA FinishKeeps ==
    ASSUME IInv, FinishTrack
    PROVE  InRound' /\ RoundOK'
  <1>1. /\ step.at = "score" /\ InRound /\ Pending(step.ch)
        /\ \A d \in step.dups : d.loser \in Uids
    BY DEF FinishTrack, InRound, IInv, RoundOK
  <1>2. UNCHANGED <<rounds, resets, proc, svc>>
    BY DEF FinishTrack, RoundStep, ledgerVars
  <1>3. /\ DOMAIN step = RoundFields /\ step.tracks \in SUBSET Uids
        /\ \A p \in step.packets : Pinned(p, step.ch, scoring_pin(proc))
    BY <1>1, RoundFacts
  <1>4. scoring_pin(proc') = scoring_pin(proc)
    BY <1>2
  <1>5. PICK flagged, archived, P1, comp, P2, P3, sc :
           /\ P1 = SourceProximity(step.packets, flagged, archived)
           /\ comp \subseteq {p.uid : p \in P1}
           /\ P2 = ContentShares(P1, comp, archived)
           /\ P3 = P2 \cup DuplicatePackets(step.dups, archived)
           /\ step' = [step EXCEPT !.at = "commit", !.packets = P3, !.skipped = comp,
                                   !.out = <<>>, !.dups = {}, !.scores = sc]
    <2>1. PICK flagged \in SUBSET {p.uid : p \in Positive(step.packets)}, archived \in SUBSET Uids :
             \E comp \in {{}} \cup
                          (IF Cardinality({p.uid : p \in Positive(
                                 SourceProximity(step.packets, flagged, archived))}) > 1
                           THEN {{p.uid : p \in Positive(
                                 SourceProximity(step.packets, flagged, archived))}} ELSE {}) :
                step' = Finished(SourceProximity(step.packets, flagged, archived), comp, archived)
      BY Zenon DEF FinishTrack, Finished
    <2>2. PICK P1 : P1 = SourceProximity(step.packets, flagged, archived)
      OBVIOUS
    <2>3. PICK alike : alike = {p.uid : p \in Positive(P1)}
      OBVIOUS
    <2>4. PICK comp \in {{}, alike} : step' = Finished(P1, comp, archived)
      BY <2>1, <2>2, <2>3
    <2>5. comp \subseteq {p.uid : p \in P1}
      <3>1. alike \subseteq {p.uid : p \in P1}
        BY <2>3 DEF Positive
      <3> QED
        BY <3>1, <2>4
    <2>6. PICK P2, P3 : /\ P2 = ContentShares(P1, comp, archived)
                        /\ P3 = P2 \cup DuplicatePackets(step.dups, archived)
      OBVIOUS
    <2>7. PICK sc : sc = [u \in (DOMAIN step.scores) \cup DOMAIN Scored(P3) |->
                            IF u \in DOMAIN Scored(P3) THEN Scored(P3)[u] ELSE step.scores[u]]
      OBVIOUS
    <2>8. step' = [step EXCEPT !.at = "commit", !.packets = P3, !.skipped = comp,
                               !.out = <<>>, !.dups = {}, !.scores = sc]
      BY <2>4, <2>6, <2>7 DEF Finished
    <2> QED
      BY <2>2, <2>5, <2>6, <2>8
  <1>6. PICK pin, ch : pin = scoring_pin(proc) /\ ch = step.ch
    OBVIOUS
  <1>7. \A p \in P1 : Pinned(p, ch, pin)
    BY <1>1, <1>3, <1>5, <1>6, RewritesKeepPin
  <1>8. \A p \in P3 : Pinned(p, ch, pin)
    <2>1. \A p \in P2 : Pinned(p, ch, pin)
      BY <1>1, <1>5, <1>6, <1>7, RewritesKeepPin
    <2>2. \A p \in DuplicatePackets(step.dups, archived) :
             Pinned(p, ch, pin)
      BY <1>1, <1>5, <1>6, <1>7, RewritesKeepPin
    <2> QED
      BY <1>5, <2>1, <2>2
  <1>9. comp \in SUBSET Uids
    BY <1>5, <1>7 DEF Pinned
  <1>10. /\ DOMAIN step' = RoundFields /\ step'.r = step.r /\ step'.skipped = comp
         /\ step'.ch = step.ch /\ step'.at = "commit" /\ step'.packets = P3
         /\ step'.tracks = step.tracks /\ step'.dups = {}
    BY <1>3, <1>5 DEF RoundFields
  <1>11. /\ DOMAIN inflight' = DOMAIN inflight /\ inflight'[step.ch] # None
         /\ inflight'[step.ch].outcome = "resolved"
    <2>1. LedgerShape
      BY DEF IInv, Shape, LedgerShape, Statuses
    <2>2. step.ch \in DOMAIN inflight /\ inflight[step.ch] \in InflightRow
      BY <1>1, <2>1, LedgerDomains DEF Pending, Row
    <2>3. inflight' = [inflight EXCEPT ![step.ch].outcome = "resolved"]
      BY DEF FinishTrack
    <2>4. PICK x : x = [inflight[step.ch] EXCEPT !.outcome = "resolved"]
      OBVIOUS
    <2>5. x \in InflightRow /\ x.outcome = "resolved"
      BY <2>2, <2>4 DEF InflightRow
    <2>6. inflight' = [inflight EXCEPT ![step.ch] = x]
      BY <2>3, <2>4
    <2>7. DOMAIN inflight' = DOMAIN inflight /\ inflight'[step.ch] = x
      BY <2>2, <2>6
    <2> QED
      BY <2>5, <2>7, InferenceAssumption
  <1>12. Pending(step.ch)' /\ inflight'[step'.ch].outcome = "resolved"
    BY <1>1, <1>2, <1>10, <1>11 DEF Pending, Row
  <1> QED
    BY <1>1, <1>2, <1>3, <1>4, <1>6, <1>8, <1>9, <1>10, <1>12, RoundCarried

(* Drains and the steps that leave a round.                                *)
LEMMA DrainStep ==
    ASSUME IInv, Next
    PROVE  DrainOK'
  <1>0. DrainOK /\ LedgerShape
    BY DEF IInv, Shape, LedgerShape, Statuses
  <1>1. CASE step'.at # "drain"
    BY <1>1 DEF DrainOK
  <1>2. \A c \in Live : Row(c)
    BY DEF Live, Row
  <1>3. ASSUME NEW next, StartDrain(next), UNCHANGED inflight PROVE DrainOK'
    BY <1>2, <1>3 DEF StartDrain, DrainOK, Row
  <1>4. CASE Boot
    <2>1. PICK unpark \in {{}, Parked} :
             /\ inflight' = [c \in DOMAIN inflight |-> IF c \in unpark
                                                      THEN [inflight[c] EXCEPT !.parked = FALSE]
                                                      ELSE inflight[c]]
             /\ step' = [at |-> "drain", next |-> "sweep", todo |-> Live \cup unpark]
      BY <1>4 DEF Boot
    <2>2. ASSUME NEW c \in Live \cup unpark PROVE Row(c)'
      <3>1. c \in DOMAIN inflight /\ inflight[c] # None
        BY <2>1, <2>2 DEF Live, Parked
      <3>2. CASE c \in unpark
        <4>1. inflight[c] \in InflightRow
          BY <1>0, <3>1, LedgerDomains
        <4>2. inflight'[c] \in InflightRow
          BY <2>1, <3>1, <3>2, <4>1 DEF InflightRow
        <4> QED
          BY <2>1, <3>1, <4>2, InferenceAssumption DEF Row
      <3>3. CASE c \notin unpark
        BY <2>1, <3>1, <3>3 DEF Row
      <3> QED
        BY <3>2, <3>3
    <2> QED
      BY <2>1, <2>2 DEF DrainOK
  <1>5. ASSUME NEW next \in {"idle", "sweep"}, Drain(next) PROVE DrainOK'
    <2>1. CASE step.todo = {}
      <3>1. step'.at \in {"idle", "sweep"}
        BY <1>5, <2>1 DEF Drain, Idle
      <3> QED
        BY <1>1, <3>1
    <2>2. CASE step.todo # {}
      <3>1. PICK c \in step.todo : /\ Row(c) /\ DrainRow(c)
                                   /\ step' = [step EXCEPT !.todo = step.todo \ {c}]
        BY <1>5, <2>2, DrainTakes
      <3>2. /\ DOMAIN inflight' = DOMAIN inflight
            /\ \A d \in DOMAIN svc : d # c => inflight'[d] = inflight[d]
        BY <1>0, <3>1, DrainRowEffect
      <3>3. step.at = "drain" /\ DOMAIN step = {"at", "next", "todo"}
        BY <1>0, <1>5 DEF Drain, DrainOK
      <3>4. /\ DOMAIN step' = {"at", "next", "todo"} /\ step'.todo = step.todo \ {c}
        BY <3>1, <3>3
      <3>5. ASSUME NEW d \in step.todo \ {c} PROVE Row(d)'
        <4>1. Row(d) /\ d \in DOMAIN svc
          BY <1>0, <3>3, LedgerDomains DEF DrainOK, Row
        <4> QED
          BY <3>2, <4>1 DEF Row
      <3> QED
        BY <3>4, <3>5 DEF DrainOK
    <2> QED
      BY <2>1, <2>2
  <1>6. CASE sweep_orphaned_challenges
    <2>1. UNCHANGED inflight /\ (step' = Idle \/ StartDrain("sweep"))
      BY <1>6 DEF sweep_orphaned_challenges
    <2> QED
      BY <1>1, <1>3, <2>1 DEF Idle
  <1>7. CASE commit_round \/ RoundFails
    <2>1. UNCHANGED inflight /\ StartDrain("idle")
      BY <1>7 DEF commit_round, RoundFails
    <2> QED
      BY <1>3, <2>1
  <1>8. CASE Restart
    BY <1>1, <1>8 DEF Restart
  <1>9. CASE UNCHANGED <<step, inflight>>
    BY <1>0, <1>9 DEF DrainOK, Row
  <1>10. CASE run_round
    <2>1. step.at = "idle" /\ (step' = step \/ step'.at = "probe")
      BY <1>10 DEF run_round
    <2> QED
      BY <1>1, <2>1
  <1>11. CASE _probe_warrant \/ _next_challenge \/ _dispatch_all \/ FinishTrack
              \/ (\E u \in Uids : _score_one(u))
    <2>1. InRound'
      BY <1>11, ProbeKeeps, FetchKeeps, DispatchKeeps, ScoreKeeps, FinishKeeps
    <2> QED
      BY <1>1, <2>1 DEF InRound
  <1>12. CASE \/ (\E u \in Uids : SwapHotkey(u)) \/ (\E c \in DOMAIN svc : Disown(c))
              \/ (\E close \in 1..MaxHead : capture_epoch_inputs(close))
              \/ AdvanceHead \/ ReplaceWorker
    BY <1>9, <1>12 DEF SwapHotkey, Disown, capture_epoch_inputs, AdvanceHead, ReplaceWorker
  <1> QED
    BY <1>4, <1>5, <1>6, <1>7, <1>8, <1>10, <1>11, <1>12 DEF Next

(* Rounds begin with a pin, and outside a round there is nothing to keep.  *)
LEMMA RoundStepKeeps ==
    ASSUME IInv, Next
    PROVE  RoundOK'
  <1>1. CASE UNCHANGED <<step, rounds, proc, resets, svc, inflight>>
    BY <1>1 DEF IInv, RoundOK, InRound, PacketOK, Pinned, Pending, Row, scoring_pin
  <1>2. CASE step'.at \in {"idle", "boot", "drain", "sweep"}
    BY <1>2 DEF RoundOK, InRound
  <1>3. CASE run_round
    <2>1. step.at = "idle"
      BY <1>3 DEF run_round
    <2>2. CASE step' = step
      BY <1>2, <2>1, <2>2
    <2>3. CASE step' # step
      <3> DEFINE row == [block |-> head, commit |-> 0, ch |-> None, sealed |-> {}]
      <3>1. /\ rounds' = Append(rounds, row) /\ scoring_pin(proc') # None
            /\ step' = [at |-> "probe", r |-> Len(rounds) + 1, block |-> head,
                        hks |-> holder, tracks |-> planned_tracks, probed |-> {},
                        ch |-> None, anchor |-> 0, out |-> <<>>, left |-> {},
                        scores |-> <<>>, avail |-> {}, packets |-> {}, dups |-> {},
                        skipped |-> {}]
        BY <1>3, <2>3 DEF run_round
      <3>2. /\ row \in RoundRow /\ row.commit = 0 /\ row.ch = None /\ rounds \in Seq(RoundRow)
        BY DEF IInv, Shape, RoundRow
      <3> HIDE DEF row
      <3>3. /\ DOMAIN rounds' = 1..(Len(rounds) + 1) /\ Len(rounds) \in Nat
            /\ rounds'[Len(rounds) + 1] = row
        BY <3>1, <3>2, Grown
      <3>4. /\ DOMAIN step' = RoundFields /\ step'.at = "probe" /\ step'.r = Len(rounds) + 1
            /\ step'.ch = None /\ step'.packets = {} /\ step'.skipped = {} /\ step'.dups = {}
            /\ step'.tracks \in SUBSET Uids
        BY <3>1 DEF RoundFields, planned_tracks
      <3>5. step'.r \in DOMAIN rounds' /\ rounds'[step'.r].commit = 0 /\ rounds'[step'.r].ch = None
        BY <3>2, <3>3, <3>4
      <3> QED
        BY <3>1, <3>4, <3>5 DEF RoundOK, scoring_pin
    <2> QED
      BY <2>2, <2>3
  <1>4. CASE _probe_warrant \/ _next_challenge \/ _dispatch_all \/ FinishTrack
             \/ (\E u \in Uids : _score_one(u))
    BY <1>4, ProbeKeeps, FetchKeeps, DispatchKeeps, ScoreKeeps, FinishKeeps
  <1>5. CASE Boot \/ Restart \/ sweep_orphaned_challenges \/ commit_round \/ RoundFails
    BY <1>2, <1>5 DEF Boot, Restart, sweep_orphaned_challenges, commit_round, RoundFails,
                      StartDrain, Idle
  <1>6. ASSUME NEW next \in {"idle", "sweep"}, Drain(next) PROVE RoundOK'
    <2>1. CASE step.todo = {}
      <3>1. step'.at \in {"idle", "sweep"}
        BY <1>6, <2>1 DEF Drain, Idle
      <3> QED
        BY <1>2, <3>1
    <2>2. CASE step.todo # {}
      <3>1. PICK c : step' = [step EXCEPT !.todo = step.todo \ {c}]
        BY <1>6, <2>2, DrainTakes
      <3>2. step.at = "drain" /\ DOMAIN step = {"at", "next", "todo"}
        BY <1>6 DEF Drain, IInv, DrainOK
      <3>3. step'.at = "drain"
        BY <3>1, <3>2
      <3> QED
        BY <1>2, <3>3
    <2> QED
      BY <2>1, <2>2
  <1>7. ASSUME NEW c, Disown(c) PROVE RoundOK'
    BY <1>1, <1>7 DEF Disown, ledgerVars
  <1>8. CASE \/ (\E u \in Uids : SwapHotkey(u))
             \/ (\E close \in 1..MaxHead : capture_epoch_inputs(close))
             \/ AdvanceHead \/ ReplaceWorker
    BY <1>1, <1>8 DEF SwapHotkey, capture_epoch_inputs, AdvanceHead, ReplaceWorker, svcVars,
                      ledgerVars
  <1> QED
    BY <1>3, <1>4, <1>5, <1>6, <1>7, <1>8 DEF Next

-----------------------------------------------------------------------------

LEMMA InitInv ==
    Init => IInv
  <1> SUFFICES ASSUME Init PROVE IInv
    OBVIOUS
  <1> USE DEF Init
  <1>1. <<>> \in Seq({"dispatched", "expired", "resolved"}) /\ <<>> \in Seq(InflightRow \cup {None})
        /\ <<>> \in Seq(RoundRow) /\ Len(<<>>) = 0 /\ DOMAIN <<>> = {}
    BY EmptySeq
  <1>2. Shape
    BY <1>1 DEF Shape, ProcRow
  <1>3. WindowsOK
    BY <1>1 DEF WindowsOK, IsSeq, WindowsAreFrozen
  <1>4. PinOK /\ EvidenceOK
    BY DEF PinOK, EvidenceOK, OneScorer, scoring_pin
  <1>5. ChallengesOK /\ RoundOK /\ DrainOK
    BY <1>1 DEF ChallengesOK, RoundOK, InRound, DrainOK
  <1> QED
    BY <1>2, <1>3, <1>4, <1>5 DEF IInv

LEMMA StepInv ==
    IInv /\ [Next]_vars => IInv'
  <1> SUFFICES ASSUME IInv, [Next]_vars PROVE IInv'
    OBVIOUS
  <1>1. CASE Next
    BY <1>1, ShapeStep, WindowsStep, PinStep, EvidenceStep, LedgerStep, RoundStepKeeps, DrainStep
    DEF IInv
  <1>2. CASE UNCHANGED vars
    BY <1>2 DEF vars, IInv, Shape, WindowsOK, WindowsAreFrozen, InWindow, PinOK, scoring_pin,
                EvidenceOK, OneScorer, ChallengesOK, Settling, Row, CommittedRefs, RoundOK,
                InRound, PacketOK, Pinned, Pending, DrainOK
  <1> QED
    BY <1>1, <1>2

LEMMA Invariance ==
    Spec => []IInv
  BY InitInv, StepInv, PTL DEF Spec

(***************************************************************************)
(* A captured window never gains a round: what capture_epoch_inputs read   *)
(* for an epoch is all that ever commits inside it, whatever round was in  *)
(* progress at the close (commit_round, the seal).                         *)
(***************************************************************************)
THEOREM WindowsAreFrozenCorrect ==
    Spec => []WindowsAreFrozen
  <1>1. IInv => WindowsAreFrozen
    BY DEF IInv, WindowsOK
  <1> QED
    BY <1>1, Invariance, PTL

(***************************************************************************)
(* Between two resets every measured packet carries one scorer identity,   *)
(* although workers are replaced, the process restarts and the pin row may *)
(* be unreadable (discover_scorer_identity, _binding_mismatch).            *)
(***************************************************************************)
THEOREM OneScorerCorrect ==
    Spec => []OneScorer
  <1>1. IInv => OneScorer
    BY DEF IInv, EvidenceOK
  <1> QED
    BY <1>1, Invariance, PTL

(***************************************************************************)
(* Holdouts are released only for challenges that are over, a committed    *)
(* challenge is never expired or swept as an orphan, and its row is        *)
(* forgotten only when it is resolved and released                         *)
(* (_drain_inflight_challenges, sweep_orphaned_challenges).                *)
(***************************************************************************)
THEOREM ChallengeSettledCorrect ==
    Spec => []ChallengeSettled
  <1>1. IInv => ChallengeSettled
    BY DEF IInv, ChallengesOK, Settling, ChallengeSettled
  <1> QED
    BY <1>1, Invariance, PTL

-----------------------------------------------------------------------------
(* Scores (commit_round, accumulate, capture_epoch_inputs).  The state row *)
(* of a slot lists the evidence of its hotkey since the slot last belonged *)
(* to another: the last row of the slot is where the miner's accumulator   *)
(* stands, rounds commit in their order, and one round brings at most one  *)
(* piece of evidence for a slot, which is what the round folds.            *)

(* Sequence s holds the scores of R in the order of their rounds.          *)
Lists(s, R) ==
    /\ IsSeq(s) /\ IsFiniteSet(R) /\ Len(s) = Cardinality(R)
    /\ \A e \in R : LET i == Cardinality({f \in R : f.r <= e.r})
                    IN  i \in DOMAIN s /\ s[i] = e.score

(* What state row h has to account for, given the rows H and evidence E.   *)
After(h, H, E) ==
    {e \in E : /\ e.uid = h.uid /\ e.hk = h.hk /\ e.r <= h.r
               /\ \A x \in H : x.uid = h.uid /\ x.hk # h.hk /\ x.r < h.r => e.r > x.r}

Committed(r) == r \in DOMAIN rounds /\ rounds[r].commit > 0

(* Rounds commit in their order, at heights the chain has reached.         *)
OrderOK ==
    /\ \A r \in DOMAIN rounds : rounds[r].commit <= head
    /\ \A q, r \in DOMAIN rounds :
          q <= r /\ Committed(q) /\ Committed(r) => rounds[q].commit <= rounds[r].commit

(* The accumulator of a slot is that of its last state row.                *)
MinerOK(u) ==
    /\ DOMAIN miners[u] = {"hk", "known", "acc"}
    /\ \/ miners[u].acc = <<>> /\ \A h \in history : h.uid # u
       \/ \E h \in history : /\ h.uid = u /\ h.hk = miners[u].hk /\ h.acc = miners[u].acc
                             /\ \A g \in history : g.uid = u => g.r < h.r \/ g = h

RecordOK ==
    /\ \A h \in history : Committed(h.r) /\ Lists(h.acc, After(h, history, evidence))
    /\ \A e \in evidence : Committed(e.r) /\ \E g \in history : g.uid = e.uid /\ g.r = e.r
    /\ \A u \in Uids : MinerOK(u)

(* The captured windows hold, up to each close, all the evidence there is. *)
CapturedOK ==
    \A i \in DOMAIN captured :
       /\ UNION {captured[j].evidence : j \in 1..i}
             = {e \in evidence : rounds[e.r].commit <= captured[i].close}
       /\ \A h \in captured[i].snapshot : h \in history /\ rounds[h.r].commit <= captured[i].close

(* A round has one result for a slot: an observation, an output yet to be  *)
(* scored or attributed, or a packet.                                      *)
OnePerUid(P) == \A p, q \in P : p.uid = q.uid => p = q
OfRound(p, r, hks) == p.r = r /\ p.hk = hks[p.uid]
Without(P, u) == \A p \in P : p.uid # u

Untouched(s) ==
    /\ s.packets = {} /\ s.avail = {} /\ s.dups = {} /\ s.skipped = {} /\ DOMAIN s.scores = {}

Scoring(s) ==
    /\ DOMAIN s.scores = s.avail /\ s.skipped = {}
    /\ \A u \in s.left : /\ u \notin s.avail /\ Without(s.packets, u)
                         /\ \A d \in s.dups : d.loser # u
    /\ \A d \in s.dups : d.loser \notin s.avail /\ Without(s.packets, d.loser)

Decided(s) ==
    /\ \A u \in DOMAIN s.scores : u \in s.avail \/ ~Without(s.packets, u)
    /\ \A p \in s.packets : p.uid \in DOMAIN s.scores /\ p.score = s.scores[p.uid]
    /\ \A u \in s.avail : u \notin s.skipped
    /\ \A p \in s.packets : p.uid \in s.skipped =>
          /\ p.kind = "share"
          /\ \A u \in s.skipped : \E q \in s.packets : q.uid = u /\ q.kind = "share"

Tracked(s) ==
    /\ OnePerUid(s.packets) /\ \A p \in s.packets : OfRound(p, s.r, s.hks)
    /\ \A u \in s.avail : /\ u \in Uids /\ u \in DOMAIN s.scores /\ s.scores[u] = 0
                          /\ Without(s.packets, u)
    /\ s.at \in {"probe", "fetch", "dispatch"} => Untouched(s)
    /\ s.at = "score" => Scoring(s)
    /\ s.at = "commit" => Decided(s)

TrackOK == InRound => Tracked(step) /\ \A r \in DOMAIN rounds : r <= step.r

ScoreInv == IInv /\ OrderOK /\ RecordOK /\ CapturedOK /\ ComponentsWhole /\ TrackOK

(* A list that grew by a later piece of evidence.                          *)
LEMMA ListsGrow ==
    ASSUME NEW s, NEW R, Lists(s, R), NEW x, x.r \in Nat,
           \A f \in R : f.r \in Nat /\ f.r < x.r
    PROVE  Lists(Append(s, x.score), R \cup {x})
  <1>1. /\ IsSeq(s) /\ IsFiniteSet(R) /\ Len(s) = Cardinality(R) /\ x \notin R
    BY DEF Lists
  <1>2. /\ IsFiniteSet(R \cup {x}) /\ Cardinality(R \cup {x}) = Cardinality(R) + 1
    BY <1>1, FS_AddElement
  <1> DEFINE t == Append(s, x.score)
  <1>3. /\ IsSeq(t) /\ DOMAIN s = 1..Len(s) /\ DOMAIN t = 1..(Len(s) + 1) /\ Len(s) \in Nat
        /\ \A i \in DOMAIN s : t[i] = s[i]
        /\ t[Len(s) + 1] = x.score
    BY <1>1, GrownAny
  <1>4. Len(t) = Len(s) + 1
    <2>1. PICK S : t \in Seq(S)
      BY <1>3 DEF IsSeq
    <2>2. DOMAIN t = 1..Len(t) /\ Len(t) \in Nat
      BY <2>1, LenProperties
    <2> QED
      BY <1>3, <2>2
  <1> HIDE DEF t
  <1>5. ASSUME NEW e \in R \cup {x}
        PROVE  /\ Cardinality({f \in R \cup {x} : f.r <= e.r}) \in DOMAIN t
               /\ t[Cardinality({f \in R \cup {x} : f.r <= e.r})] = e.score
    <2>1. CASE e = x
      <3>1. {f \in R \cup {x} : f.r <= e.r} = R \cup {x}
        BY <2>1
      <3>2. Cardinality({f \in R \cup {x} : f.r <= e.r}) = Len(s) + 1
        BY <3>1, <1>1, <1>2
      <3> QED
        BY <3>2, <2>1, <1>3
    <2>2. CASE e \in R
      <3>1. {f \in R \cup {x} : f.r <= e.r} = {f \in R : f.r <= e.r}
        BY <2>2
      <3>2. PICK i : i = Cardinality({f \in R : f.r <= e.r})
        OBVIOUS
      <3>3. i \in DOMAIN s /\ s[i] = e.score
        BY <2>2, <3>2 DEF Lists
      <3>4. i \in DOMAIN t /\ t[i] = e.score
        BY <3>3, <1>3
      <3> QED
        BY <3>1, <3>2, <3>4
    <2> QED
      BY <2>1, <2>2
  <1>6. Lists(t, R \cup {x})
    BY <1>1, <1>2, <1>3, <1>4, <1>5 DEF Lists
  <1> QED
    BY <1>6 DEF t

(* The empty list.                                                         *)
LEMMA ListsNothing ==
    Lists(<<>>, {})
  BY EmptySeq, FS_EmptySet DEF Lists, IsSeq

(* A list is the fold FoldsExactly asks for.                               *)
LEMMA ListsFold ==
    ASSUME NEW h, NEW E, Lists(h.acc, After(h, history, E))
    PROVE  FoldsExactly(h, E)
  <1> DEFINE since == {g.r : g \in {x \in history : x.uid = h.uid /\ x.hk # h.hk /\ x.r < h.r}}
             rows == {e \in E : /\ e.uid = h.uid /\ e.hk = h.hk /\ e.r <= h.r
                                /\ \A q \in since : e.r > q}
  <1>1. rows = After(h, history, E)
    BY DEF After
  <1>2. /\ Len(h.acc) = Cardinality(rows)
        /\ \A e \in rows : LET i == Cardinality({f \in rows : f.r <= e.r})
                           IN  i \in DOMAIN h.acc /\ h.acc[i] = e.score
    <2> HIDE DEF rows
    <2> QED
      BY <1>1 DEF Lists
  <1> QED
    BY <1>2, Zenon DEF FoldsExactly

(* Later rows and later evidence do not change what a row accounts for.    *)
Later(h, H2, E2) ==
    /\ h.r \in Nat
    /\ \A x \in H2 : x.r \in Nat /\ x.r > h.r
    /\ \A e \in E2 : e.r \in Nat /\ e.r > h.r

LEMMA AfterKept ==
    ASSUME NEW h, NEW H, NEW E, NEW H2, NEW E2, Later(h, H2, E2)
    PROVE  After(h, H \cup H2, E \cup E2) = After(h, H, E)
  BY DEF After, Later

(* A new row under the same hotkey accounts for what the last row did, and *)
(* for the round's own evidence.                                           *)
Continues(k, h, H, E, H2, E2) ==
    /\ h \in H /\ k.r \in Nat /\ h.r < k.r /\ h.uid = k.uid /\ h.hk = k.hk
    /\ \A g \in H : g.r \in Nat /\ (g.uid = k.uid => g.r < h.r \/ g = h)
    /\ \A e \in E : e.r \in Nat /\ (e.uid = k.uid => e.r <= h.r)
    /\ \A x \in H2 : x.r = k.r
    /\ \A e \in E2 : e.r = k.r /\ (e.uid = k.uid => e.hk = k.hk)

LEMMA RowContinues ==
    ASSUME NEW k, NEW h, NEW H, NEW E, NEW H2, NEW E2, Continues(k, h, H, E, H2, E2)
    PROVE  After(k, H \cup H2, E \cup E2) = After(h, H, E) \cup {e \in E2 : e.uid = k.uid}
  <1>1. ASSUME NEW e \in After(k, H \cup H2, E \cup E2)
        PROVE  e \in After(h, H, E) \cup {f \in E2 : f.uid = k.uid}
    BY DEF After, Continues
  <1>2. ASSUME NEW e \in After(h, H, E)
        PROVE  e \in After(k, H \cup H2, E \cup E2)
    BY DEF After, Continues
  <1>3. ASSUME NEW e \in E2, e.uid = k.uid
        PROVE  e \in After(k, H \cup H2, E \cup E2)
    BY <1>3 DEF After, Continues
  <1> QED
    BY <1>1, <1>2, <1>3

(* A new row under another hotkey, or a first row, accounts for the        *)
(* round's own evidence only.                                              *)
Starts(k, H, E, H2, E2) ==
    /\ k.r \in Nat /\ \A g \in H : g.r \in Nat
    /\ \A e \in E : e.r \in Nat
    /\ \A e \in E : e.uid = k.uid =>
          \E g \in H : g.uid = k.uid /\ g.hk # k.hk /\ g.r < k.r /\ e.r <= g.r
    /\ \A x \in H2 : x.r = k.r
    /\ \A e \in E2 : e.r = k.r /\ (e.uid = k.uid => e.hk = k.hk)

LEMMA RowStarts ==
    ASSUME NEW k, NEW H, NEW E, NEW H2, NEW E2, Starts(k, H, E, H2, E2)
    PROVE  After(k, H \cup H2, E \cup E2) = {e \in E2 : e.uid = k.uid}
  <1>1. ASSUME NEW e \in After(k, H \cup H2, E \cup E2)
        PROVE  e \in {f \in E2 : f.uid = k.uid}
    BY DEF After, Starts
  <1>2. ASSUME NEW e \in E2, e.uid = k.uid
        PROVE  e \in After(k, H \cup H2, E \cup E2)
    BY <1>2 DEF After, Starts
  <1> QED
    BY <1>1, <1>2

(* What a committing round puts on record.                                 *)
NewEvidence == step.packets \cup {AvailabilityObservation(u) : u \in step.avail}

(* An availability zero's record.                                          *)
LEMMA Observation ==
    ASSUME NEW u
    PROVE  /\ AvailabilityObservation(u).uid = u /\ AvailabilityObservation(u).r = step.r
           /\ AvailabilityObservation(u).hk = step.hks[u] /\ AvailabilityObservation(u).score = 0
           /\ AvailabilityObservation(u).ch = step.ch
  BY DEF AvailabilityObservation, Packet

(* It is one piece for each slot the round scored, and none for the others. *)
LEMMA RoundBrings ==
    ASSUME ScoreInv, step.at = "commit"
    PROVE  /\ \A e \in NewEvidence : e.r = step.r /\ e.uid \in Uids /\ e.hk = step.hks[e.uid]
           /\ \A u \in Uids : u \notin DOMAIN step.scores => {e \in NewEvidence : e.uid = u} = {}
           /\ \A u \in DOMAIN step.scores :
                 \E x : /\ {e \in NewEvidence : e.uid = u} = {x}
                        /\ x.r = step.r /\ x.score = step.scores[u]
  <1>1. /\ Tracked(step) /\ Decided(step) /\ \A p \in step.packets : p.uid \in Uids
    BY DEF ScoreInv, TrackOK, Tracked, InRound, IInv, RoundOK, PacketOK, Pinned
  <1>2. \A e \in NewEvidence :
           \/ e \in step.packets
           \/ \E u \in step.avail : e = AvailabilityObservation(u)
    BY DEF NewEvidence
  <1>3. /\ OnePerUid(step.packets) /\ \A p \in step.packets : OfRound(p, step.r, step.hks)
        /\ \A u \in step.avail : /\ u \in Uids /\ u \in DOMAIN step.scores /\ step.scores[u] = 0
                                 /\ Without(step.packets, u)
        /\ \A u \in DOMAIN step.scores : u \in step.avail \/ ~Without(step.packets, u)
        /\ \A p \in step.packets : p.uid \in DOMAIN step.scores /\ p.score = step.scores[p.uid]
    BY <1>1 DEF Tracked, Decided
  <1>4. \A e \in NewEvidence : e.r = step.r /\ e.uid \in Uids /\ e.hk = step.hks[e.uid]
    BY <1>1, <1>2, <1>3, Observation DEF OfRound
  <1>5. \A e \in NewEvidence : e.uid \in DOMAIN step.scores
    BY <1>2, <1>3, Observation
  <1>6. ASSUME NEW u \in DOMAIN step.scores
        PROVE  \E x : /\ {e \in NewEvidence : e.uid = u} = {x}
                      /\ x.r = step.r /\ x.score = step.scores[u]
    <2>1. CASE u \in step.avail
      <3>1. PICK x : x = AvailabilityObservation(u)
        OBVIOUS
      <3>2. x \in NewEvidence /\ x.uid = u /\ x.r = step.r /\ x.score = step.scores[u]
        BY <2>1, <3>1, <1>3, Observation DEF NewEvidence
      <3>3. \A e \in NewEvidence : e.uid = u => e = x
        BY <1>2, <1>3, <2>1, <3>1, Observation DEF Without
      <3>4. {e \in NewEvidence : e.uid = u} = {x}
        BY <3>2, <3>3
      <3> QED
        BY <3>2, <3>4
    <2>2. CASE u \notin step.avail
      <3>1. PICK x \in step.packets : x.uid = u
        BY <1>3, <2>2 DEF Without
      <3>2. x \in NewEvidence /\ x.uid = u /\ x.r = step.r /\ x.score = step.scores[u]
        BY <3>1, <1>3 DEF NewEvidence, OfRound
      <3>3. \A e \in NewEvidence : e.uid = u => e = x
        BY <1>2, <1>3, <2>2, <3>1, Observation DEF OnePerUid
      <3>4. {e \in NewEvidence : e.uid = u} = {x}
        BY <3>2, <3>3
      <3> QED
        BY <3>2, <3>4
    <2> QED
      BY <2>1, <2>2
  <1> QED
    BY <1>4, <1>5, <1>6

(* The round that commits is the last one.                                 *)
LEMMA RoundCommits ==
    ASSUME ScoreInv, commit_round
    PROVE  /\ step.at = "commit" /\ step.r \in DOMAIN rounds /\ rounds[step.r].commit = 0
           /\ DOMAIN rounds' = DOMAIN rounds /\ DOMAIN rounds \in SUBSET Nat
           /\ \A r \in DOMAIN rounds : r <= step.r /\ rounds[r].commit \in Nat
           /\ \A r \in DOMAIN rounds : r # step.r => rounds'[r] = rounds[r]
           /\ rounds'[step.r].commit = head /\ rounds'[step.r].sealed = step.skipped
           /\ head > seal /\ head \in Nat /\ seal \in Nat
           /\ \A r : Committed(r) => r \in Nat /\ r < step.r /\ rounds'[r] = rounds[r]
           /\ \A r : Committed(r)' <=> (Committed(r) \/ r = step.r)
           /\ UNCHANGED <<head, seal, captured>>
  <1>1. /\ step.at = "commit" /\ head > seal /\ UNCHANGED <<head, seal, captured>>
        /\ rounds' = [rounds EXCEPT ![step.r] = [@ EXCEPT !.commit = head, !.ch = step.ch,
                                                          !.sealed = step.skipped]]
    BY DEF commit_round, CommitAllowed, chainVars
  <1>2. /\ step.r \in DOMAIN rounds /\ rounds[step.r].commit = 0
        /\ \A r \in DOMAIN rounds : r <= step.r
    BY <1>1 DEF ScoreInv, IInv, RoundOK, TrackOK, InRound
  <1>3. /\ rounds \in Seq(RoundRow) /\ head \in Nat /\ seal \in Nat
    BY DEF ScoreInv, IInv, Shape, WindowsOK
  <1>4. /\ DOMAIN rounds \in SUBSET Nat /\ \A r \in DOMAIN rounds : rounds[r] \in RoundRow
    BY <1>3, ElementOfSeq, LenProperties
  <1>5. PICK x : x = [rounds[step.r] EXCEPT !.commit = head, !.ch = step.ch, !.sealed = step.skipped]
    OBVIOUS
  <1>6. x.commit = head /\ x.sealed = step.skipped
    BY <1>2, <1>4, <1>5 DEF RoundRow
  <1>7. rounds' = [rounds EXCEPT ![step.r] = x]
    BY <1>1, <1>5
  <1>8. /\ DOMAIN rounds' = DOMAIN rounds /\ rounds'[step.r] = x
        /\ \A r \in DOMAIN rounds : r # step.r => rounds'[r] = rounds[r]
    BY <1>2, <1>7
  <1>9. \A r \in DOMAIN rounds : rounds[r].commit \in Nat
    BY <1>4 DEF RoundRow
  <1>10. \A r : Committed(r) => r \in Nat /\ r < step.r /\ rounds'[r] = rounds[r]
    BY <1>2, <1>4, <1>8 DEF Committed
  <1>11. \A r : Committed(r)' <=> (Committed(r) \/ r = step.r)
    BY <1>1, <1>2, <1>3, <1>6, <1>8, <1>9 DEF Committed
  <1> QED
    BY <1>1, <1>2, <1>3, <1>4, <1>6, <1>8, <1>9, <1>10, <1>11

(* The new round commits last, at the head.                                *)
LEMMA CommitOrder ==
    ASSUME ScoreInv, commit_round
    PROVE  OrderOK'
  <1>1. \A r \in DOMAIN rounds' : rounds'[r].commit <= head'
    BY RoundCommits DEF ScoreInv, OrderOK
  <1>2. ASSUME NEW q \in DOMAIN rounds', NEW r \in DOMAIN rounds', q <= r,
               Committed(q)', Committed(r)'
        PROVE  rounds'[q].commit <= rounds'[r].commit
    <2>1. CASE r = step.r
      BY <1>1, <2>1, RoundCommits
    <2>2. CASE r # step.r
      <3>1. Committed(r) /\ r < step.r /\ rounds'[r] = rounds[r]
        BY <1>2, <2>2, RoundCommits
      <3>2. q # step.r
        BY <1>2, <3>1, RoundCommits
      <3>3. Committed(q) /\ rounds'[q] = rounds[q]
        BY <1>2, <3>2, RoundCommits
      <3> QED
        BY <1>2, <3>1, <3>3 DEF ScoreInv, OrderOK, Committed
    <2> QED
      BY <2>1, <2>2
  <1> QED
    BY <1>1, <1>2 DEF OrderOK

(* The accumulator a commit leaves (sync_neurons, accumulate).             *)
LEMMA MinerAfter ==
    ASSUME ScoreInv, commit_round, NEW u \in Uids
    PROVE  /\ DOMAIN miners'[u] = {"hk", "known", "acc"} /\ miners'[u].hk = step.hks[u]
           /\ LET acc == IF miners[u].hk = step.hks[u] THEN miners[u].acc ELSE <<>>
              IN  miners'[u].acc = IF u \in DOMAIN step.scores
                                   THEN Append(acc, step.scores[u]) ELSE acc
  <1>1. miners'[u] = Fold(sync_neurons(u), u)
    BY DEF commit_round
  <1>2. DOMAIN miners[u] = {"hk", "known", "acc"}
    BY DEF ScoreInv, RecordOK, MinerOK
  <1>3. PICK acc : acc = IF miners[u].hk = step.hks[u] THEN miners[u].acc ELSE <<>>
    OBVIOUS
  <1>4. PICK row : row = IF miners[u].hk = step.hks[u] THEN miners[u]
                         ELSE [NoRow EXCEPT !.hk = step.hks[u]]
    OBVIOUS
  <1>5. DOMAIN row = {"hk", "known", "acc"} /\ row.hk = step.hks[u] /\ row.acc = acc
    BY <1>2, <1>3, <1>4 DEF NoRow
  <1>6. PICK row2 : row2 = [row EXCEPT !.known = @ \/ u \in step.probed]
    OBVIOUS
  <1>7. DOMAIN row2 = {"hk", "known", "acc"} /\ row2.hk = step.hks[u] /\ row2.acc = acc
    BY <1>5, <1>6
  <1>8. sync_neurons(u) = row2
    BY <1>4, <1>6 DEF sync_neurons
  <1>9. miners'[u] = IF u \in DOMAIN step.scores
                     THEN [row2 EXCEPT !.acc = Append(row2.acc, step.scores[u])] ELSE row2
    BY <1>1, <1>8 DEF Fold
  <1>10. /\ DOMAIN miners'[u] = {"hk", "known", "acc"} /\ miners'[u].hk = step.hks[u]
         /\ miners'[u].acc = IF u \in DOMAIN step.scores
                             THEN Append(acc, step.scores[u]) ELSE acc
    BY <1>7, <1>9
  <1> QED
    BY <1>3, <1>10

(* The state rows a commit writes.                                         *)
NewRow(u) == [r |-> step.r, uid |-> u, hk |-> miners'[u].hk,
              known |-> miners'[u].known, acc |-> miners'[u].acc]
NewRows == {NewRow(u) : u \in Uids}

(* Each of them lists what it has to account for.                          *)
LEMMA NewRowLists ==
    ASSUME ScoreInv, commit_round, NEW u \in Uids
    PROVE  Lists(NewRow(u).acc, After(NewRow(u), history \cup NewRows, evidence \cup NewEvidence))
  <1>1. PICK k, H, E, H2, E2, n : /\ k = NewRow(u) /\ H = history /\ E = evidence
                                 /\ H2 = NewRows /\ E2 = NewEvidence /\ n = step.r
    OBVIOUS
  <1>2. /\ k.r = n /\ k.uid = u /\ k.hk = step.hks[u] /\ k.acc = miners'[u].acc /\ n \in Nat
        /\ step.at = "commit"
    BY <1>1, MinerAfter, RoundCommits DEF NewRow
  <1>3. /\ \A g \in H : g.r \in Nat /\ g.r < n
        /\ \A e \in E : e.r \in Nat /\ e.r < n /\ \E g \in H : g.uid = e.uid /\ g.r = e.r
    BY <1>1, RoundCommits DEF ScoreInv, RecordOK
  <1>4. \A x \in H2 : x.r = n
    BY <1>1 DEF NewRows, NewRow
  <1>5. \A e \in E2 : e.r = n /\ (e.uid = k.uid => e.hk = k.hk)
    BY <1>1, <1>2, RoundBrings
  <1>6. PICK acc : acc = IF miners[u].hk = step.hks[u] THEN miners[u].acc ELSE <<>>
    OBVIOUS
  <1>7. k.acc = IF u \in DOMAIN step.scores THEN Append(acc, step.scores[u]) ELSE acc
    BY <1>2, <1>6, MinerAfter
  <1>8. \E R : /\ After(k, H \cup H2, E \cup E2) = R \cup {e \in E2 : e.uid = k.uid}
               /\ Lists(acc, R) /\ R \subseteq E
    <2>1. CASE acc = <<>> /\ \A e \in E : e.uid = k.uid =>
                  \E g \in H : g.uid = k.uid /\ g.hk # k.hk /\ g.r < k.r /\ e.r <= g.r
      <3>1. Starts(k, H, E, H2, E2)
        BY <1>2, <1>3, <1>4, <1>5, <2>1 DEF Starts
      <3>2. After(k, H \cup H2, E \cup E2) = {e \in E2 : e.uid = k.uid}
        BY <3>1, RowStarts
      <3>3. PICK R : R = {}
        OBVIOUS
      <3>4. After(k, H \cup H2, E \cup E2) = R \cup {e \in E2 : e.uid = k.uid} /\ R \subseteq E
        BY <3>2, <3>3
      <3>5. Lists(acc, R)
        BY <2>1, <3>3, ListsNothing
      <3> QED
        BY <3>4, <3>5
    <2>2. CASE \E h \in H : /\ h.uid = k.uid /\ h.hk = k.hk /\ h.acc = acc
                            /\ \A g \in H : g.uid = k.uid => g.r < h.r \/ g = h
      <3>1. PICK h \in H : /\ h.uid = k.uid /\ h.hk = k.hk /\ h.acc = acc
                           /\ \A g \in H : g.uid = k.uid => g.r < h.r \/ g = h
        BY <2>2
      <3>2. \A e \in E : e.uid = k.uid => e.r <= h.r
        BY <1>3, <3>1
      <3>6. Continues(k, h, H, E, H2, E2)
        BY <1>2, <1>3, <1>4, <1>5, <3>1, <3>2 DEF Continues
      <3>3. After(k, H \cup H2, E \cup E2) = After(h, H, E) \cup {e \in E2 : e.uid = k.uid}
        BY <3>6, RowContinues
      <3>4. Lists(acc, After(h, H, E))
        BY <1>1, <3>1 DEF ScoreInv, RecordOK
      <3>5. After(h, H, E) \subseteq E
        BY DEF After
      <3> QED
        BY <3>3, <3>4, <3>5
    <2>3. MinerOK(u)
      BY DEF ScoreInv, RecordOK
    <2>4. CASE miners[u].acc = <<>> /\ \A h \in history : h.uid # u
      <3>1. acc = <<>>
        BY <2>4, <1>6
      <3>2. \A e \in E : e.uid # k.uid
        BY <2>4, <1>1, <1>2, <1>3
      <3> QED
        BY <2>1, <3>1, <3>2
    <2>5. ASSUME NEW h \in history, h.uid = u, h.hk = miners[u].hk, h.acc = miners[u].acc,
                 \A g \in history : g.uid = u => g.r < h.r \/ g = h
          PROVE  \/ \E g \in H : /\ g.uid = k.uid /\ g.hk = k.hk /\ g.acc = acc
                                 /\ \A x \in H : x.uid = k.uid => x.r < g.r \/ x = g
                 \/ acc = <<>> /\ \A e \in E : e.uid = k.uid =>
                        \E g \in H : g.uid = k.uid /\ g.hk # k.hk /\ g.r < k.r /\ e.r <= g.r
      <3>1. CASE miners[u].hk = step.hks[u]
        <4>1. h \in H /\ h.uid = k.uid /\ h.hk = k.hk /\ h.acc = acc
          BY <1>1, <1>2, <1>6, <2>5, <3>1
        <4>2. \A x \in H : x.uid = k.uid => x.r < h.r \/ x = h
          BY <1>1, <1>2, <2>5
        <4> QED
          BY <4>1, <4>2
      <3>2. CASE miners[u].hk # step.hks[u]
        <4>1. acc = <<>>
          BY <1>6, <3>2
        <4>2. h \in H /\ h.uid = k.uid /\ h.hk # k.hk /\ h.r < k.r
          BY <1>1, <1>2, <1>3, <2>5, <3>2
        <4>3. \A e \in E : e.uid = k.uid => e.r <= h.r
          BY <1>1, <1>2, <1>3, <2>5
        <4> QED
          BY <4>1, <4>2, <4>3
      <3> QED
        BY <3>1, <3>2
    <2> QED
      BY <2>1, <2>2, <2>3, <2>4, <2>5 DEF MinerOK
  <1>9. PICK R : /\ After(k, H \cup H2, E \cup E2) = R \cup {e \in E2 : e.uid = k.uid}
                 /\ Lists(acc, R) /\ R \subseteq E
    BY <1>8
  <1>10. Lists(k.acc, After(k, H \cup H2, E \cup E2))
    <2>1. CASE u \notin DOMAIN step.scores
      <3>1. {e \in E2 : e.uid = k.uid} = {}
        BY <2>1, <1>1, <1>2, RoundBrings
      <3>2. After(k, H \cup H2, E \cup E2) = R /\ k.acc = acc
        BY <3>1, <1>7, <1>9, <2>1
      <3> QED
        BY <3>2, <1>9
    <2>2. CASE u \in DOMAIN step.scores
      <3>1. PICK x : {e \in E2 : e.uid = k.uid} = {x} /\ x.r = n /\ x.score = step.scores[u]
        BY <2>2, <1>1, <1>2, RoundBrings
      <3>2. After(k, H \cup H2, E \cup E2) = R \cup {x} /\ k.acc = Append(acc, x.score)
        BY <3>1, <1>7, <1>9, <2>2
      <3>3. \A f \in R : f.r \in Nat /\ f.r < x.r
        BY <1>3, <1>9, <3>1
      <3>4. Lists(Append(acc, x.score), R \cup {x})
        BY <1>2, <1>9, <3>1, <3>3, ListsGrow
      <3> QED
        BY <3>2, <3>4
    <2> QED
      BY <2>1, <2>2
  <1> QED
    BY <1>1, <1>10

(* A commit keeps every row's account, and opens one per slot.             *)
LEMMA CommitRecord ==
    ASSUME ScoreInv, commit_round
    PROVE  RecordOK'
  <1>1. /\ history' = history \cup NewRows /\ evidence' = evidence \cup NewEvidence
    BY DEF commit_round, NewRows, NewRow, NewEvidence
  <1>2. /\ \A h \in history : Committed(h.r) /\ h.r \in Nat /\ h.r < step.r
        /\ \A e \in evidence : Committed(e.r) /\ \E g \in history : g.uid = e.uid /\ g.r = e.r
        /\ step.at = "commit" /\ step.r \in Nat /\ step.r \in DOMAIN rounds
    BY RoundCommits DEF ScoreInv, RecordOK
  <1>3. \A u \in Uids : /\ NewRow(u) \in history' /\ NewRow(u).r = step.r /\ NewRow(u).uid = u
                        /\ NewRow(u).hk = miners'[u].hk /\ NewRow(u).acc = miners'[u].acc
    BY <1>1 DEF NewRows, NewRow
  <1>4. \A h \in NewRows : \E u \in Uids : h = NewRow(u)
    BY DEF NewRows
  <1>5. /\ \A e \in NewEvidence : e.r = step.r /\ e.uid \in Uids
    BY <1>2, RoundBrings
  <1>6. ASSUME NEW h \in history'
        PROVE  Committed(h.r)' /\ Lists(h.acc, After(h, history', evidence'))
    <2>1. CASE h \in history
      <3>1. \A x \in NewRows : x.r \in Nat /\ x.r > h.r
        BY <1>2, <1>3, <1>4, <2>1
      <3>2. \A e \in NewEvidence : e.r \in Nat /\ e.r > h.r
        BY <1>2, <1>5, <2>1
      <3>7. Later(h, NewRows, NewEvidence)
        BY <1>2, <2>1, <3>1, <3>2 DEF Later
      <3>3. After(h, history \cup NewRows, evidence \cup NewEvidence) = After(h, history, evidence)
        BY <3>7, AfterKept
      <3>4. Lists(h.acc, After(h, history', evidence'))
        BY <1>1, <2>1, <3>3 DEF ScoreInv, RecordOK
      <3>5. PICK q : q = h.r
        OBVIOUS
      <3>6. Committed(q)'
        BY <1>2, <2>1, <3>5, RoundCommits
      <3> QED
        BY <3>4, <3>5, <3>6 DEF Committed
    <2>2. CASE h \in NewRows
      <3>1. PICK u \in Uids : h = NewRow(u)
        BY <1>4, <2>2
      <3>2. Lists(h.acc, After(h, history', evidence'))
        BY <1>1, <3>1, NewRowLists
      <3>3. PICK q : q = step.r
        OBVIOUS
      <3>4. Committed(q)' /\ h.r = q
        BY <1>3, <3>1, <3>3, RoundCommits
      <3> QED
        BY <3>2, <3>4 DEF Committed
    <2> QED
      BY <1>1, <2>1, <2>2
  <1>7. ASSUME NEW e \in evidence'
        PROVE  Committed(e.r)' /\ \E g \in history' : g.uid = e.uid /\ g.r = e.r
    <2>1. PICK q : q = e.r
      OBVIOUS
    <2>2. Committed(q) \/ q = step.r
      BY <1>1, <1>2, <1>5, <2>1
    <2>3. Committed(q)'
      BY <2>2, RoundCommits
    <2>4. \E g \in history' : g.uid = e.uid /\ g.r = e.r
      BY <1>1, <1>2, <1>3, <1>5
    <2> QED
      BY <2>1, <2>3, <2>4 DEF Committed
  <1>8. ASSUME NEW u \in Uids
        PROVE  MinerOK(u)'
    <2>1. DOMAIN miners'[u] = {"hk", "known", "acc"}
      BY MinerAfter
    <2>2. \A g \in history' : g.uid = u => g.r < NewRow(u).r \/ g = NewRow(u)
      BY <1>1, <1>2, <1>3, <1>4
    <2>3. \E h \in history' : /\ h.uid = u /\ h.hk = miners'[u].hk /\ h.acc = miners'[u].acc
                              /\ \A g \in history' : g.uid = u => g.r < h.r \/ g = h
      BY <1>3, <2>2
    <2> QED
      BY <2>1, <2>3 DEF MinerOK
  <1> QED
    BY <1>6, <1>7, <1>8 DEF RecordOK, Committed

(* A commit is beyond every captured close.                                *)
LEMMA CommitCaptured ==
    ASSUME ScoreInv, commit_round
    PROVE  CapturedOK'
  <1>1. /\ history' = history \cup NewRows /\ evidence' = evidence \cup NewEvidence
        /\ captured' = captured
    BY RoundCommits DEF commit_round, NewRows, NewRow, NewEvidence
  <1>2. \A e \in NewEvidence : e.r = step.r
    BY RoundBrings, RoundCommits
  <1>3. /\ \A e \in evidence : rounds'[e.r] = rounds[e.r]
        /\ \A h \in history : rounds'[h.r] = rounds[h.r]
    BY RoundCommits DEF ScoreInv, RecordOK
  <1>4. ASSUME NEW i \in DOMAIN captured
        PROVE  /\ UNION {captured[j].evidence : j \in 1..i}
                     = {e \in evidence' : rounds'[e.r].commit <= captured[i].close}
               /\ \A h \in captured[i].snapshot :
                     h \in history' /\ rounds'[h.r].commit <= captured[i].close
    <2>1. captured[i].close \in Nat /\ captured[i].close <= seal
      BY DEF ScoreInv, IInv, WindowsOK
    <2>2. \A e \in NewEvidence : ~(rounds'[e.r].commit <= captured[i].close)
      BY <1>2, <2>1, RoundCommits
    <2>3. {e \in evidence' : rounds'[e.r].commit <= captured[i].close}
             = {e \in evidence : rounds[e.r].commit <= captured[i].close}
      BY <1>1, <1>3, <2>2
    <2> QED
      BY <1>1, <1>3, <2>3 DEF ScoreInv, CapturedOK
  <1> QED
    BY <1>1, <1>4 DEF CapturedOK

(* The sealed members of the new round are its shares.                     *)
LEMMA CommitComponents ==
    ASSUME ScoreInv, commit_round
    PROVE  ComponentsWhole'
  <1>1. evidence' = evidence \cup NewEvidence
    BY DEF commit_round, NewEvidence
  <1>2. /\ Decided(step) /\ \A e \in NewEvidence : e.r = step.r
    BY RoundBrings, RoundCommits DEF ScoreInv, TrackOK, Tracked, InRound
  <1>3. \A e \in NewEvidence : e \in step.packets \/ e.uid \in step.avail
    BY Observation DEF NewEvidence
  <1>4. ASSUME NEW e \in evidence', e.uid \in rounds'[e.r].sealed
        PROVE  /\ e.kind = "share"
               /\ \A u \in rounds'[e.r].sealed :
                     \E f \in evidence' : f.r = e.r /\ f.uid = u /\ f.kind = "share"
    <2>1. CASE e \in evidence
      <3>1. rounds'[e.r] = rounds[e.r]
        BY <2>1, RoundCommits DEF ScoreInv, RecordOK
      <3> QED
        BY <1>1, <1>4, <2>1, <3>1 DEF ScoreInv, ComponentsWhole
    <2>2. CASE e \in NewEvidence
      <3>1. rounds'[e.r].sealed = step.skipped
        BY <1>2, <2>2, RoundCommits
      <3>2. e \in step.packets
        BY <1>2, <1>3, <1>4, <2>2, <3>1 DEF Decided
      <3>3. /\ e.kind = "share"
            /\ \A u \in step.skipped : \E q \in step.packets : q.uid = u /\ q.kind = "share"
        BY <1>2, <1>4, <3>1, <3>2 DEF Decided
      <3>4. \A q \in step.packets : q \in evidence' /\ q.r = e.r
        BY <1>1, <1>2, <2>2 DEF NewEvidence
      <3> QED
        BY <3>1, <3>3, <3>4
    <2> QED
      BY <1>1, <2>1, <2>2
  <1> QED
    BY <1>4 DEF ComponentsWhole

(* A window begins where the last one ended, so the windows together hold  *)
(* everything up to the close.                                             *)
LEMMA CaptureKeeps ==
    ASSUME ScoreInv, NEW close \in 1..MaxHead, capture_epoch_inputs(close)
    PROVE  CapturedOK'
  <1> DEFINE w == [prior |-> LastClose, close |-> close, rounds |-> InWindow(LastClose, close),
                   evidence |-> {e \in evidence : e.r \in InWindow(LastClose, close)},
                   snapshot |-> snapshot_at(close)]
             n == Len(captured)
  <1>1. /\ captured' = Append(captured, w) /\ UNCHANGED <<rounds, history, evidence>>
        /\ close > LastClose
    BY DEF capture_epoch_inputs, ledgerVars
  <1>2. /\ w.close = close /\ w.evidence = {e \in evidence : e.r \in InWindow(LastClose, close)}
        /\ w.snapshot = snapshot_at(close)
    OBVIOUS
  <1> HIDE DEF w
  <1>3. /\ DOMAIN captured = 1..n /\ DOMAIN captured' = 1..(n + 1) /\ n \in Nat
        /\ \A i \in DOMAIN captured : captured'[i] = captured[i]
        /\ captured'[n + 1] = w
    BY <1>1, GrownAny DEF ScoreInv, IInv, WindowsOK
  <1>4. /\ captured = <<>> => n = 0
        /\ captured # <<>> => n # 0 /\ n \in DOMAIN captured
    <2>1. PICK S : captured \in Seq(S)
      BY DEF ScoreInv, IInv, WindowsOK, IsSeq
    <2>2. captured # <<>> => n # 0
      BY <2>1, EmptySeq
    <2>3. captured = <<>> => n = 0
      BY EmptySeq
    <2> QED
      BY <1>3, <2>2, <2>3
  <1> HIDE DEF n
  <1>5. \A e \in evidence : /\ e.r \in DOMAIN rounds /\ rounds[e.r].commit > 0
                            /\ rounds[e.r].commit \in Nat
    <2>1. rounds \in Seq(RoundRow)
      BY DEF ScoreInv, IInv, Shape
    <2>2. \A r \in DOMAIN rounds : rounds[r] \in RoundRow
      BY <2>1, ElementOfSeq, LenProperties
    <2> QED
      BY <2>2 DEF ScoreInv, RecordOK, Committed, RoundRow
  <1>6. UNION {captured[j].evidence : j \in 1..n}
           = {e \in evidence : rounds[e.r].commit <= LastClose}
    <2>1. CASE captured = <<>>
      <3>1. LastClose = 0 /\ 1..n = {}
        BY <2>1, <1>4 DEF LastClose
      <3>2. {e \in evidence : rounds[e.r].commit <= LastClose} = {}
        BY <1>5, <3>1
      <3>3. UNION {captured[j].evidence : j \in 1..n} = {}
        BY <3>1
      <3> QED
        BY <3>2, <3>3
    <2>2. CASE captured # <<>>
      BY <2>2, <1>4 DEF LastClose, ScoreInv, CapturedOK, n
    <2> QED
      BY <2>1, <2>2
  <1>7. LastClose \in Nat /\ close \in Nat
    <2>3. close \in Nat
      BY InferenceAssumption
    <2>1. CASE captured = <<>>
      BY <2>1, <2>3 DEF LastClose
    <2>2. CASE captured # <<>>
      BY <2>2, <2>3, <1>4 DEF LastClose, ScoreInv, IInv, WindowsOK, n
    <2> QED
      BY <2>1, <2>2, <2>3
  <1>8. ASSUME NEW i \in DOMAIN captured
        PROVE  UNION {captured'[j].evidence : j \in 1..i} = UNION {captured[j].evidence : j \in 1..i}
    <2>1. \A j \in 1..i : captured'[j] = captured[j]
      BY <1>3
    <2> QED
      BY <2>1
  <1>9. UNION {captured'[j].evidence : j \in 1..(n + 1)}
           = {e \in evidence : rounds[e.r].commit <= close}
    <2>1. UNION {captured'[j].evidence : j \in 1..(n + 1)}
             = (UNION {captured[j].evidence : j \in 1..n}) \cup w.evidence
      <3>1. \A j \in 1..n : j \in 1..(n + 1) /\ captured'[j] = captured[j]
        BY <1>3
      <3>2. \A j \in 1..(n + 1) : j \in 1..n \/ j = n + 1
        BY <1>3
      <3>3. n + 1 \in 1..(n + 1)
        BY <1>3
      <3> QED
        BY <1>3, <3>1, <3>2, <3>3
    <2>2. w.evidence = {e \in evidence : rounds[e.r].commit > LastClose /\ rounds[e.r].commit <= close}
      BY <1>2, <1>5 DEF InWindow
    <2>3. \A e \in evidence : rounds[e.r].commit <= close <=>
             \/ rounds[e.r].commit <= LastClose
             \/ rounds[e.r].commit > LastClose /\ rounds[e.r].commit <= close
      BY <1>1, <1>5, <1>7
    <2> QED
      BY <1>6, <2>1, <2>2, <2>3
  <1>10. ASSUME NEW i \in DOMAIN captured'
         PROVE  /\ UNION {captured'[j].evidence : j \in 1..i}
                      = {e \in evidence' : rounds'[e.r].commit <= captured'[i].close}
                /\ \A h \in captured'[i].snapshot :
                      h \in history' /\ rounds'[h.r].commit <= captured'[i].close
    <2>1. CASE i \in DOMAIN captured
      BY <1>1, <1>3, <1>8, <2>1 DEF ScoreInv, CapturedOK
    <2>2. CASE i \notin DOMAIN captured
      <3>1. i = n + 1 /\ captured'[i] = w
        BY <1>3, <2>2
      <3>2. \A h \in w.snapshot : h \in history /\ rounds[h.r].commit <= close
        BY <1>2 DEF snapshot_at
      <3> QED
        BY <1>1, <1>2, <1>9, <3>1, <3>2
    <2> QED
      BY <2>1, <2>2
  <1> QED
    BY <1>10 DEF CapturedOK

(* A round that begins has not committed, and changes no row.              *)
LEMMA BeginKeeps ==
    ASSUME ScoreInv, run_round
    PROVE  OrderOK' /\ RecordOK' /\ CapturedOK' /\ ComponentsWhole' /\ TrackOK'
  <1>0. UNCHANGED <<head, miners, history, evidence, captured>> /\ step.at = "idle"
    BY DEF run_round, chainVars
  <1>1. CASE UNCHANGED <<rounds, step>>
    BY <1>0, <1>1 DEF ScoreInv, OrderOK, RecordOK, MinerOK, CapturedOK, ComponentsWhole, TrackOK,
                      InRound, Committed
  <1>2. CASE ~UNCHANGED <<rounds, step>>
    <2> DEFINE row == [block |-> head, commit |-> 0, ch |-> None, sealed |-> {}]
    <2>1. /\ rounds' = Append(rounds, row)
          /\ step' = [at |-> "probe", r |-> Len(rounds) + 1, block |-> head,
                      hks |-> holder, tracks |-> planned_tracks, probed |-> {},
                      ch |-> None, anchor |-> 0, out |-> <<>>, left |-> {},
                      scores |-> <<>>, avail |-> {}, packets |-> {}, dups |-> {},
                      skipped |-> {}]
      BY <1>2 DEF run_round
    <2>2. row \in RoundRow /\ row.commit = 0 /\ rounds \in Seq(RoundRow) /\ head \in Nat
      BY DEF ScoreInv, IInv, Shape, RoundRow
    <2> HIDE DEF row
    <2>3. /\ DOMAIN rounds' = 1..(Len(rounds) + 1) /\ DOMAIN rounds = 1..Len(rounds)
          /\ Len(rounds) \in Nat /\ rounds'[Len(rounds) + 1] = row
          /\ \A i \in DOMAIN rounds : rounds'[i] = rounds[i]
      BY <2>1, <2>2, Grown
    <2>4. \A r \in DOMAIN rounds' : r \in DOMAIN rounds \/ r = Len(rounds) + 1
      BY <2>3
    <2>5. \A r : Committed(r)' <=> Committed(r)
      <3>1. DOMAIN rounds \subseteq DOMAIN rounds'
        BY <2>3
      <3> QED
        BY <2>2, <2>3, <2>4, <3>1 DEF Committed
    <2>6. OrderOK'
      <3>1. \A r \in DOMAIN rounds' : rounds'[r].commit <= head'
        BY <1>0, <2>2, <2>3, <2>4 DEF ScoreInv, OrderOK
      <3>2. \A r : Committed(r) => r \in DOMAIN rounds /\ rounds'[r] = rounds[r]
        BY <2>3 DEF Committed
      <3>3. \A q, r \in DOMAIN rounds' : q <= r /\ Committed(q)' /\ Committed(r)'
                                           => rounds'[q].commit <= rounds'[r].commit
        BY <2>5, <3>2 DEF ScoreInv, OrderOK
      <3> QED
        BY <3>1, <3>3 DEF OrderOK
    <2>7. \A e \in history \cup evidence : Committed(e.r) /\ rounds'[e.r] = rounds[e.r]
      BY <2>3 DEF ScoreInv, RecordOK, Committed
    <2>8. RecordOK'
      <3>1. ASSUME NEW e \in history \cup evidence
            PROVE  Committed(e.r)'
        <4>1. PICK q : q = e.r
          OBVIOUS
        <4>2. Committed(q)'
          BY <2>5, <2>7, <4>1
        <4> QED
          BY <1>0, <4>1, <4>2 DEF Committed
      <3>2. \A u \in Uids : MinerOK(u)'
        BY <1>0 DEF ScoreInv, RecordOK, MinerOK
      <3> QED
        BY <1>0, <3>1, <3>2 DEF ScoreInv, RecordOK, Committed
    <2>9. CapturedOK'
      <3>1. \A i \in DOMAIN captured :
               {e \in evidence : rounds'[e.r].commit <= captured[i].close}
                 = {e \in evidence : rounds[e.r].commit <= captured[i].close}
        BY <2>7
      <3> QED
        BY <1>0, <2>7, <3>1 DEF ScoreInv, CapturedOK
    <2>10. ComponentsWhole'
      BY <1>0, <2>7 DEF ScoreInv, ComponentsWhole
    <2>11. TrackOK'
      <3>1. /\ step'.at = "probe" /\ step'.packets = {} /\ step'.avail = {} /\ step'.dups = {}
            /\ step'.skipped = {} /\ step'.scores = <<>> /\ step'.r = Len(rounds) + 1
        BY <2>1
      <3>2. DOMAIN step'.scores = {}
        BY <3>1, EmptySeq
      <3>3. Tracked(step)'
        BY <3>1, <3>2 DEF Tracked, OnePerUid, Untouched
      <3>4. \A r \in DOMAIN rounds' : r <= step'.r
        BY <2>3, <3>1
      <3> QED
        BY <3>3, <3>4 DEF TrackOK
    <2> QED
      BY <2>6, <2>8, <2>9, <2>10, <2>11
  <1> QED
    BY <1>1, <1>2

(* The locals of a round, action by action.  The probe and the fetch leave *)
(* a round without results.                                                *)
LEMMA NothingYet ==
    ASSUME ScoreInv, InRound, UNCHANGED rounds, Untouched(step), DOMAIN step' = RoundFields,
           step'.at \in {"fetch", "dispatch", "commit"},
           step'.r = step.r, step'.packets = step.packets, step'.avail = step.avail,
           step'.dups = step.dups, step'.skipped = step.skipped, step'.scores = step.scores
    PROVE  TrackOK'
  <1>1. Untouched(step)' /\ step'.at # "score"
    BY DEF Untouched
  <1>2. Tracked(step)'
    BY <1>1 DEF Tracked, Untouched, OnePerUid, Decided
  <1>3. \A r \in DOMAIN rounds' : r <= step'.r
    BY DEF ScoreInv, TrackOK
  <1> QED
    BY <1>2, <1>3 DEF TrackOK

(* Nothing is known of a miner that was only probed.                       *)
LEMMA ProbeTracks ==
    ASSUME ScoreInv, _probe_warrant
    PROVE  TrackOK'
  <1>1. step.at = "probe" /\ InRound /\ UNCHANGED rounds
    BY DEF _probe_warrant, InRound, RoundStep, ledgerVars
  <1>2. DOMAIN step = RoundFields /\ Untouched(step)
    BY <1>1, RoundFacts DEF ScoreInv, TrackOK, Tracked
  <1>3. PICK a \in SUBSET Uids, t \in BOOLEAN :
           step' = [step EXCEPT !.probed = a, !.tracks = step.tracks \cup a,
                                !.at = IF t THEN "commit" ELSE "fetch"]
    BY DEF _probe_warrant
  <1>4. /\ DOMAIN step' = RoundFields /\ step'.r = step.r /\ step'.skipped = step.skipped
        /\ step'.packets = step.packets /\ step'.at \in {"fetch", "commit"}
        /\ step'.avail = step.avail /\ step'.dups = step.dups /\ step'.scores = step.scores
    BY <1>2, <1>3 DEF RoundFields
  <1> QED
    BY <1>1, <1>2, <1>4, NothingYet

(* Nor before its challenge was dispatched.                                *)
LEMMA FetchTracks ==
    ASSUME ScoreInv, _next_challenge
    PROVE  TrackOK'
  <1>1. step.at = "fetch" /\ InRound /\ UNCHANGED rounds
    BY DEF _next_challenge, InRound, ledgerVars
  <1>2. DOMAIN step = RoundFields /\ Untouched(step)
    BY <1>1, RoundFacts DEF ScoreInv, TrackOK, Tracked
  <1>3. \/ \E c, a : step' = [step EXCEPT !.at = "dispatch", !.ch = c, !.anchor = a]
        \/ step' = [step EXCEPT !.at = "commit"]
    BY DEF _next_challenge
  <1>4. /\ DOMAIN step' = RoundFields /\ step'.r = step.r /\ step'.skipped = step.skipped
        /\ step'.packets = step.packets /\ step'.at \in {"dispatch", "commit"}
        /\ step'.avail = step.avail /\ step'.dups = step.dups /\ step'.scores = step.scores
    BY <1>2, <1>3 DEF RoundFields
  <1> QED
    BY <1>1, <1>2, <1>4, NothingYet

(* An availability zero and its observation go together.                   *)
LEMMA AvailabilityIs ==
    ASSUME NEW s, DOMAIN s = RoundFields, NEW U, NEW signed, NEW z,
           z = _availability_zero(s, U, signed)
    PROVE  /\ z.hks = s.hks /\ z.left = s.left
           /\ z.avail = s.avail \cup (U \cap signed)
           /\ DOMAIN z.scores = DOMAIN s.scores \cup (U \cap signed)
           /\ \A u \in DOMAIN z.scores : z.scores[u] = IF u \in U \cap signed THEN 0 ELSE s.scores[u]
  <1>1. PICK sc, av :
           /\ z = [s EXCEPT !.scores = sc, !.avail = av]
           /\ av = s.avail \cup (U \cap signed)
           /\ sc = [u \in (DOMAIN s.scores) \cup (U \cap signed) |->
                       IF u \in U \cap signed THEN 0 ELSE s.scores[u]]
    BY DEF _availability_zero
  <1>2. z.hks = s.hks /\ z.left = s.left /\ z.avail = av /\ z.scores = sc
    BY <1>1 DEF RoundFields
  <1> QED
    BY <1>1, <1>2

(* A miner that returned nothing, a miner whose output is scored and a     *)
(* duplicate are three different miners (_dispatch_all, _dedup).           *)
LEMMA DispatchTracks ==
    ASSUME ScoreInv, _dispatch_all
    PROVE  TrackOK'
  <1>1. step.at = "dispatch" /\ InRound /\ UNCHANGED rounds
    BY DEF _dispatch_all, InRound, RoundStep, ledgerVars
  <1>2. DOMAIN step = RoundFields /\ Untouched(step) /\ step.tracks \in SUBSET Uids
    BY <1>1, RoundFacts DEF ScoreInv, TrackOK, Tracked
  <1>3. PICK out \in [step.tracks -> Outcomes] :
           LET faults == {u \in step.tracks : out[u] = "fault"}
               copies == {S \in SUBSET Returned(out) : Cardinality(S) # 1} IN
           \E g \in {faults, {}} : \E same \in copies : \E winner \in IF same = {} THEN Uids ELSE same :
              step' = [_availability_zero(step, faults, g) EXCEPT
                       !.at = "score", !.out = out, !.left = Returned(out) \ (same \ {winner}),
                       !.dups = _dedup(same, winner)]
    BY DEF _dispatch_all
  <1>4. PICK F : F = {u \in step.tracks : out[u] = "fault"}
    OBVIOUS
  <1>5. PICK same \in SUBSET Returned(out) :
           \E g \in {F, {}} : \E winner \in IF same = {} THEN Uids ELSE same :
              step' = [_availability_zero(step, F, g) EXCEPT
                       !.at = "score", !.out = out, !.left = Returned(out) \ (same \ {winner}),
                       !.dups = _dedup(same, winner)]
    BY <1>3, <1>4
  <1>6. PICK g, winner :
           step' = [_availability_zero(step, F, g) EXCEPT
                    !.at = "score", !.out = out, !.left = Returned(out) \ (same \ {winner}),
                    !.dups = _dedup(same, winner)]
    BY <1>5
  <1>7. PICK z, l, d : /\ z = _availability_zero(step, F, g)
                       /\ l = Returned(out) \ (same \ {winner}) /\ d = _dedup(same, winner)
                       /\ step' = [z EXCEPT !.at = "score", !.out = out, !.left = l, !.dups = d]
    BY <1>6
  <1>8. /\ DOMAIN z = RoundFields /\ z.r = step.r /\ z.skipped = {} /\ z.packets = {}
        /\ z.avail = F \cap g /\ DOMAIN z.scores = F \cap g
        /\ \A u \in F \cap g : z.scores[u] = 0
    BY <1>2, <1>7, AvailabilityFields, AvailabilityIs DEF Untouched
  <1>9. /\ DOMAIN step' = RoundFields /\ step'.at = "score" /\ step'.r = step.r
        /\ step'.skipped = {} /\ step'.packets = {} /\ step'.avail = z.avail
        /\ step'.scores = z.scores /\ step'.left = l /\ step'.dups = d
    BY <1>7, <1>8 DEF RoundFields
  <1>10. \A u \in F : u \in Uids /\ u \notin Returned(out)
    BY <1>2, <1>4 DEF Returned
  <1>11. \A x \in d : x.loser \in Returned(out) /\ x.loser \in same \ {winner}
    BY <1>5, <1>7 DEF _dedup
  <1>12. Scoring(step)'
    <2>1. \A u \in l : u \in Returned(out) /\ u \notin same \ {winner}
      BY <1>7
    <2>2. \A u \in l : u \notin z.avail /\ \A x \in d : x.loser # u
      BY <1>8, <1>10, <1>11, <2>1
    <2>3. \A x \in d : x.loser \notin z.avail
      BY <1>8, <1>10, <1>11
    <2> QED
      BY <1>8, <1>9, <2>2, <2>3 DEF Scoring, Without
  <1>13. Tracked(step)'
    BY <1>8, <1>9, <1>10, <1>12 DEF Tracked, OnePerUid, Without
  <1>14. \A r \in DOMAIN rounds' : r <= step'.r
    BY <1>1, <1>9 DEF ScoreInv, TrackOK
  <1> QED
    BY <1>13, <1>14 DEF TrackOK

(* Scoring takes a miner off the list, and leaves at most one packet or    *)
(* one observation for it.                                                 *)
LEMMA ScoreTracks ==
    ASSUME ScoreInv, NEW u \in Uids, _score_one(u)
    PROVE  TrackOK'
  <1>1. step.at = "score" /\ InRound /\ UNCHANGED rounds /\ u \in step.left
    BY DEF _score_one, InRound, ledgerVars
  <1>2. DOMAIN step = RoundFields /\ Tracked(step) /\ Scoring(step)
    BY <1>1, RoundFacts DEF ScoreInv, TrackOK, Tracked
  <1>3. PICK s : s = [step EXCEPT !.left = @ \ {u}]
    OBVIOUS
  <1>4. /\ DOMAIN s = RoundFields /\ s.at = step.at /\ s.r = step.r /\ s.hks = step.hks
        /\ s.skipped = step.skipped /\ s.packets = step.packets /\ s.dups = step.dups
        /\ s.scores = step.scores /\ s.avail = step.avail /\ s.left = step.left \ {u}
    BY <1>2, <1>3 DEF RoundFields
  <1>5. \/ step' = _availability_zero(s, {u}, {u})
        \/ step' = s
        \/ \E score \in {0, Full} :
              step' = [s EXCEPT !.packets = @ \cup {Packet(u, score, "packet")}]
    BY <1>3 DEF _score_one, Unarchived
  <1>6. /\ OnePerUid(step.packets) /\ \A p \in step.packets : OfRound(p, step.r, step.hks)
        /\ \A v \in step.avail : /\ v \in Uids /\ v \in DOMAIN step.scores /\ step.scores[v] = 0
                                 /\ Without(step.packets, v)
        /\ DOMAIN step.scores = step.avail /\ step.skipped = {}
        /\ \A v \in step.left : /\ v \notin step.avail /\ Without(step.packets, v)
                                /\ \A d \in step.dups : d.loser # v
        /\ \A d \in step.dups : d.loser \notin step.avail /\ Without(step.packets, d.loser)
    BY <1>2 DEF Tracked, Scoring
  <1>7. ASSUME NEW z, z = _availability_zero(s, {u}, {u})
        PROVE  Tracked(z) /\ z.at = "score" /\ z.r = step.r
    <2>1. /\ DOMAIN z = RoundFields /\ z.at = "score" /\ z.r = step.r /\ z.hks = step.hks
          /\ z.skipped = step.skipped /\ z.packets = step.packets /\ z.dups = step.dups
          /\ z.left = step.left \ {u}
      BY <1>1, <1>4, <1>7, AvailabilityFields, AvailabilityIs
    <2>2. /\ z.avail = step.avail \cup {u} /\ DOMAIN z.scores = step.avail \cup {u}
          /\ \A v \in DOMAIN z.scores : z.scores[v] = IF v = u THEN 0 ELSE step.scores[v]
      <3>1. {u} \cap {u} = {u}
        OBVIOUS
      <3> QED
        BY <1>4, <1>6, <1>7, <3>1, AvailabilityIs
    <2>3. Scoring(z)
      BY <1>1, <1>6, <2>1, <2>2 DEF Scoring
    <2> QED
      BY <1>1, <1>6, <2>1, <2>2, <2>3 DEF Tracked
  <1>8. ASSUME NEW z, z = s
        PROVE  Tracked(z) /\ z.at = "score" /\ z.r = step.r
    <2>1. Scoring(z)
      BY <1>4, <1>6, <1>8 DEF Scoring
    <2> QED
      BY <1>1, <1>4, <1>6, <1>8, <2>1 DEF Tracked
  <1>9. ASSUME NEW score, NEW z, z = [s EXCEPT !.packets = @ \cup {Packet(u, score, "packet")}]
        PROVE  Tracked(z) /\ z.at = "score" /\ z.r = step.r
    <2>1. PICK q : q = Packet(u, score, "packet")
      OBVIOUS
    <2>2. q.uid = u /\ q.r = step.r /\ q.hk = step.hks[u]
      BY <2>1 DEF Packet
    <2>3. z = [s EXCEPT !.packets = step.packets \cup {q}]
      BY <1>4, <1>9, <2>1
    <2>4. /\ z.at = "score" /\ z.r = step.r /\ z.hks = step.hks
          /\ z.skipped = step.skipped /\ z.packets = step.packets \cup {q} /\ z.dups = step.dups
          /\ z.left = step.left \ {u} /\ z.avail = step.avail /\ z.scores = step.scores
      BY <1>1, <1>4, <2>3 DEF RoundFields
    <2>5. OnePerUid(z.packets) /\ \A p \in z.packets : OfRound(p, z.r, z.hks)
      BY <1>1, <1>6, <2>2, <2>4 DEF OnePerUid, OfRound, Without
    <2>6. \A v \in Uids : v # u /\ Without(step.packets, v) => Without(z.packets, v)
      BY <2>2, <2>4 DEF Without
    <2>7. Scoring(z)
      BY <1>1, <1>6, <2>2, <2>4 DEF Scoring, Without
    <2> QED
      BY <1>1, <1>6, <2>4, <2>5, <2>6, <2>7 DEF Tracked
  <1>10. PICK z : z = step'
    OBVIOUS
  <1>11. Tracked(z) /\ z.at = "score" /\ z.r = step.r
    BY <1>5, <1>7, <1>8, <1>9, <1>10
  <1>12. Tracked(step)' /\ step'.r = step.r
    BY <1>10, <1>11 DEF Tracked, Scoring, Untouched, Decided
  <1> QED
    BY <1>1, <1>12 DEF ScoreInv, TrackOK

(* Proximity and shares rewrite the score of a packet, never its miner, so *)
(* a slot still has at most one packet.                                    *)
Rewrites(P, Q) ==
    \A p \in P : \E q \in Q : p.uid = q.uid /\ p.r = q.r /\ p.hk = q.hk

LEMMA ProximityIs ==
    ASSUME NEW P, \A p \in P : DOMAIN p = PacketFields, OnePerUid(P), NEW flagged, NEW archived,
           NEW P1, P1 = SourceProximity(P, flagged, archived)
    PROVE  OnePerUid(P1) /\ Rewrites(P1, P) /\ \A p \in P1 : DOMAIN p = PacketFields
  <1>1. PICK pin : pin = scoring_pin(proc)
    OBVIOUS
  <1> DEFINE Zeroed(q) == [q EXCEPT !.score = 0, !.scorer = pin]
  <1>2. ASSUME NEW p \in P1
        PROVE  \/ p \in P /\ p.uid \notin flagged
               \/ \E q \in P : q.uid \in flagged /\ p = Zeroed(q)
    BY <1>1 DEF SourceProximity
  <1>3. ASSUME NEW q \in P
        PROVE  /\ Zeroed(q).uid = q.uid /\ Zeroed(q).r = q.r /\ Zeroed(q).hk = q.hk
               /\ DOMAIN Zeroed(q) = PacketFields
    BY DEF PacketFields
  <1> HIDE DEF Zeroed
  <1>4. Rewrites(P1, P) /\ \A p \in P1 : DOMAIN p = PacketFields
    BY <1>2, <1>3 DEF Rewrites
  <1>5. ASSUME NEW a \in P1, NEW b \in P1, a.uid = b.uid
        PROVE  a = b
    <2>1. CASE a.uid \notin flagged
      BY <1>2, <1>3, <1>5, <2>1 DEF OnePerUid
    <2>2. CASE a.uid \in flagged
      <3>1. PICK qa \in P : a = Zeroed(qa)
        BY <1>2, <2>2
      <3>2. PICK qb \in P : b = Zeroed(qb)
        BY <1>2, <1>5, <2>2
      <3>3. qa = qb
        BY <1>3, <1>5, <3>1, <3>2 DEF OnePerUid
      <3> QED
        BY <3>1, <3>2, <3>3
    <2> QED
      BY <2>1, <2>2
  <1> QED
    BY <1>4, <1>5 DEF OnePerUid

(* The packets of a component are all shares, or gone.                     *)
LEMMA SharesIs ==
    ASSUME NEW P, \A p \in P : DOMAIN p = PacketFields, OnePerUid(P), NEW comp, NEW archived,
           \A u \in comp : \E p \in P : p.uid = u,
           NEW P2, P2 = ContentShares(P, comp, archived)
    PROVE  /\ OnePerUid(P2) /\ Rewrites(P2, P)
           /\ \A p \in P2 : p.uid \in comp => p.kind = "share" /\ comp \subseteq archived
           /\ comp \subseteq archived =>
                 \A u \in comp : \E q \in P2 : q.uid = u /\ q.kind = "share"
  <1>1. PICK pin : pin = scoring_pin(proc)
    OBVIOUS
  <1> DEFINE Share(q) == [q EXCEPT !.score = 1, !.kind = "share", !.scorer = pin]
  <1>2. ASSUME NEW p \in P2
        PROVE  \/ p \in P /\ p.uid \notin comp
               \/ \E q \in P : q.uid \in comp /\ comp \subseteq archived /\ p = Share(q)
    BY <1>1 DEF ContentShares
  <1>3. ASSUME NEW q \in P
        PROVE  /\ Share(q).uid = q.uid /\ Share(q).r = q.r /\ Share(q).hk = q.hk
               /\ Share(q).kind = "share"
    BY DEF PacketFields
  <1>4. ASSUME NEW q \in P, q.uid \in comp, comp \subseteq archived
        PROVE  Share(q) \in P2
    BY <1>1, <1>4 DEF ContentShares
  <1> HIDE DEF Share
  <1>5. Rewrites(P2, P)
    BY <1>2, <1>3 DEF Rewrites
  <1>6. \A p \in P2 : p.uid \in comp => p.kind = "share" /\ comp \subseteq archived
    BY <1>2, <1>3
  <1>7. comp \subseteq archived => \A u \in comp : \E q \in P2 : q.uid = u /\ q.kind = "share"
    BY <1>3, <1>4
  <1>8. ASSUME NEW a \in P2, NEW b \in P2, a.uid = b.uid
        PROVE  a = b
    <2>1. CASE a.uid \notin comp
      BY <1>2, <1>3, <1>8, <2>1 DEF OnePerUid
    <2>2. CASE a.uid \in comp
      <3>1. PICK qa \in P : a = Share(qa)
        BY <1>2, <2>2
      <3>2. PICK qb \in P : b = Share(qb)
        BY <1>2, <1>8, <2>2
      <3>3. qa = qb
        BY <1>3, <1>8, <3>1, <3>2 DEF OnePerUid
      <3> QED
        BY <3>1, <3>2, <3>3
    <2> QED
      BY <2>1, <2>2
  <1> QED
    BY <1>5, <1>6, <1>7, <1>8 DEF OnePerUid

(* A duplicate's packet is of its loser.                                   *)
LEMMA DuplicatesAre ==
    ASSUME NEW dups, NEW archived, NEW D, D = DuplicatePackets(dups, archived)
    PROVE  /\ OnePerUid(D)
           /\ \A p \in D : /\ OfRound(p, step.r, step.hks)
                           /\ \E d \in dups : p.uid = d.loser
  <1>1. ASSUME NEW p \in D
        PROVE  \E d \in dups : p = Packet(d.loser, 0, "dup")
    BY DEF DuplicatePackets
  <1>2. \A u : LET p == Packet(u, 0, "dup") IN p.uid = u /\ p.r = step.r /\ p.hk = step.hks[u]
    BY DEF Packet
  <1>3. ASSUME NEW p \in D
        PROVE  OfRound(p, step.r, step.hks) /\ \E d \in dups : p.uid = d.loser
    BY <1>1, <1>2 DEF OfRound
  <1>4. ASSUME NEW a \in D, NEW b \in D, a.uid = b.uid
        PROVE  a = b
    <2>1. PICK d \in dups : a = Packet(d.loser, 0, "dup")
      BY <1>1
    <2>2. PICK e \in dups : b = Packet(e.loser, 0, "dup")
      BY <1>1
    <2>3. d.loser = e.loser
      BY <1>2, <1>4, <2>1, <2>2
    <2> QED
      BY <2>1, <2>2, <2>3
  <1> QED
    BY <1>3, <1>4 DEF OnePerUid

(* The score of a slot is that of its packet.                              *)
LEMMA ScoredIs ==
    ASSUME NEW P, OnePerUid(P)
    PROVE  /\ DOMAIN Scored(P) = {p.uid : p \in P}
           /\ \A p \in P : Scored(P)[p.uid] = p.score
  <1>1. DOMAIN Scored(P) = {p.uid : p \in P}
    BY DEF Scored
  <1>2. ASSUME NEW p \in P
        PROVE  Scored(P)[p.uid] = p.score
    <2>1. PICK u : u = p.uid
      OBVIOUS
    <2>2. (CHOOSE q \in P : q.uid = u) = p
      BY <2>1 DEF OnePerUid
    <2>3. Scored(P)[u] = (CHOOSE q \in P : q.uid = u).score
      BY <2>1 DEF Scored
    <2> QED
      BY <2>1, <2>2, <2>3
  <1> QED
    BY <1>1, <1>2

(* What the rest of the track leaves: one packet or one observation a slot. *)
LEMMA FinishTracks ==
    ASSUME ScoreInv, FinishTrack
    PROVE  TrackOK'
  <1>1. step.at = "score" /\ InRound /\ UNCHANGED rounds
    BY DEF FinishTrack, InRound, RoundStep, ledgerVars
  <1>2. /\ DOMAIN step = RoundFields /\ Tracked(step) /\ Scoring(step)
        /\ \A p \in step.packets : DOMAIN p = PacketFields
    BY <1>1, RoundFacts DEF ScoreInv, TrackOK, Tracked, Pinned
  <1>3. /\ OnePerUid(step.packets) /\ \A p \in step.packets : OfRound(p, step.r, step.hks)
        /\ \A v \in step.avail : /\ v \in Uids /\ v \in DOMAIN step.scores /\ step.scores[v] = 0
                                 /\ Without(step.packets, v)
        /\ DOMAIN step.scores = step.avail
        /\ \A d \in step.dups : d.loser \notin step.avail /\ Without(step.packets, d.loser)
    BY <1>2 DEF Tracked, Scoring
  <1>4. PICK flagged \in SUBSET {p.uid : p \in Positive(step.packets)}, archived \in SUBSET Uids :
           \E comp \in {{}} \cup
                        (IF Cardinality({p.uid : p \in Positive(
                               SourceProximity(step.packets, flagged, archived))}) > 1
                         THEN {{p.uid : p \in Positive(
                               SourceProximity(step.packets, flagged, archived))}} ELSE {}) :
              step' = Finished(SourceProximity(step.packets, flagged, archived), comp, archived)
    BY Zenon DEF FinishTrack, Finished
  <1>5. PICK P1 : P1 = SourceProximity(step.packets, flagged, archived)
    OBVIOUS
  <1>6. PICK alike : alike = {p.uid : p \in Positive(P1)}
    OBVIOUS
  <1>7. PICK comp \in {{}, alike} : step' = Finished(P1, comp, archived)
    BY <1>4, <1>5, <1>6
  <1>8. \A u \in comp : \E p \in P1 : p.uid = u
    BY <1>6, <1>7 DEF Positive
  <1>9. PICK P2, D, P3 : /\ P2 = ContentShares(P1, comp, archived)
                         /\ D = DuplicatePackets(step.dups, archived)
                         /\ P3 = P2 \cup D
    OBVIOUS
  <1>10. PICK sc : sc = [u \in (DOMAIN step.scores) \cup DOMAIN Scored(P3) |->
                          IF u \in DOMAIN Scored(P3) THEN Scored(P3)[u] ELSE step.scores[u]]
    OBVIOUS
  <1>11. step' = [step EXCEPT !.at = "commit", !.packets = P3, !.skipped = comp,
                              !.out = <<>>, !.dups = {}, !.scores = sc]
    BY <1>7, <1>9, <1>10 DEF Finished
  <1>12. /\ step'.at = "commit" /\ step'.r = step.r /\ step'.hks = step.hks
         /\ step'.packets = P3 /\ step'.skipped = comp /\ step'.scores = sc
         /\ step'.avail = step.avail
    BY <1>2, <1>11 DEF RoundFields
  <1>13. OnePerUid(P1) /\ Rewrites(P1, step.packets) /\ \A p \in P1 : DOMAIN p = PacketFields
    BY <1>2, <1>3, <1>5, ProximityIs
  <1>14. /\ OnePerUid(P2) /\ Rewrites(P2, P1)
         /\ \A p \in P2 : p.uid \in comp => p.kind = "share" /\ comp \subseteq archived
         /\ comp \subseteq archived =>
               \A u \in comp : \E q \in P2 : q.uid = u /\ q.kind = "share"
    BY <1>8, <1>9, <1>13, SharesIs
  <1>15. /\ OnePerUid(D)
         /\ \A p \in D : OfRound(p, step.r, step.hks) /\ \E d \in step.dups : p.uid = d.loser
    BY <1>9, DuplicatesAre
  <1>16. \A p \in P2 : \E q \in step.packets : p.uid = q.uid /\ p.r = q.r /\ p.hk = q.hk
    BY <1>13, <1>14 DEF Rewrites
  <1>17. \A u \in comp : \E q \in step.packets : u = q.uid
    BY <1>8, <1>13 DEF Rewrites
  <1>18. \A p \in D : p.uid \notin step.avail /\ \A q \in step.packets : q.uid # p.uid
    BY <1>3, <1>15 DEF Without
  <1>19. OnePerUid(P3)
    BY <1>9, <1>14, <1>15, <1>16, <1>18 DEF OnePerUid
  <1>20. \A p \in P3 : OfRound(p, step.r, step.hks) /\ p.uid \notin step.avail
    BY <1>3, <1>9, <1>15, <1>16, <1>18 DEF OfRound, Without
  <1>21. /\ DOMAIN Scored(P3) = {p.uid : p \in P3}
         /\ \A p \in P3 : Scored(P3)[p.uid] = p.score
    BY <1>19, ScoredIs
  <1>22. /\ DOMAIN sc = step.avail \cup {p.uid : p \in P3}
         /\ \A p \in P3 : sc[p.uid] = p.score
         /\ \A u \in step.avail : sc[u] = 0
    BY <1>3, <1>10, <1>20, <1>21
  <1>23. \A u \in step.avail : u \notin comp
    BY <1>3, <1>17 DEF Without
  <1>24. \A p \in P3 : p.uid \in comp =>
            /\ p.kind = "share"
            /\ \A u \in comp : \E q \in P3 : q.uid = u /\ q.kind = "share"
    BY <1>9, <1>14, <1>17, <1>18
  <1>25. Decided(step)'
    BY <1>12, <1>22, <1>23, <1>24 DEF Decided, Without
  <1>26. Tracked(step)'
    <2>1. \A u \in step'.avail : /\ u \in Uids /\ u \in DOMAIN step'.scores /\ step'.scores[u] = 0
                                 /\ Without(step'.packets, u)
      BY <1>3, <1>12, <1>20, <1>22 DEF Without
    <2> QED
      BY <1>12, <1>19, <1>20, <1>25, <2>1 DEF Tracked
  <1> QED
    BY <1>1, <1>12, <1>26 DEF ScoreInv, TrackOK

(* Commit heights are numbers.                                             *)
LEMMA CommitHeights ==
    ASSUME rounds \in Seq(RoundRow)
    PROVE  \A r \in DOMAIN rounds : rounds[r].commit \in Nat
  <1>1. \A r \in DOMAIN rounds : rounds[r] \in RoundRow
    BY ElementOfSeq, LenProperties
  <1> QED
    BY <1>1 DEF RoundRow

(* A step that touches none of the record, the windows or the round.       *)
LEMMA LedgerFrame ==
    ASSUME ScoreInv, UNCHANGED <<rounds, miners, history, evidence, captured>>,
           head' \in Nat, head' >= head
    PROVE  OrderOK' /\ RecordOK' /\ CapturedOK' /\ ComponentsWhole'
  <1>1. OrderOK'
    <2>1. rounds \in Seq(RoundRow) /\ head \in Nat
      BY DEF ScoreInv, IInv, Shape
    <2>2. \A r \in DOMAIN rounds : rounds[r].commit \in Nat
      BY <2>1, CommitHeights
    <2> QED
      BY <2>1, <2>2 DEF ScoreInv, OrderOK, Committed
  <1>2. RecordOK'
    BY DEF ScoreInv, RecordOK, MinerOK, Committed
  <1>3. CapturedOK' /\ ComponentsWhole'
    BY DEF ScoreInv, CapturedOK, ComponentsWhole
  <1> QED
    BY <1>1, <1>2, <1>3

(* Every action keeps the round's results apart.                           *)
LEMMA TrackStep ==
    ASSUME ScoreInv, Next
    PROVE  TrackOK'
  <1>1. CASE UNCHANGED <<step, rounds>>
    BY <1>1 DEF ScoreInv, TrackOK, InRound, Tracked, Untouched, Scoring, Decided
  <1>2. CASE step'.at \in {"idle", "boot", "drain", "sweep"}
    BY <1>2 DEF TrackOK, InRound
  <1>3. CASE run_round
    BY <1>3, BeginKeeps
  <1>4. CASE \/ _probe_warrant \/ _next_challenge \/ _dispatch_all \/ FinishTrack
             \/ (\E u \in Uids : _score_one(u))
    BY <1>4, ProbeTracks, FetchTracks, DispatchTracks, ScoreTracks, FinishTracks
  <1>5. CASE Boot \/ Restart \/ sweep_orphaned_challenges \/ commit_round \/ RoundFails
    BY <1>2, <1>5 DEF Boot, Restart, sweep_orphaned_challenges, commit_round, RoundFails,
                      StartDrain, Idle
  <1>6. ASSUME NEW next \in {"idle", "sweep"}, Drain(next) PROVE TrackOK'
    <2>1. CASE step.todo = {}
      <3>1. step'.at \in {"idle", "sweep"}
        BY <1>6, <2>1 DEF Drain, Idle
      <3> QED
        BY <1>2, <3>1
    <2>2. CASE step.todo # {}
      <3>1. PICK c : step' = [step EXCEPT !.todo = step.todo \ {c}]
        BY <1>6, <2>2, DrainTakes DEF ScoreInv
      <3>2. step.at = "drain" /\ DOMAIN step = {"at", "next", "todo"}
        BY <1>6 DEF Drain, ScoreInv, IInv, DrainOK
      <3>3. step'.at = "drain"
        BY <3>1, <3>2
      <3> QED
        BY <1>2, <3>3
    <2> QED
      BY <2>1, <2>2
  <1>7. ASSUME NEW c, Disown(c) PROVE TrackOK'
    BY <1>1, <1>7 DEF Disown, ledgerVars
  <1>8. CASE \/ (\E u \in Uids : SwapHotkey(u))
             \/ (\E close \in 1..MaxHead : capture_epoch_inputs(close))
             \/ AdvanceHead \/ ReplaceWorker
    BY <1>1, <1>8 DEF SwapHotkey, capture_epoch_inputs, AdvanceHead, ReplaceWorker, ledgerVars
  <1> QED
    BY <1>3, <1>4, <1>5, <1>6, <1>7, <1>8 DEF Next

(* Every action keeps the record accounted for.                            *)
LEMMA AccountStep ==
    ASSUME ScoreInv, Next
    PROVE  OrderOK' /\ RecordOK' /\ CapturedOK' /\ ComponentsWhole'
  <1>0. head \in Nat
    BY DEF ScoreInv, IInv, Shape
  <1>1. CASE UNCHANGED <<head, rounds, miners, history, evidence, captured>>
    BY <1>0, <1>1, LedgerFrame
  <1>2. CASE run_round
    BY <1>2, BeginKeeps
  <1>3. CASE commit_round
    BY <1>3, CommitOrder, CommitRecord, CommitCaptured, CommitComponents
  <1>4. ASSUME NEW close \in 1..MaxHead, capture_epoch_inputs(close)
        PROVE  OrderOK' /\ RecordOK' /\ CapturedOK' /\ ComponentsWhole'
    <2>1. UNCHANGED <<head, rounds, miners, history, evidence>>
      BY <1>4 DEF capture_epoch_inputs, chainVars, ledgerVars
    <2>2. OrderOK' /\ RecordOK' /\ ComponentsWhole'
      BY <2>1 DEF ScoreInv, OrderOK, RecordOK, MinerOK, Committed, ComponentsWhole
    <2> QED
      BY <1>4, <2>2, CaptureKeeps
  <1>5. CASE AdvanceHead
    <2>1. /\ head' = head + 1 /\ UNCHANGED <<rounds, miners, history, evidence, captured>>
      BY <1>5 DEF AdvanceHead, ledgerVars
    <2>2. head' \in Nat /\ head' >= head
      BY <1>0, <2>1
    <2> QED
      BY <2>1, <2>2, LedgerFrame
  <1>6. CASE Boot \/ Drain("idle") \/ Drain("sweep") \/ sweep_orphaned_challenges
    BY <1>1, <1>6 DEF Boot, Drain, sweep_orphaned_challenges, chainVars, ledgerVars
  <1>7. CASE _probe_warrant \/ _next_challenge \/ _dispatch_all
    BY <1>1, <1>7 DEF _probe_warrant, _next_challenge, _dispatch_all, RoundStep, chainVars,
                      ledgerVars
  <1>8. CASE (\E u \in Uids : _score_one(u)) \/ FinishTrack \/ RoundFails
    BY <1>1, <1>8 DEF _score_one, FinishTrack, RoundFails, RoundStep, chainVars, ledgerVars
  <1>9. CASE \/ (\E u \in Uids : SwapHotkey(u)) \/ ReplaceWorker
             \/ (\E c \in DOMAIN svc : Disown(c)) \/ Restart
    BY <1>1, <1>9 DEF SwapHotkey, ReplaceWorker, Disown, Restart, chainVars, ledgerVars
  <1> QED
    BY <1>2, <1>3, <1>4, <1>5, <1>6, <1>7, <1>8, <1>9 DEF Next

LEMMA InitScores ==
    Init => ScoreInv
  <1> SUFFICES ASSUME Init PROVE ScoreInv
    OBVIOUS
  <1>1. IInv
    BY InitInv
  <1>2. /\ rounds = <<>> /\ captured = <<>> /\ history = {} /\ evidence = {}
        /\ miners = [u \in Uids |-> NoRow] /\ step = [at |-> "boot"] /\ DOMAIN <<>> = {}
    BY EmptySeq DEF Init
  <1>3. OrderOK /\ CapturedOK /\ ComponentsWhole
    BY <1>2 DEF OrderOK, CapturedOK, ComponentsWhole
  <1>4. RecordOK
    BY <1>2 DEF RecordOK, MinerOK, NoRow
  <1>5. TrackOK
    BY <1>2 DEF TrackOK, InRound
  <1> QED
    BY <1>1, <1>3, <1>4, <1>5 DEF ScoreInv

LEMMA StepScores ==
    ScoreInv /\ [Next]_vars => ScoreInv'
  <1> SUFFICES ASSUME ScoreInv, [Next]_vars PROVE ScoreInv'
    OBVIOUS
  <1>1. IInv'
    BY StepInv DEF ScoreInv
  <1>2. CASE Next
    BY <1>1, <1>2, TrackStep, AccountStep DEF ScoreInv
  <1>3. CASE UNCHANGED vars
    <2>1. UNCHANGED <<head, rounds, miners, history, evidence, captured, step>>
      BY <1>3 DEF vars
    <2>2. OrderOK' /\ RecordOK' /\ CapturedOK' /\ ComponentsWhole'
      BY <2>1 DEF ScoreInv, OrderOK, RecordOK, MinerOK, Committed, CapturedOK, ComponentsWhole
    <2>3. TrackOK'
      BY <2>1 DEF ScoreInv, TrackOK, InRound, Tracked, Untouched, Scoring, Decided
    <2> QED
      BY <1>1, <2>2, <2>3 DEF ScoreInv
  <1> QED
    BY <1>2, <1>3

LEMMA ScoreInvariance ==
    Spec => []ScoreInv
  BY InitScores, StepScores, PTL DEF Spec

(* The evidence of the captured windows is, for a row captured with them,  *)
(* all the evidence: what it folds committed no later than the row itself. *)
LEMMA SnapshotFolds ==
    ASSUME ScoreInv, NEW i \in DOMAIN captured, NEW h \in captured[i].snapshot
    PROVE  FoldsExactly(h, UNION {captured[j].evidence : j \in 1..i})
  <1>1. PICK E : E = UNION {captured[j].evidence : j \in 1..i}
    OBVIOUS
  <1>2. E = {e \in evidence : rounds[e.r].commit <= captured[i].close}
    BY <1>1 DEF ScoreInv, CapturedOK
  <1>3. h \in history /\ rounds[h.r].commit <= captured[i].close
    BY DEF ScoreInv, CapturedOK
  <1>4. /\ Committed(h.r) /\ \A e \in evidence : Committed(e.r)
        /\ Lists(h.acc, After(h, history, evidence))
    BY <1>3 DEF ScoreInv, RecordOK
  <1>5. captured[i].close \in Nat /\ rounds \in Seq(RoundRow)
    BY DEF ScoreInv, IInv, WindowsOK, Shape
  <1>6. \A r \in DOMAIN rounds : rounds[r].commit \in Nat
    BY <1>5, CommitHeights
  <1>7. \A e \in evidence : e.r <= h.r => rounds[e.r].commit <= rounds[h.r].commit
    BY <1>4 DEF ScoreInv, OrderOK, Committed
  <1>8. \A e \in evidence : e.r <= h.r => e \in E
    BY <1>2, <1>3, <1>4, <1>5, <1>6, <1>7 DEF Committed
  <1>9. After(h, history, E) = After(h, history, evidence)
    BY <1>2, <1>8 DEF After
  <1> QED
    BY <1>1, <1>4, <1>9, ListsFold

(***************************************************************************)
(* Scores are accounted for, whatever restarts, changes of hotkey and      *)
(* failing archives: every accumulator, and every captured snapshot of     *)
(* one, is the fold, in round order, of the evidence on record for the     *)
(* slot's holder, and a shared score is shared by all the members          *)
(* (commit_round, sync_neurons, accumulate, capture_epoch_inputs,          *)
(* _apply_content_duplicates).                                             *)
(***************************************************************************)
THEOREM ScoresAccountedCorrect ==
    Spec => []ScoresAccounted
  <1>1. ScoreInv => ScoresAccounted
    <2> SUFFICES ASSUME ScoreInv PROVE ScoresAccounted
      OBVIOUS
    <2>1. \A h \in history : FoldsExactly(h, evidence)
      BY ListsFold DEF ScoreInv, RecordOK
    <2>2. FoldMatchesEvidence
      BY <2>1, SnapshotFolds DEF FoldMatchesEvidence
    <2> QED
      BY <2>2 DEF ScoreInv, ScoresAccounted
  <1> QED
    BY <1>1, ScoreInvariance, PTL
=============================================================================
