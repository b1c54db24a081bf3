--------------------------- MODULE CompetitionProofs ---------------------------
(***************************************************************************)
(* Proofs about Competition, for any number of contenders, of parallel     *)
(* batches and requeues, and of faults, interventions and restarts.        *)
(*                                                                         *)
(* The commitment: while no root is recorded, an open claim is over the    *)
(* only payload that was written, and without a claim nothing was          *)
(* (ClaimOK, RequestOK).  The matrix: sessions are never reused, so a      *)
(* runner whose session is the bound one has been there since the binding; *)
(* a binding made in EVALUATING begins a floor with no outputs, so that    *)
(* the outputs of the floor are of the bound session or a later one        *)
(* (OutputsOK), and when batches may run they are of the runner's own      *)
(* session, or the runner can execute nothing (EvaluationOK).              *)
(***************************************************************************)
EXTENDS Competition, FiniteSetTheorems, WellFoundedInduction, TLAPS

Early    == {"SCHEDULED", "ENROLLING", "FINALIZING", "VALIDATING", "BUILDING", "EVALUATING"}
Phases   == Early \cup {"SCORING", "AWAITING"} \cup Terminal
Awaits   == {"idle", "inject", "archive", "restore", "fenced", "build", "probe", "eval", "score",
             "scored"}
Output   == [at : Nat, ran : Nat, sess : Nat]
Settled  == {"COMPLETED", "FAILED"}

Record   == [phase : Phases, root : Nat \cup {None}, item : BOOLEAN, halted : BOOLEAN,
             finalAt : Nat, endAt : Nat, reviewAt : Nat]
Statuses == {"ABSENT", "ENROLLED", "ACCEPTED", "REJECTED", "BUILT", "BUILD_FAILED"}
Rows     == {"NONE", "PENDING", "RUNNING", "REQUEUED"} \cup Settled
Runner   == [sess : Nat \cup {None}, env : Nat, live : SUBSET Subjects, probed : SUBSET Subjects]
Handler  == [at : Awaits, c : Nat, todo : SUBSET Subjects, phase : {"", "BUILDING", "EVALUATING"},
             sess : Nat \cup {None}, floor : Nat, ok : BOOLEAN]
Request  == [at : {"none", "write", "receipt"}, payload : Nat \cup {None}]
Claim    == [payload : Nat, at : Nat]
Ledger   == [landed : SUBSET Nat, pending : Nat \cup {None}, count : Nat]

(* The types of the rows, of the runner and of the handlers' locals.       *)
Shape ==
    /\ comp \in Record
    /\ st \in [Subjects -> Statuses] /\ row \in [Subjects -> Rows]
    /\ floor \in Nat /\ floor # 0
    /\ outs \in [Subjects -> Output \cup {None}] /\ score \in [Subjects -> Output \cup {None}]
    /\ fault \in [Subjects -> Nat]
    /\ bound \in Nat \cup {None} /\ nsess \in Nat /\ envelope \in Nat
    /\ run \in Runner /\ step \in Handler /\ flight \in SUBSET [c : Subjects, floor : Nat]
    /\ req \in Request /\ claim \in Claim \cup {None} /\ chain \in Ledger
    /\ params \in Nat /\ clock \in Nat

-----------------------------------------------------------------------------
(* The commitment.                                                         *)

Untouched == chain.landed = {} /\ chain.pending = None /\ chain.count = 0

(* What was written is the payload p, once.                                *)
OnlyWrote(p) ==
    /\ chain.landed \subseteq {p} /\ chain.pending \in {None, p}
    /\ chain.count + (IF chain.pending = None THEN 0 ELSE 1) <= 1
    /\ chain.landed = {} => chain.count = 0

ClaimOK ==
    /\ comp.root = None => IF claim = None THEN Untouched ELSE OnlyWrote(claim.payload)
    /\ comp.root # None => claim = None /\ comp.root \in chain.landed /\ OnlyWrote(comp.root)

RequestOK ==
    /\ req.at # "none" => comp.root = None /\ claim # None /\ claim.payload = req.payload
    /\ req.at = "write" => Untouched

RootOK == comp.phase \notin {"SCHEDULED", "FAILED", "CANCELLED"} => comp.root # None

-----------------------------------------------------------------------------
(* The handler and the phase it works for.                                 *)

PhaseOf ==
    /\ step.at = "inject" => comp.phase = "FINALIZING"
    /\ step.at = "archive" => comp.phase \in {"FINALIZING", "FAILED"}
    /\ step.at \in {"restore", "fenced"} =>
          step.phase \in {"BUILDING", "EVALUATING"} /\ comp.phase \in {step.phase, "FAILED"}
    /\ step.at \in {"build", "probe"} => comp.phase \in {"BUILDING", "FAILED"}
    /\ step.at = "eval" => comp.phase \in {"EVALUATING", "FAILED"}
    /\ step.at \in {"score", "scored"} => comp.phase \in {"SCORING", "FAILED"}
    /\ step.at \in {"archive", "build", "probe", "score"} => step.c \in Subjects
    /\ step.at \notin {"restore", "fenced"} => step.phase = ""

(* The handler is between the fence and the end of an evaluation.          *)
Evaluating ==
    \/ step.at = "eval"
    \/ step.at = "fenced" /\ step.phase = "EVALUATING"

(* The baseline is part of what is evaluated and scored.                   *)
BaselineOK ==
    /\ \/ comp.phase \in {"SCORING", "AWAITING"} \/ Evaluating
       \/ step.at = "restore" /\ step.phase = "EVALUATING"
       => st[Base] = "BUILT"
    /\ comp.phase = "COMPLETED" => score[Base] # None

-----------------------------------------------------------------------------
(* The matrix.                                                             *)

(* Scores come after the last reset, outputs after the last build.         *)
NoScoresYet ==
    \/ comp.phase \in Early
    \/ step.at \in {"inject", "archive", "restore", "fenced", "build", "probe", "eval"}
    => \A c \in Subjects : score[c] = None

NoOutputsYet ==
    \/ comp.phase \in Early \ {"EVALUATING"}
    \/ step.at \in {"inject", "archive", "build", "probe"} \/ step.phase = "BUILDING"
    => \A c \in Subjects : outs[c] = None

(* Subject c has an output of the present floor.                           *)
Current(c) == outs[c] # None /\ outs[c].at = floor

(* A session is the newest one or gone.                                    *)
RunOK ==
    /\ run.sess # None => run.sess = nsess
    /\ run.sess = None => run.live = {} /\ run.probed = {}
    /\ bound # None => bound <= nsess
    /\ step.at = "restore" => step.sess # None /\ step.sess <= nsess
    /\ Evaluating => bound # None

OutputsOK ==
    /\ \A c \in Subjects : outs[c] # None =>
          outs[c].ran = outs[c].at /\ outs[c].at <= floor /\ outs[c].sess <= nsess
    /\ \A c \in Subjects : Current(c) => bound # None /\ bound <= outs[c].sess
    /\ \A c, d \in Subjects : Current(c) /\ Current(d) => outs[c].sess = outs[d].sess

EvaluationOK ==
    /\ flight # {} => step.at = "eval"
    /\ Evaluating => run.probed = {} \/ \A c \in Subjects : Current(c) => outs[c].sess = run.sess

RowsOK ==
    /\ \A c \in Subjects : row[c] = "COMPLETED" => Current(c)
    /\ \A c \in Subjects : row[c] = "FAILED" => fault[c] = floor
    /\ comp.phase = "SCORING" \/ step.at \in {"score", "scored"} =>
          \A c \in Subjects : st[c] = "BUILT" => row[c] \in Settled

(* A score is the output of the floor, or a zero of the subject's making.  *)
ScoresOK ==
    \A c \in Subjects :
        /\ score[c] = Zero => fault[c] = floor
        /\ score[c] \notin {None, Zero} => Current(c) /\ score[c] = outs[c]

IInv == /\ Shape
        /\ ClaimOK /\ RequestOK /\ RootOK
        /\ PhaseOf /\ BaselineOK /\ NoScoresYet /\ NoOutputsYet
        /\ RunOK /\ OutputsOK /\ EvaluationOK /\ RowsOK /\ ScoresOK

-----------------------------------------------------------------------------
(* Facts about the operators.                                              *)

(* A non-empty set of numbers has a least element (well-foundedness).      *)
LEMMA LeastExists ==
    ASSUME NEW S \in SUBSET Nat, S # {}
    PROVE  \E x \in S : \A y \in S : x <= y
  <1>1. PICK x \in S : \A y \in S : ~(<<y, x>> \in OpToRel(<, Nat))
    BY NatLessThanWellFounded, WFMin
  <1>2. \A y \in S : ~(y < x)
    BY <1>1 DEF OpToRel
  <1> QED
    BY <1>2

(* The next subject of a list is one of the list.                          *)
LEMMA MinOf ==
    ASSUME NEW S \in SUBSET Subjects, S # {}
    PROVE  Min(S) \in S /\ Min(S) \in Subjects
  <1>1. S \in SUBSET Nat
    BY CompetitionAssumption DEF Subjects
  <1>2. \E x \in S : \A y \in S : x <= y
    BY <1>1, LeastExists
  <1>3. Min(S) \in S
    BY <1>2 DEF Min
  <1> QED
    BY <1>3

(* The baseline is a subject, the contenders are, and ids are numbers.     *)
LEMMA SubjectsAre ==
    Base \in Subjects /\ Reals \subseteq Subjects /\ Subjects \subseteq Nat /\ Base \notin Reals
  BY CompetitionAssumption DEF Base, Subjects, Reals

(* The literals of the handlers' locals and of the runner.                 *)
LEMMA LiteralsAre ==
    /\ Idle \in Handler
    /\ Idle.at = "idle" /\ Idle.phase = "" /\ Idle.todo = {}
    /\ NoRun \in Runner
    /\ NoRun.sess = None /\ NoRun.probed = {} /\ NoRun.live = {}
    /\ Zero \in Output /\ Zero # None
    /\ NoReq \in Request
    /\ NoReq.at = "none"
    /\ Built \subseteq Subjects
  <1>1. Zero # None
    <2>1. Zero \in [at : Nat, ran : Nat, sess : Nat]
      BY DEF Zero
    <2> QED
      BY <2>1, CompetitionAssumption
  <1> QED
    BY <1>1 DEF Idle, NoRun, Zero, NoReq, Awaits, Output, Built, Handler, Runner, Request

(* acquire gives the runner that is there, or one of a new session that    *)
(* holds no image.                                                         *)
LEMMA AcquireGives ==
    ASSUME Shape, NEW env \in Nat, Acquired(env)
    PROVE  /\ acquire(env) \in Runner
           /\ acquire(env).sess # None /\ nsess' \in Nat /\ nsess' >= nsess
           /\ \/ acquire(env) = run /\ nsess' = nsess
              \/ /\ acquire(env).sess = nsess + 1 /\ nsess' = nsess + 1
                 /\ acquire(env).probed = {} /\ acquire(env).live = {}
  <1> DEFINE fresh == [NoRun EXCEPT !.sess = nsess + 1, !.env = env]
  <1>1. fresh \in Runner
    <2>1. NoRun \in Runner
      BY LiteralsAre
    <2>2. nsess + 1 \in Nat \cup {None}
      BY DEF Shape
    <2> QED
      BY <2>1, <2>2 DEF Runner
  <1>2. fresh.sess = nsess + 1 /\ fresh.sess # None /\ fresh.probed = {} /\ fresh.live = {}
    BY CompetitionAssumption DEF NoRun, Shape
  <1>3. CASE run.sess # None /\ run.env = env
    <2>1. acquire(env) = run
      BY <1>3 DEF acquire
    <2> QED
      BY <2>1, <1>3 DEF Acquired, Shape
  <1>4. CASE ~(run.sess # None /\ run.env = env)
    <2>1. acquire(env) = fresh
      BY <1>4 DEF acquire
    <2>2. fresh # run
      <3>1. run.sess # fresh.sess \/ run.env # fresh.env
        BY <1>4, <1>2 DEF NoRun, Shape
      <3> QED
        BY <3>1
    <2>3. nsess' = nsess + 1
      BY <2>1, <2>2 DEF Acquired
    <2> HIDE DEF fresh
    <2> QED
      BY <2>1, <2>3, <1>1, <1>2 DEF Shape
  <1> QED
    BY <1>3, <1>4

-----------------------------------------------------------------------------
(* The types.                                                              *)

(* The subjects that still have to be archived.                            *)
LEMMA UnarchivedAre ==
    ASSUME Unarchived # {}
    PROVE  /\ Unarchived \subseteq Subjects /\ Min(Unarchived) \in Subjects
           /\ Min(Unarchived) \in Nat
  BY MinOf, SubjectsAre DEF Unarchived

(* A handler that goes on keeps its place and takes a subject of its list. *)
LEMMA NextOfIs ==
    ASSUME Shape
    PROVE  /\ NextOf(step.todo) \in Handler
           /\ \/ NextOf(step.todo) = Idle
              \/ /\ NextOf(step.todo).at = step.at /\ NextOf(step.todo).c \in Subjects
                 /\ NextOf(step.todo).phase = step.phase
  <1>1. CASE step.todo = {}
    BY <1>1, LiteralsAre DEF NextOf
  <1>2. CASE step.todo # {}
    <2> DEFINE c == Min(step.todo)
    <2>1. c \in Subjects /\ c \in Nat
      BY <1>2, MinOf, SubjectsAre DEF Shape, Handler
    <2>2. NextOf(step.todo) = [step EXCEPT !.c = c, !.todo = step.todo \ {c}]
      BY <1>2 DEF NextOf
    <2> HIDE DEF c
    <2> QED
      BY <2>1, <2>2 DEF Shape, Handler
  <1> QED
    BY <1>1, <1>2

(* The build loop goes on with an accepted contender, ends, or ends and    *)
(* moves the phase on the images that exist.                               *)
LEMMA StartBuildIs ==
    ASSUME Shape, NEW todo \in SUBSET Subjects, StartBuild(todo)
    PROVE  /\ comp' \in Record /\ step' \in Handler
           /\ \/ comp' = comp /\ step' = Idle
              \/ /\ comp' = comp /\ step'.at = "build" /\ step'.phase = "" /\ step'.c \in Subjects
                 /\ ~comp.halted
              \/ /\ step' = Idle /\ comp.phase = "BUILDING"
                 /\ \/ comp' = [comp EXCEPT !.phase = "EVALUATING"]
                    \/ comp' = [comp EXCEPT !.phase = "FAILED"]
  <1> DEFINE open == {d \in todo : st'[d] = "ACCEPTED"}
  <1>1. CASE open = {}
    <2>1. step' = Idle /\ mark_builds_complete
      BY <1>1 DEF StartBuild
    <2>2. \/ comp' = comp
          \/ /\ comp.phase = "BUILDING"
             /\ \/ comp' = [comp EXCEPT !.phase = "EVALUATING"]
                \/ comp' = [comp EXCEPT !.phase = "FAILED"]
      BY <2>1 DEF mark_builds_complete, Apply
    <2>3. comp' \in Record
      BY <2>2 DEF Shape, Record, Phases, Early, Terminal
    <2> QED
      BY <2>1, <2>2, <2>3, LiteralsAre
  <1>2. CASE open # {} /\ comp.halted
    <2>1. step' = Idle /\ comp' = comp
      BY <1>2 DEF StartBuild
    <2> QED
      BY <2>1, LiteralsAre DEF Shape
  <1>3. CASE open # {} /\ ~comp.halted
    <2> DEFINE c == BuildOrder(open)
    <2>1. c \in Subjects
      <3>1. open \in SUBSET Subjects /\ open # {}
        BY <1>3
      <3> HIDE DEF open
      <3> QED
        BY <3>1, MinOf, SubjectsAre DEF BuildOrder
    <2>2. comp' = comp /\ step' = [Idle EXCEPT !.at = "build", !.c = c, !.todo = todo \ {c}]
      BY <1>3 DEF StartBuild
    <2> HIDE DEF c
    <2>3. c \in Nat /\ todo \ {c} \in SUBSET Subjects
      BY <2>1, SubjectsAre
    <2>4. step' \in Handler /\ step'.at = "build" /\ step'.phase = "" /\ step'.c = c
      BY <2>2, <2>3, LiteralsAre DEF Handler, Awaits
    <2> QED
      BY <2>1, <2>2, <2>4, <1>3 DEF Shape
  <1> QED
    BY <1>1, <1>2, <1>3

(* The fence halts, finds the bound runtime in place, binds one for no     *)
(* image at all, or begins to restore the images in it.                    *)
LEMMA EnsureRuntimeIs ==
    ASSUME Shape, NEW phase \in {"BUILDING", "EVALUATING"}, EnsureRuntime(phase)
    PROVE  /\ run' \in Runner /\ run'.sess # None /\ nsess' \in Nat /\ nsess' >= nsess
           /\ \/ run' = run /\ nsess' = nsess
              \/ run'.sess = nsess + 1 /\ nsess' = nsess + 1 /\ run'.probed = {}
           /\ \/ comp' = [comp EXCEPT !.halted = TRUE] /\ UNCHANGED <<step, bound>>
              \/ /\ step' \in Handler /\ step'.phase = phase /\ BaselineBuilt(phase)
                 /\ UNCHANGED comp
                 /\ \/ step'.at = "fenced" /\ run'.sess = bound /\ bound' = bound
                    \/ step'.at = "fenced" /\ Built = {} /\ bound' = run'.sess
                    \/ step'.at = "restore" /\ step'.sess = run'.sess /\ bound' = bound
  <1>1. run' = acquire(envelope) /\ Acquired(envelope) /\ envelope \in Nat
    BY DEF EnsureRuntime, Shape
  <1>2. /\ run' \in Runner /\ run'.sess # None /\ nsess' \in Nat /\ nsess' >= nsess
        /\ \/ run' = run /\ nsess' = nsess
           \/ run'.sess = nsess + 1 /\ nsess' = nsess + 1 /\ run'.probed = {}
    BY <1>1, AcquireGives
  <1>3. run'.sess \in Nat
    BY <1>2 DEF Runner
  <1>4. CASE ~BaselineBuilt(phase)
    BY <1>2, <1>4 DEF EnsureRuntime, Halt
  <1>5. CASE BaselineBuilt(phase) /\ run'.sess = bound /\ Built \subseteq run'.live
    <2>1. /\ step' = [Idle EXCEPT !.at = "fenced", !.phase = phase] /\ UNCHANGED <<comp, bound>>
      BY <1>5 DEF EnsureRuntime
    <2>2. step' \in Handler /\ step'.phase = phase /\ step'.at = "fenced"
      BY <2>1, LiteralsAre DEF Handler, Awaits
    <2> QED
      BY <1>2, <1>5, <2>1, <2>2
  <1>6. CASE BaselineBuilt(phase) /\ ~(run'.sess = bound /\ Built \subseteq run'.live) /\ Built = {}
    <2>1. /\ step' = [Idle EXCEPT !.at = "fenced", !.phase = phase]
          /\ bound' = run'.sess /\ UNCHANGED comp
      BY <1>6 DEF EnsureRuntime
    <2>2. step' \in Handler /\ step'.phase = phase /\ step'.at = "fenced"
      BY <2>1, LiteralsAre DEF Handler, Awaits
    <2> QED
      BY <1>2, <1>6, <2>1, <2>2
  <1>7. CASE BaselineBuilt(phase) /\ ~(run'.sess = bound /\ Built \subseteq run'.live) /\ Built # {}
    <2>1. /\ step' = [Idle EXCEPT !.at = "restore", !.phase = phase, !.todo = Built,
                                  !.sess = run'.sess]
          /\ UNCHANGED <<comp, bound>>
      BY <1>7 DEF EnsureRuntime
    <2>2. Built \in SUBSET Subjects
      BY LiteralsAre
    <2>3. step' \in Handler /\ step'.phase = phase /\ step'.at = "restore" /\ step'.sess = run'.sess
      BY <1>3, <2>1, <2>2, LiteralsAre DEF Handler, Awaits
    <2> QED
      BY <1>2, <1>7, <2>1, <2>3
  <1> QED
    BY <1>4, <1>5, <1>6, <1>7

(* A batch is skipped, or starts under the present floor while nothing is  *)
(* halted.                                                                 *)
LEMMA StartBatchIs ==
    ASSUME Shape, StartBatch
    PROVE  /\ step' \in Handler /\ step'.at = "eval" /\ step'.phase = step.phase
           /\ \/ UNCHANGED <<row, flight>>
              \/ \E c \in Subjects :
                    /\ ~comp.halted /\ row' = [row EXCEPT ![c] = "RUNNING"]
                    /\ flight' = flight \cup {[c |-> c, floor |-> floor]}
  <1> DEFINE c == Min(step.todo)
  <1>1. c \in Subjects
    BY MinOf DEF StartBatch, Shape, Handler
  <1>2. step.at = "eval" /\ gated(c)
    BY DEF StartBatch
  <1> HIDE DEF c
  <1>3. step' = [step EXCEPT !.todo = @ \ {c}, !.ok = FALSE] \/ step' = [step EXCEPT !.todo = @ \ {c}]
    BY <1>2 DEF gated
  <1>4. step' \in Handler /\ step'.at = "eval" /\ step'.phase = step.phase
    BY <1>2, <1>3 DEF Shape, Handler
  <1> QED
    BY <1>1, <1>2, <1>4 DEF gated

(* Validation accepts or rejects what is enrolled, but not the baseline;   *)
(* the phase moves, or the competition halts.                              *)
LEMMA ValidatingIs ==
    ASSUME Shape, _stage_validating
    PROVE  /\ comp' \in Record /\ st' \in [Subjects -> Statuses]
           /\ comp'.root = comp.root
           /\ comp'.phase \in {"VALIDATING", "BUILDING", "FAILED"}
  <1>1. \/ mark_validation_complete(st') \/ Halt
    BY DEF _stage_validating
  <1>2. \/ comp' = [comp EXCEPT !.phase = "BUILDING"] \/ comp' = [comp EXCEPT !.phase = "FAILED"]
        \/ comp' = [comp EXCEPT !.halted = TRUE]
    BY <1>1 DEF mark_validation_complete, Apply, Halt, _stage_validating, StepReady
  <1>3. comp.phase = "VALIDATING"
    BY DEF _stage_validating, StepReady
  <1>4. /\ comp' \in Record /\ comp'.root = comp.root
        /\ comp'.phase \in {"VALIDATING", "BUILDING", "FAILED"}
    BY <1>2, <1>3 DEF Shape, Record, Phases, Early, Terminal
  <1>5. st' \in [Subjects -> Statuses]
    BY DEF _stage_validating, Statuses, Shape
  <1> QED
    BY <1>4, <1>5

(* Finalization moves the phase when all is archived, or begins with the   *)
(* first submission that is not.                                           *)
LEMMA StageFinalizingIs ==
    ASSUME Shape, _stage_finalizing
    PROVE  /\ step' \in Handler
           /\ \/ step' = step
              \/ /\ comp' = comp /\ step'.at = "archive" /\ step'.phase = "" /\ step'.c \in Subjects
  <1>1. CASE Unarchived = {}
    BY <1>1 DEF _stage_finalizing, Shape
  <1>2. CASE Unarchived # {}
    <2>1. PICK c \in Subjects, todo \in SUBSET Subjects :
             step' = [Idle EXCEPT !.at = "archive", !.c = c, !.todo = todo]
      BY <1>2, UnarchivedAre DEF _stage_finalizing
    <2>2. step' \in Handler /\ step'.at = "archive" /\ step'.phase = "" /\ step'.c \in Subjects
      BY <2>1, LiteralsAre, SubjectsAre DEF Handler, Awaits
    <2> QED
      BY <1>2, <2>2 DEF _stage_finalizing
  <1> QED
    BY <1>1, <1>2

(* A restored image is added to the runner that is there, or the step      *)
(* halts.                                                                  *)
LEMMA RestoreImageIs ==
    ASSUME Shape, RestoreImage
    PROVE  /\ run' \in Runner /\ run'.sess = run.sess
           /\ \/ /\ run.sess # None /\ step' \in Handler /\ step'.at = "restore"
                 /\ step'.phase = step.phase /\ step'.sess = step.sess /\ UNCHANGED comp
              \/ run' = run /\ step' = Idle /\ comp' = [comp EXCEPT !.halted = TRUE]
  <1> DEFINE c == Min(step.todo)
  <1>1. c \in Subjects
    BY MinOf DEF RestoreImage, Shape, Handler
  <1>2. \/ /\ _restore_bound_modal_image(c)
           /\ run' = [run EXCEPT !.live = @ \cup {c}, !.probed = @ \cup {c}]
           /\ step' = [step EXCEPT !.todo = @ \ {c}]
           /\ UNCHANGED comp
        \/ Halt /\ step' = Idle /\ UNCHANGED run
    BY DEF RestoreImage
  <1>3. step.at = "restore"
    BY DEF RestoreImage
  <1> HIDE DEF c
  <1>4. CASE /\ _restore_bound_modal_image(c)
             /\ run' = [run EXCEPT !.live = @ \cup {c}, !.probed = @ \cup {c}]
             /\ step' = [step EXCEPT !.todo = @ \ {c}]
             /\ UNCHANGED comp
    <2>1. /\ step' \in Handler /\ step'.at = "restore" /\ step'.phase = step.phase
          /\ step'.sess = step.sess
      BY <1>3, <1>4 DEF Shape, Handler
    <2>2. run' \in Runner /\ run'.sess = run.sess
      BY <1>1, <1>4 DEF Shape, Runner
    <2> QED
      BY <1>4, <2>1, <2>2 DEF _restore_bound_modal_image
  <1>5. CASE Halt /\ step' = Idle /\ UNCHANGED run
    BY <1>5 DEF Halt, Shape
  <1> QED
    BY <1>2, <1>4, <1>5

(* A build leaves the session and adds an image that is not probed.        *)
LEMMA BuiltInIs ==
    ASSUME NEW r \in Runner, NEW c \in Subjects
    PROVE  /\ BuiltIn(r, c) \in Runner /\ BuiltIn(r, c).sess = r.sess
           /\ BuiltIn(r, c).probed = r.probed \ {c}
  <1>1. r.live \cup {c} \in SUBSET Subjects /\ r.probed \ {c} \in SUBSET Subjects
    BY DEF Runner
  <1> QED
    BY <1>1 DEF BuiltIn, Runner

(* The end of a build: probe next, or the loop goes on, or it halts.       *)
LEMMA FinishBuildIs ==
    ASSUME Shape, PhaseOf, FinishBuild
    PROVE  /\ run' \in Runner /\ run'.sess = run.sess /\ run'.probed \subseteq run.probed
           /\ \/ run.sess # None /\ step' = [step EXCEPT !.at = "probe"] /\ UNCHANGED <<comp, st>>
              \/ step.c # Base /\ _mark_build_failed(step.c) /\ StartBuild(step.todo)
              \/ comp' = [comp EXCEPT !.halted = TRUE] /\ step' = Idle /\ UNCHANGED st
  <1>1. step.c \in Subjects
    BY DEF FinishBuild, PhaseOf
  <1>2. run' = run \/ run' = BuiltIn(run, step.c)
    BY DEF FinishBuild
  <1>3. run' \in Runner /\ run'.sess = run.sess /\ run'.probed \subseteq run.probed
    <2>1. run \in Runner
      BY DEF Shape
    <2> QED
      BY <1>1, <1>2, <2>1, BuiltInIs
  <1> QED
    BY <1>3 DEF FinishBuild, Halt

(* What the end of a batch writes.                                         *)
LEMMA FinishBatchShape ==
    ASSUME Shape, FinishBatch
    PROVE  Shape'
  <1>1. PICK b \in flight :
           /\ flight' = flight \ {b}
           /\ BatchOk(b) \/ BatchContenderFault(b) \/ BatchInfraFault(b)
           /\ UNCHANGED <<st, archived, floor, score, bound, images, envelope, nsess, anchorVars,
                          clock, ops, crashes>>
    BY DEF FinishBatch
  <1>2. b.c \in Subjects /\ b.floor \in Nat
    BY DEF Shape
  <1>3. CASE BatchOk(b)
    <2>1. outs' \in [Subjects -> Output \cup {None}] /\ row' \in [Subjects -> Rows]
      <3>1. [at |-> floor, ran |-> b.floor, sess |-> run.sess] \in Output
        BY <1>2, <1>3 DEF BatchOk, CanExecute, Output, Shape, Runner
      <3> QED
        BY <3>1, <1>2, <1>3 DEF BatchOk, Nothing, Shape, Rows, Settled
    <2> QED
      BY <1>1, <1>3, <2>1 DEF BatchOk, Nothing, Shape, anchorVars
  <1>4. CASE BatchContenderFault(b)
    <2>1. fault' \in [Subjects -> Nat] /\ row' \in [Subjects -> Rows]
      BY <1>2, <1>4 DEF BatchContenderFault, Nothing, Shape, Rows, Settled
    <2> QED
      BY <1>1, <1>4, <2>1 DEF BatchContenderFault, Nothing, Shape, anchorVars
  <1>5. CASE BatchInfraFault(b)
    <2>1. row' \in [Subjects -> Rows]
      BY <1>2, <1>5 DEF BatchInfraFault, RequeueOrHalt, Nothing, Shape, Rows
    <2>2. comp' \in Record
      BY <1>5 DEF BatchInfraFault, RequeueOrHalt, Nothing, Halt, Shape, Record
    <2>3. step' \in Handler
      BY <1>5 DEF BatchInfraFault, RequeueOrHalt, Nothing, Shape, Handler
    <2>4. run' \in Runner
      BY <1>5, LiteralsAre DEF BatchInfraFault, discard, Shape
    <2>5. UNCHANGED <<outs, fault>>
      BY <1>5 DEF BatchInfraFault, RequeueOrHalt, Nothing
    <2> QED
      BY <1>1, <2>1, <2>2, <2>3, <2>4, <2>5 DEF Shape, anchorVars
  <1> QED
    BY <1>1, <1>3, <1>4, <1>5

(* A pair is zeroed, sent to the scorer, or the last one was recorded.     *)
LEMMA StageScoringIs ==
    ASSUME Shape, _stage_scoring
    PROVE  \/ /\ Unscored = {} /\ step' = Idle /\ UNCHANGED score
              /\ \/ UNCHANGED comp
                 \/ /\ MissingCalibrationRows = {} /\ comp.phase = "SCORING"
                    /\ comp' = [comp EXCEPT !.phase = "AWAITING", !.reviewAt = clock + 1]
           \/ \E c \in Unscored :
                 /\ c \in Subjects /\ UNCHANGED comp
                 /\ \/ /\ outputs_for_contender(c) = None
                       /\ score' = [score EXCEPT ![c] = Zero]
                       /\ step' = [Idle EXCEPT !.at = "scored"]
                    \/ UNCHANGED score /\ step' = [Idle EXCEPT !.at = "score", !.c = c]
  <1>1. CASE Unscored = {}
    BY <1>1 DEF _stage_scoring, mark_scores_persisted
  <1>2. CASE Unscored # {}
    <2> DEFINE c == Min(Unscored)
    <2>1. Unscored \in SUBSET Subjects
      BY DEF Unscored, Built
    <2>2. c \in Unscored /\ c \in Subjects
      BY <1>2, <2>1, MinOf
    <2>3. /\ UNCHANGED comp
          /\ IF outputs_for_contender(c) = None
             THEN /\ _zero_score_item(c)
                  /\ step' = [Idle EXCEPT !.at = "scored"]
             ELSE UNCHANGED score /\ step' = [Idle EXCEPT !.at = "score", !.c = c]
      BY <1>2 DEF _stage_scoring
    <2> HIDE DEF c
    <2> QED
      BY <2>2, <2>3 DEF _zero_score_item, record_item_score
  <1> QED
    BY <1>1, <1>2

(* The scoring loop keeps the types.                                       *)
LEMMA StageScoringShape ==
    ASSUME Shape, _stage_scoring
    PROVE  Shape'
  <1>1. comp' \in Record
    <2>1. \/ comp' = comp
          \/ comp' = [comp EXCEPT !.phase = "AWAITING", !.reviewAt = clock + 1]
      BY StageScoringIs
    <2>2. clock + 1 \in Nat
      BY DEF Shape
    <2> QED
      BY <2>1, <2>2 DEF Shape, Record, Phases
  <1>2. step' \in Handler
    BY StageScoringIs, LiteralsAre, SubjectsAre DEF Handler, Awaits
  <1>3. score' \in [Subjects -> Output \cup {None}]
    BY StageScoringIs, LiteralsAre DEF Shape
  <1> QED
    BY <1>1, <1>2, <1>3 DEF _stage_scoring, Shape, runVars, anchorVars, envVars

(* What the scorer's answer writes.                                        *)
LEMMA FinishScoreShape ==
    ASSUME Shape, FinishScore
    PROVE  Shape'
  <1>1. comp' \in Record
    BY DEF FinishScore, Halt, Shape, Record
  <1>2. step' \in Handler
    BY LiteralsAre DEF FinishScore, Handler, Awaits
  <1>3. score' \in [Subjects -> Output \cup {None}]
    <2>1. step.c \in Subjects => outputs_for_contender(step.c) \in Output \cup {None}
      BY DEF outputs_for_contender, Shape
    <2> QED
      BY <2>1, LiteralsAre DEF FinishScore, _persist_scored_item, _zero_score_item,
         record_item_score, Shape
  <1>4. fault' \in [Subjects -> Nat]
    BY DEF FinishScore, Shape
  <1> QED
    BY <1>1, <1>2, <1>3, <1>4 DEF FinishScore, Shape, runVars, anchorVars

(* A step keeps the types.                                                 *)
LEMMA ShapeStep ==
    ASSUME Shape, PhaseOf, Next
    PROVE  Shape'
  <1>1. CASE _release_idle_runner
    <2>1. run' \in Runner /\ nsess' \in Nat
      BY <1>1, LiteralsAre DEF _release_idle_runner, discard, Shape
    <2> QED
      BY <1>1, <2>1 DEF _release_idle_runner, Shape, dbVars, runVars, anchorVars, envVars
  <1>2. CASE OtherAnchor
    <2>1. run' \in Runner /\ nsess' \in Nat
      BY <1>2, AcquireGives, SubjectsAre DEF OtherAnchor, OtherEnvelope, BuiltIn, Runner, Shape
    <2> QED
      BY <1>2, <2>1 DEF OtherAnchor, Shape, dbVars, runVars, anchorVars, envVars
  <1>3. CASE ingest_evaluation_item
    <2>1. comp' \in Record
      BY <1>3 DEF Record, ingest_evaluation_item, add_evaluation_item, Shape
    <2> QED
      BY <1>3, <2>1 DEF ingest_evaluation_item, Shape, dbVars, runVars, anchorVars, envVars
  <1>4. CASE AnchorRequest
    <2>1. run' \in Runner /\ nsess' \in Nat /\ bound' \in Nat \cup {None}
      BY <1>4, AcquireGives, SubjectsAre DEF AnchorRequest, BuiltIn, Runner, Shape
    <2>2. req' \in Request /\ claim' \in Claim \cup {None}
      BY <1>4 DEF AnchorRequest, Request, Claim, Shape
    <2> QED
      BY <1>4, <2>1, <2>2 DEF AnchorRequest, Shape, dbVars, runVars, anchorVars, envVars
  <1>5. CASE AnchorWrite
    <2>1. req' \in Request /\ chain' \in Ledger
      BY <1>5 DEF AnchorWrite, Request, Ledger, Shape
    <2> QED
      BY <1>5, <2>1 DEF AnchorWrite, Shape, dbVars, runVars, anchorVars, envVars
  <1>6. CASE ChainLand
    <2>1. chain' \in Ledger
      BY <1>6 DEF ChainLand, Ledger, Shape
    <2> QED
      BY <1>6, <2>1 DEF ChainLand, Shape, dbVars, runVars, anchorVars, envVars
  <1>7. CASE AnchorReceipt
    <2>1. comp' \in Record /\ claim' \in Claim \cup {None}
      BY <1>7 DEF Record, AnchorReceipt, mark_commitment_anchored, Ledger, Shape
    <2>2. req' \in Request
      BY <1>7, LiteralsAre DEF AnchorReceipt
    <2> QED
      BY <1>7, <2>1, <2>2 DEF AnchorReceipt, Shape, dbVars, runVars, anchorVars, envVars
  <1>8. CASE release_anchor_claim
    BY <1>8 DEF release_anchor_claim, Shape, dbVars, runVars, envVars
  <1>9. CASE TickEnroll
    <2>1. comp' \in Record
      BY <1>9 DEF TickEnroll, Apply, Record, Phases, Early, Shape
    <2> QED
      BY <1>9, <2>1 DEF TickEnroll, Shape, dbVars, runVars, anchorVars, envVars
  <1>10. CASE \E c \in Reals : enroll_contender(c)
    <2>1. st' \in [Subjects -> Statuses]
      BY <1>10, SubjectsAre DEF enroll_contender, Statuses, Shape
    <2> QED
      BY <1>10, <2>1 DEF enroll_contender, Shape, dbVars, runVars, anchorVars, envVars
  <1>11. CASE TickFinalize
    <2>1. comp' \in Record
      BY <1>11 DEF TickFinalize, Apply, Record, Phases, Early, Shape
    <2>2. step' \in Handler
      BY <1>11, LiteralsAre DEF TickFinalize, Handler, Awaits
    <2> QED
      BY <1>11, <2>1, <2>2 DEF TickFinalize, Shape, dbVars, runVars, anchorVars, envVars
  <1>12. CASE _inject_baseline
    <2>1. st' \in [Subjects -> Statuses] /\ step' \in Handler
      BY <1>12, SubjectsAre, LiteralsAre DEF _inject_baseline, Statuses, Shape
    <2> QED
      BY <1>12, <2>1 DEF _inject_baseline, Shape, dbVars, runVars, anchorVars, envVars
  <1>13. CASE TickComplete
    <2>1. comp' \in Record
      BY <1>13 DEF TickComplete, Apply, _release_due_upscaling_references, Halt, Record, Phases,
         Terminal, Shape
    <2> QED
      BY <1>13, <2>1 DEF TickComplete, Shape, dbVars, runVars, anchorVars, envVars
  <1>14. CASE _check_scorer_identity
    <2>1. comp' \in Record
      BY <1>14 DEF Record, _check_scorer_identity, Halt, Shape
    <2> QED
      BY <1>14, <2>1 DEF _check_scorer_identity, Shape, dbVars, runVars, anchorVars, envVars
  <1>15. CASE _stage_finalizing
    <2>1. comp' \in Record
      BY <1>15 DEF _stage_finalizing, mark_submissions_backed_up, Apply, Record, Phases, Early,
         Shape
    <2>2. step' \in Handler
      BY <1>15, StageFinalizingIs
    <2> QED
      BY <1>15, <2>1, <2>2 DEF _stage_finalizing, Shape, dbVars, runVars, anchorVars, envVars
  <1>16. CASE FinishArchive
    <2>1. comp' \in Record
      BY <1>16 DEF Record, FinishArchive, Halt, Shape
    <2>2. step' \in Handler
      BY <1>16, LiteralsAre, NextOfIs DEF FinishArchive, Shape
    <2>3. st' \in [Subjects -> Statuses]
      BY <1>16 DEF FinishArchive, Statuses, Shape
    <2> QED
      BY <1>16, <2>1, <2>2, <2>3 DEF FinishArchive, Shape, dbVars, runVars, anchorVars, envVars
  <1>17. CASE _stage_validating
    <2>1. comp' \in Record /\ st' \in [Subjects -> Statuses]
      BY <1>17, ValidatingIs
    <2> QED
      BY <1>17, <2>1 DEF _stage_validating, Shape, dbVars, runVars, anchorVars, envVars
  <1>18. CASE EnsureRuntime("BUILDING")
    <2>1. run' \in Runner /\ nsess' \in Nat /\ bound' \in Nat \cup {None}
      BY <1>18, EnsureRuntimeIs DEF Runner, Shape
    <2>2. comp' \in Record
      BY <1>18, EnsureRuntimeIs DEF Shape, Record
    <2>3. step' \in Handler
      BY <1>18, EnsureRuntimeIs DEF Shape
    <2> QED
      BY <1>18, <2>1, <2>2, <2>3 DEF EnsureRuntime, Shape, dbVars, runVars, anchorVars, envVars
  <1>19. CASE EnsureRuntime("EVALUATING")
    <2>1. run' \in Runner /\ nsess' \in Nat /\ bound' \in Nat \cup {None}
      BY <1>19, EnsureRuntimeIs DEF Runner, Shape
    <2>2. comp' \in Record
      BY <1>19, EnsureRuntimeIs DEF Shape, Record
    <2>3. step' \in Handler
      BY <1>19, EnsureRuntimeIs DEF Shape
    <2> QED
      BY <1>19, <2>1, <2>2, <2>3 DEF EnsureRuntime, Shape, dbVars, runVars, anchorVars, envVars
  <1>20. CASE EnsureRuntimeRefused
    <2>1. comp' \in Record
      BY <1>20 DEF Record, EnsureRuntimeRefused, Halt, Shape
    <2> QED
      BY <1>20, <2>1 DEF EnsureRuntimeRefused, Shape, dbVars, runVars, anchorVars, envVars
  <1>21. CASE RestoreImage
    <2>1. comp' \in Record
      BY <1>21 DEF Record, RestoreImage, Halt, Shape
    <2>2. step' \in Handler
      BY <1>21, LiteralsAre DEF RestoreImage, Handler, Shape
    <2>3. run' \in Runner
      BY <1>21, RestoreImageIs
    <2> QED
      BY <1>21, <2>1, <2>2, <2>3 DEF RestoreImage, Shape, dbVars, runVars, anchorVars, envVars
  <1>22. CASE RebindRuntime
    <2>1. step' \in Handler /\ bound' \in Nat \cup {None}
      BY <1>22, LiteralsAre DEF RebindRuntime, Handler, Awaits, Shape
    <2>2. row' \in [Subjects -> Rows] /\ floor' \in Nat /\ floor' # 0
      BY <1>22 DEF RebindRuntime, ResetEvaluation, Rows, Shape
    <2> QED
      BY <1>22, <2>1, <2>2 DEF RebindRuntime, Shape, dbVars, runVars, anchorVars, envVars
  <1>23. CASE _stage_building
    <2>1. comp' \in Record /\ step' \in Handler
      BY <1>23, StartBuildIs DEF _stage_building, Shape
    <2> QED
      BY <1>23, <2>1 DEF _stage_building, Shape, dbVars, runVars, anchorVars, envVars
  <1>24. CASE FinishBuild
    <2>1. comp' \in Record /\ step' \in Handler
      BY <1>24, StartBuildIs, LiteralsAre DEF Record, FinishBuild, Halt, Handler, Awaits, Shape
    <2>2. st' \in [Subjects -> Statuses]
      BY <1>24 DEF FinishBuild, _mark_build_failed, Statuses, Shape
    <2>3. run' \in Runner
      BY <1>24, FinishBuildIs
    <2> QED
      BY <1>24, <2>1, <2>2, <2>3 DEF FinishBuild, Shape, dbVars, runVars, anchorVars, envVars
  <1>25. CASE FinishProbe
    <2>1. comp' \in Record /\ step' \in Handler
      BY <1>25, StartBuildIs, LiteralsAre DEF Record, FinishProbe, Halt, Handler, Shape
    <2>2. st' \in [Subjects -> Statuses]
      BY <1>25 DEF FinishProbe, Statuses, Shape
    <2>3. run' \in Runner
      BY <1>25 DEF FinishProbe, Runner, Shape
    <2> QED
      BY <1>25, <2>1, <2>2, <2>3 DEF FinishProbe, Shape, dbVars, runVars, anchorVars, envVars
  <1>26. CASE _stage_evaluating
    <2>1. step' \in Handler
      BY <1>26, LiteralsAre DEF _stage_evaluating, Handler, Awaits, Built, Shape
    <2>2. row' \in [Subjects -> Rows]
      BY <1>26 DEF _stage_evaluating, Rows, Shape
    <2> QED
      BY <1>26, <2>1, <2>2 DEF _stage_evaluating, Shape, dbVars, runVars, anchorVars, envVars
  <1>27. CASE ItemMissing
    <2>1. comp' \in Record /\ step' \in Handler
      BY <1>27, LiteralsAre DEF Record, ItemMissing, Halt, Shape
    <2> QED
      BY <1>27, <2>1 DEF ItemMissing, Shape, dbVars, runVars, anchorVars, envVars
  <1>28. CASE StartBatch
    <2>1. step' \in Handler
      BY <1>28, StartBatchIs
    <2>2. row' \in [Subjects -> Rows]
      BY <1>28, StartBatchIs DEF Rows, Shape
    <2>3. flight' \in SUBSET [c : Subjects, floor : Nat]
      BY <1>28, StartBatchIs DEF Shape
    <2> QED
      BY <1>28, <2>1, <2>2, <2>3 DEF StartBatch, Shape, dbVars, runVars, anchorVars, envVars
  <1>29. CASE FinishBatch
    BY <1>29, FinishBatchShape
  <1>30. CASE FinishEvaluation
    <2>1. comp' \in Record
      BY <1>30 DEF FinishEvaluation, mark_evaluation_complete, Apply, Record, Phases, Shape
    <2>2. step' \in Handler
      BY <1>30, LiteralsAre DEF FinishEvaluation
    <2> QED
      BY <1>30, <2>1, <2>2 DEF FinishEvaluation, Shape, dbVars, runVars, anchorVars, envVars
  <1>31. CASE _stage_scoring
    BY <1>31, StageScoringShape
  <1>32. CASE ScoringHalted
    <2>1. step' \in Handler
      BY <1>32, LiteralsAre DEF ScoringHalted
    <2> QED
      BY <1>32, <2>1 DEF ScoringHalted, Shape, dbVars, runVars, anchorVars, envVars
  <1>33. CASE FinishScore
    BY <1>33, FinishScoreShape
  <1>34. CASE pause
    <2>1. comp' \in Record
      BY <1>34 DEF Record, pause, Halt, Shape
    <2> QED
      BY <1>34, <2>1 DEF pause, Shape, dbVars, runVars, anchorVars, envVars
  <1>35. CASE clear_halt
    <2>1. comp' \in Record
      BY <1>35 DEF Record, clear_halt, Shape
    <2> QED
      BY <1>35, <2>1 DEF clear_halt, Shape, dbVars, runVars, anchorVars, envVars
  <1>36. CASE rerun_evaluation
    <2>1. row' \in [Subjects -> Rows] /\ floor' \in Nat /\ floor' # 0
      BY <1>36 DEF rerun_evaluation, ResetEvaluation, Rows, Shape
    <2> QED
      BY <1>36, <2>1 DEF rerun_evaluation, Shape, dbVars, runVars, anchorVars, envVars
  <1>37. CASE amend_execution
    <2>1. row' \in [Subjects -> Rows] /\ floor' \in Nat /\ floor' # 0 /\ envelope' \in Nat
      BY <1>37 DEF amend_execution, ResetEvaluation, Rows, Shape
    <2> QED
      BY <1>37, <2>1 DEF amend_execution, Shape, dbVars, runVars, anchorVars, envVars
  <1>38. CASE \E c \in Reals : reject_contender(c)
    <2>1. st' \in [Subjects -> Statuses]
      BY <1>38 DEF reject_contender, Statuses, Shape
    <2> QED
      BY <1>38, <2>1 DEF reject_contender, Shape, dbVars, runVars, anchorVars, envVars
  <1>39. CASE amend_schedule
    <2>1. comp' \in Record
      BY <1>39, CompetitionAssumption DEF amend_schedule, Record, Shape
    <2> QED
      BY <1>39, <2>1 DEF amend_schedule, Shape, dbVars, runVars, anchorVars, envVars
  <1>40. CASE abort
    <2>1. comp' \in Record
      BY <1>40 DEF abort, Record, Phases, Terminal, Shape
    <2> QED
      BY <1>40, <2>1 DEF abort, Shape, dbVars, runVars, anchorVars, envVars
  <1>41. CASE Advance
    <2>1. clock' \in Nat
      BY <1>41 DEF Advance, Shape
    <2> QED
      BY <1>41, <2>1 DEF Advance, Shape, dbVars, runVars, anchorVars, envVars
  <1>42. CASE Crash
    <2>1. run' \in Runner /\ step' \in Handler /\ req' \in Request
      BY <1>42, LiteralsAre DEF Crash
    <2>2. params' \in Nat
      BY <1>42 DEF Crash, Shape
    <2> QED
      BY <1>42, <2>1, <2>2 DEF Crash, Shape, dbVars, runVars, anchorVars, envVars
  <1> QED
    BY <1>1, <1>2, <1>3, <1>4, <1>5, <1>6, <1>7, <1>8, <1>9, <1>10, <1>11, <1>12, <1>13, <1>14,
       <1>15, <1>16, <1>17, <1>18, <1>19, <1>20, <1>21, <1>22, <1>23, <1>24, <1>25, <1>26, <1>27,
       <1>28, <1>29, <1>30, <1>31, <1>32, <1>33, <1>34, <1>35, <1>36, <1>37, <1>38, <1>39, <1>40,
       <1>41, <1>42 DEF Next

-----------------------------------------------------------------------------
(* The commitment.                                                         *)

(* The operations that deal with the commitment.                           *)
Anchoring == AnchorRequest \/ AnchorWrite \/ ChainLand \/ AnchorReceipt \/ release_anchor_claim \/ Crash

(* The commitment is left alone, and no phase that needs a root is entered *)
(* without one.                                                            *)
AnchorFrame ==
    /\ UNCHANGED <<req, claim, chain>> /\ comp'.root = comp.root
    /\ \/ comp'.phase = comp.phase \/ comp.root # None
       \/ comp.phase \notin {"SCHEDULED", "FAILED", "CANCELLED"}
       \/ comp'.phase \in {"FAILED", "CANCELLED"}

(* The other operations leave the commitment alone.                        *)
LEMMA OthersFrame ==
    ASSUME Shape, PhaseOf, Next
    PROVE  Anchoring \/ AnchorFrame
  <1> USE DEF AnchorFrame
  <1>1. CASE _release_idle_runner
    BY <1>1 DEF _release_idle_runner, dbVars, anchorVars
  <1>2. CASE OtherAnchor
    BY <1>2 DEF OtherAnchor, dbVars, anchorVars
  <1>3. CASE ingest_evaluation_item
    BY <1>3 DEF ingest_evaluation_item, add_evaluation_item, Shape, Record, anchorVars
  <1>4. CASE TickEnroll
    BY <1>4 DEF TickEnroll, Apply, Shape, Record, anchorVars
  <1>5. CASE \E c \in Reals : enroll_contender(c)
    BY <1>5 DEF enroll_contender, anchorVars
  <1>6. CASE TickFinalize
    BY <1>6 DEF TickFinalize, Apply, Shape, Record, anchorVars
  <1>7. CASE _inject_baseline
    BY <1>7 DEF _inject_baseline, dbVars, anchorVars
  <1>8. CASE TickComplete
    BY <1>8 DEF TickComplete, Apply, _release_due_upscaling_references, Halt, Shape, Record,
       anchorVars
  <1>9. CASE _check_scorer_identity
    BY <1>9 DEF _check_scorer_identity, Halt, Shape, Record, anchorVars
  <1>10. CASE _stage_finalizing
    BY <1>10 DEF _stage_finalizing, mark_submissions_backed_up, StepReady, Apply, Shape, Record,
       anchorVars
  <1>11. CASE FinishArchive
    BY <1>11 DEF FinishArchive, Halt, Shape, Record, anchorVars
  <1>12. CASE _stage_validating
    BY <1>12, ValidatingIs DEF _stage_validating, StepReady, anchorVars
  <1>13. CASE EnsureRuntime("BUILDING")
    BY <1>13, EnsureRuntimeIs DEF EnsureRuntime, Shape, Record, anchorVars
  <1>14. CASE EnsureRuntime("EVALUATING")
    BY <1>14, EnsureRuntimeIs DEF EnsureRuntime, Shape, Record, anchorVars
  <1>15. CASE EnsureRuntimeRefused
    BY <1>15 DEF EnsureRuntimeRefused, Halt, Shape, Record, anchorVars
  <1>16. CASE RestoreImage
    BY <1>16, RestoreImageIs DEF RestoreImage, Shape, Record, anchorVars
  <1>17. CASE RebindRuntime
    BY <1>17 DEF RebindRuntime, dbVars, anchorVars
  <1>18. CASE _stage_building
    BY <1>18, StartBuildIs DEF _stage_building, Shape, Record, anchorVars
  <1>19. CASE FinishBuild
    BY <1>19, FinishBuildIs, StartBuildIs DEF FinishBuild, Shape, Record, Handler, anchorVars
  <1>20. CASE FinishProbe
    BY <1>20, StartBuildIs DEF FinishProbe, Halt, Shape, Record, Handler, anchorVars
  <1>21. CASE _stage_evaluating
    BY <1>21 DEF _stage_evaluating, dbVars, anchorVars
  <1>22. CASE ItemMissing
    BY <1>22 DEF ItemMissing, Halt, Shape, Record, anchorVars
  <1>23. CASE StartBatch
    BY <1>23 DEF StartBatch, dbVars, anchorVars
  <1>24. CASE FinishBatch
    BY <1>24 DEF FinishBatch, BatchOk, BatchContenderFault, BatchInfraFault, RequeueOrHalt,
       Nothing, Halt, Shape, Record, anchorVars
  <1>25. CASE FinishEvaluation
    BY <1>25 DEF FinishEvaluation, mark_evaluation_complete, Apply, Shape, Record, anchorVars
  <1>26. CASE _stage_scoring
    BY <1>26, StageScoringIs DEF _stage_scoring, Shape, Record, anchorVars
  <1>27. CASE ScoringHalted
    BY <1>27 DEF ScoringHalted, dbVars, anchorVars
  <1>28. CASE FinishScore
    BY <1>28 DEF FinishScore, Halt, Shape, Record, anchorVars
  <1>29. CASE pause
    BY <1>29 DEF pause, Halt, Shape, Record, anchorVars
  <1>30. CASE clear_halt
    BY <1>30 DEF clear_halt, Shape, Record, anchorVars
  <1>31. CASE rerun_evaluation
    BY <1>31 DEF rerun_evaluation, dbVars, anchorVars
  <1>32. CASE amend_execution
    BY <1>32 DEF amend_execution, dbVars, anchorVars
  <1>33. CASE \E c \in Reals : reject_contender(c)
    BY <1>33 DEF reject_contender, anchorVars
  <1>34. CASE amend_schedule
    BY <1>34 DEF amend_schedule, Shape, Record, anchorVars
  <1>35. CASE abort
    BY <1>35 DEF abort, Terminal, Shape, Record, anchorVars
  <1>36. CASE Advance
    BY <1>36 DEF Advance, dbVars, anchorVars
  <1> QED
    BY <1>1, <1>2, <1>3, <1>4, <1>5, <1>6, <1>7, <1>8, <1>9, <1>10, <1>11, <1>12, <1>13, <1>14,
       <1>15, <1>16, <1>17, <1>18, <1>19, <1>20, <1>21, <1>22, <1>23, <1>24, <1>25, <1>26, <1>27,
       <1>28, <1>29, <1>30, <1>31, <1>32, <1>33, <1>34, <1>35, <1>36 DEF Next, Anchoring

(* Every step keeps the claim, the request and the root consistent with    *)
(* what was written.                                                       *)
LEMMA AnchorStep ==
    ASSUME Shape, PhaseOf, ClaimOK, RequestOK, RootOK, Next
    PROVE  ClaimOK' /\ RequestOK' /\ RootOK'
  <1>1. CASE AnchorFrame
    BY <1>1 DEF AnchorFrame, ClaimOK, RequestOK, RootOK, Untouched, OnlyWrote
  <1>2. CASE AnchorRequest
    <2>1. UNCHANGED <<comp, chain, params>> /\ comp.root = None
      BY <1>2 DEF AnchorRequest
    <2>2. CASE RecoverOnly(params)
      <3>1. req' = [at |-> "receipt", payload |-> params] /\ claim' = claim
        BY <1>2, <2>2 DEF AnchorRequest
      <3> QED
        BY <2>1, <2>2, <3>1 DEF RecoverOnly, ClaimOK, RequestOK, RootOK, Untouched, OnlyWrote
    <2>3. CASE ~RecoverOnly(params)
      <3>1. /\ claim' = [payload |-> params, at |-> clock]
            /\ req' = [at |-> "write", payload |-> params] /\ claim = None
        BY <1>2, <2>3 DEF AnchorRequest, ClaimRecoverable, RecoverOnly
      <3>2. claim' # None
        <4>1. [payload |-> params, at |-> clock] \in [payload : Nat, at : Nat]
          BY DEF Shape
        <4> QED
          BY <3>1, <4>1, CompetitionAssumption
      <3>3. Untouched /\ Untouched'
        BY <2>1, <3>1 DEF ClaimOK, Untouched
      <3>4. OnlyWrote(params)'
        BY <3>3 DEF OnlyWrote, Untouched
      <3> QED
        BY <2>1, <3>1, <3>2, <3>3, <3>4 DEF ClaimOK, RequestOK, RootOK, OnlyWrote
    <2> QED
      BY <2>2, <2>3
  <1>3. CASE AnchorWrite
    <2>1. /\ UNCHANGED <<comp, claim>> /\ req.at = "write" /\ req' = [req EXCEPT !.at = "receipt"]
          /\ comp.root = None /\ claim # None /\ claim.payload = req.payload /\ Untouched
      BY <1>3 DEF AnchorWrite, dbVars, RequestOK
    <2>2. chain' = chain \/ chain' = [chain EXCEPT !.pending = req.payload]
      BY <1>3 DEF AnchorWrite
    <2>3. OnlyWrote(claim.payload)'
      BY <2>1, <2>2 DEF Untouched, OnlyWrote, Shape, Ledger
    <2>4. req'.at = "receipt" /\ req'.payload = req.payload
      BY <2>1 DEF Shape, Request
    <2> QED
      BY <2>1, <2>3, <2>4 DEF ClaimOK, RequestOK, RootOK
  <1>4. CASE ChainLand
    <2>1. /\ UNCHANGED <<comp, claim, req>> /\ chain.pending # None
          /\ chain' = [landed |-> chain.landed \cup {chain.pending}, pending |-> None,
                       count |-> chain.count + 1]
      BY <1>4 DEF ChainLand, dbVars
    <2>2. ASSUME NEW p, OnlyWrote(p)
          PROVE  OnlyWrote(p)' /\ chain.landed \subseteq chain'.landed
      BY <2>1, <2>2 DEF OnlyWrote, Shape, Ledger
    <2>3. ~Untouched
      BY <2>1 DEF Untouched
    <2>4. ClaimOK'
      BY <2>1, <2>2, <2>3 DEF ClaimOK
    <2> QED
      BY <2>1, <2>3, <2>4 DEF RequestOK, RootOK
  <1>5. CASE AnchorReceipt
    <2>1. /\ req.at = "receipt" /\ req'.at = "none" /\ UNCHANGED chain
          /\ comp.root = None /\ claim # None /\ claim.payload = req.payload
      BY <1>5, LiteralsAre DEF AnchorReceipt, RequestOK
    <2>2. CASE UNCHANGED <<comp, claim>>
      BY <2>1, <2>2 DEF ClaimOK, RequestOK, RootOK, OnlyWrote, Untouched
    <2>3. CASE /\ req.payload \in chain.landed /\ claim' = None
               /\ comp' = [comp EXCEPT !.root = req.payload]
      <3>1. comp'.root = req.payload /\ comp'.phase = comp.phase
        BY <2>3 DEF Shape, Record
      <3>2. req.payload # None
        BY <2>3, CompetitionAssumption DEF Shape, Ledger
      <3> QED
        BY <2>1, <2>3, <3>1, <3>2 DEF ClaimOK, RequestOK, RootOK, OnlyWrote
    <2> QED
      BY <1>5, <2>2, <2>3 DEF AnchorReceipt, mark_commitment_anchored
  <1>6. CASE release_anchor_claim
    BY <1>6 DEF release_anchor_claim, dbVars, ClaimOK, RequestOK, RootOK, OnlyWrote, Untouched
  <1>7. CASE Crash
    BY <1>7, LiteralsAre DEF Crash, dbVars, ClaimOK, RequestOK, RootOK, OnlyWrote, Untouched
  <1> QED
    BY <1>1, <1>2, <1>3, <1>4, <1>5, <1>6, <1>7, OthersFrame DEF Anchoring

-----------------------------------------------------------------------------
(* The handler and the phase it works for.                                 *)

(* The handler stays where it is or ends.                                  *)
SamePlace ==
    \/ step' = Idle
    \/ /\ step'.at = step.at /\ step'.phase = step.phase
       /\ step.at \in {"restore", "eval"} \/ step'.c = step.c

(* The phase, the baseline, the outputs and the scores are left alone.     *)
PhaseFrame ==
    comp'.phase = comp.phase /\ SamePlace /\ UNCHANGED <<outs, score>> /\ st'[Base] = st[Base]

(* The operations that move the phase or the handler, or write results.    *)
Moving ==
    \/ TickEnroll \/ TickFinalize \/ _inject_baseline \/ TickComplete
    \/ _stage_finalizing \/ FinishArchive
    \/ _stage_validating \/ EnsureRuntime("BUILDING") \/ EnsureRuntime("EVALUATING")
    \/ RebindRuntime \/ _stage_building \/ FinishBuild \/ FinishProbe
    \/ _stage_evaluating \/ FinishBatch
    \/ FinishEvaluation \/ _stage_scoring \/ FinishScore \/ abort

(* The other operations do none of this.                                   *)
LEMMA OthersStay ==
    ASSUME Shape, PhaseOf, Next
    PROVE  Moving \/ PhaseFrame
  <1> USE DEF PhaseFrame
  <1>1. CASE _release_idle_runner
    BY <1>1 DEF _release_idle_runner, dbVars, SamePlace
  <1>2. CASE OtherAnchor
    BY <1>2 DEF OtherAnchor, dbVars, SamePlace
  <1>3. CASE ingest_evaluation_item
    BY <1>3 DEF ingest_evaluation_item, add_evaluation_item, Shape, Record, SamePlace
  <1>4. CASE AnchorRequest
    BY <1>4 DEF AnchorRequest, dbVars, SamePlace
  <1>5. CASE AnchorWrite
    BY <1>5 DEF AnchorWrite, dbVars, SamePlace
  <1>6. CASE ChainLand
    BY <1>6 DEF ChainLand, dbVars, SamePlace
  <1>7. CASE AnchorReceipt
    BY <1>7 DEF AnchorReceipt, mark_commitment_anchored, Shape, Record, SamePlace
  <1>8. CASE release_anchor_claim
    BY <1>8 DEF release_anchor_claim, dbVars, SamePlace
  <1>9. CASE \E c \in Reals : enroll_contender(c)
    BY <1>9, SubjectsAre DEF enroll_contender, Shape, SamePlace
  <1>10. CASE _check_scorer_identity
    BY <1>10 DEF _check_scorer_identity, Halt, Shape, Record, SamePlace
  <1>11. CASE EnsureRuntimeRefused
    BY <1>11 DEF EnsureRuntimeRefused, Halt, Shape, Record, SamePlace
  <1>12. CASE RestoreImage
    <2>1. SamePlace
      BY <1>12, RestoreImageIs DEF SamePlace, RestoreImage
    <2>2. comp'.phase = comp.phase
      BY <1>12, RestoreImageIs DEF Shape, Record
    <2> QED
      BY <1>12, <2>1, <2>2 DEF RestoreImage
  <1>13. CASE ItemMissing
    BY <1>13 DEF ItemMissing, Halt, Shape, Record, SamePlace
  <1>14. CASE StartBatch
    <2>1. SamePlace
      BY <1>14, StartBatchIs DEF SamePlace, StartBatch
    <2> QED
      BY <1>14, <2>1 DEF StartBatch
  <1>15. CASE ScoringHalted
    BY <1>15 DEF ScoringHalted, dbVars, SamePlace
  <1>16. CASE pause
    BY <1>16 DEF pause, Halt, Shape, Record, SamePlace
  <1>17. CASE clear_halt
    BY <1>17 DEF clear_halt, Shape, Record, SamePlace
  <1>18. CASE rerun_evaluation
    BY <1>18 DEF rerun_evaluation, dbVars, SamePlace
  <1>19. CASE amend_execution
    BY <1>19 DEF amend_execution, dbVars, SamePlace
  <1>20. CASE \E c \in Reals : reject_contender(c)
    BY <1>20, SubjectsAre DEF reject_contender, Shape, SamePlace
  <1>21. CASE amend_schedule
    BY <1>21 DEF amend_schedule, Shape, Record, SamePlace
  <1>22. CASE Advance
    BY <1>22 DEF Advance, dbVars, SamePlace
  <1>23. CASE Crash
    BY <1>23 DEF Crash, dbVars, SamePlace
  <1> QED
    BY <1>1, <1>2, <1>3, <1>4, <1>5, <1>6, <1>7, <1>8, <1>9, <1>10, <1>11, <1>12, <1>13, <1>14,
       <1>15, <1>16, <1>17, <1>18, <1>19, <1>20, <1>21, <1>22, <1>23 DEF Next, Moving

(* What is left alone stays consistent.                                    *)
LEMMA FrameKeepsPhase ==
    ASSUME Shape, PhaseOf, BaselineOK, NoScoresYet, NoOutputsYet, PhaseFrame
    PROVE  PhaseOf' /\ BaselineOK' /\ NoScoresYet' /\ NoOutputsYet'
  <1>1. PhaseOf'
    BY LiteralsAre DEF PhaseFrame, SamePlace, PhaseOf
  <1>2. BaselineOK'
    BY LiteralsAre DEF PhaseFrame, SamePlace, BaselineOK, Evaluating
  <1>3. NoScoresYet'
    BY LiteralsAre DEF PhaseFrame, SamePlace, NoScoresYet
  <1>4. NoOutputsYet'
    BY LiteralsAre DEF PhaseFrame, SamePlace, NoOutputsYet
  <1> QED
    BY <1>1, <1>2, <1>3, <1>4

(* A step of the build loop: the next contender, or the end of the stage.  *)
BuildStep ==
    \/ comp'.phase = comp.phase /\ step' = Idle
    \/ comp' = comp /\ step'.at = "build" /\ step'.phase = "" /\ step'.c \in Subjects
    \/ step' = Idle /\ comp.phase = "BUILDING" /\ comp'.phase \in {"EVALUATING", "FAILED"}

(* The operations that move keep the handler in its phase, the baseline in *)
(* the matrix, and scores and outputs behind the work they come from.      *)
LEMMA MovingKeepsPhase ==
    ASSUME Shape, PhaseOf, BaselineOK, NoScoresYet, NoOutputsYet, EvaluationOK, Moving
    PROVE  PhaseOf' /\ BaselineOK' /\ NoScoresYet' /\ NoOutputsYet'
  <1>1. CASE TickEnroll
    <2>1. /\ step' = step /\ UNCHANGED <<outs, score>> /\ st' = st /\ comp.phase = "SCHEDULED"
          /\ comp'.phase = "ENROLLING" /\ step.at = "idle"
      BY <1>1 DEF TickEnroll, Apply, Shape, Record
    <2> QED
      BY <2>1, LiteralsAre DEF PhaseOf, BaselineOK, Evaluating, NoScoresYet, NoOutputsYet, Early
  <1>2. CASE TickFinalize
    <2>1. /\ step'.at = "inject" /\ step'.phase = "" /\ UNCHANGED <<outs, score>> /\ st' = st
          /\ comp.phase = "ENROLLING" /\ comp'.phase = "FINALIZING"
      BY <1>2, LiteralsAre DEF TickFinalize, Apply, Shape, Record, Handler
    <2> QED
      BY <2>1, LiteralsAre DEF PhaseOf, BaselineOK, Evaluating, NoScoresYet, NoOutputsYet, Early
  <1>3. CASE _inject_baseline
    <2>1. step' = Idle /\ UNCHANGED <<outs, score>> /\ comp' = comp /\ step.at = "inject"
      BY <1>3 DEF _inject_baseline
    <2> QED
      BY <2>1, LiteralsAre DEF PhaseOf, BaselineOK, Evaluating, NoScoresYet, NoOutputsYet, Early
  <1>4. CASE TickComplete
    <2>1. /\ step' = step /\ step.at = "idle" /\ UNCHANGED <<outs, score>> /\ st' = st
          /\ comp.phase = "AWAITING"
      BY <1>4 DEF TickComplete
    <2>2. \/ comp'.phase = "AWAITING"
          \/ comp'.phase = "COMPLETED" /\ MissingCalibrationRows = {}
      BY <1>4, <2>1 DEF TickComplete, Apply, _release_due_upscaling_references, Halt, Shape, Record
    <2>3. comp'.phase = "COMPLETED" => score'[Base] # None
      BY <1>4, <2>1, <2>2 DEF MissingCalibrationRows, BaselineOK
    <2> QED
      BY <2>1, <2>2, <2>3, LiteralsAre DEF PhaseOf, BaselineOK, Evaluating, NoScoresYet,
         NoOutputsYet, Early
  <1>5. CASE _stage_finalizing
    <2>1. UNCHANGED <<outs, score>> /\ st' = st /\ step.at = "idle" /\ comp.phase = "FINALIZING"
      BY <1>5 DEF _stage_finalizing, StepReady
    <2>2. comp'.phase \in {"FINALIZING", "VALIDATING"}
      BY <1>5, <2>1 DEF _stage_finalizing, mark_submissions_backed_up, Apply, Shape, Record
    <2>3. \/ step' = step
          \/ comp' = comp /\ step'.at = "archive" /\ step'.phase = "" /\ step'.c \in Subjects
      BY <1>5, StageFinalizingIs
    <2> QED
      BY <2>1, <2>2, <2>3, LiteralsAre DEF PhaseOf, BaselineOK, Evaluating, NoScoresYet,
         NoOutputsYet, Early
  <1>6. CASE FinishArchive
    <2>1. UNCHANGED <<outs, score>> /\ step.at = "archive" /\ comp'.phase = comp.phase
      BY <1>6 DEF FinishArchive, Halt, Shape, Record
    <2>2. \/ step' = Idle
          \/ step'.at = "archive" /\ step'.phase = step.phase /\ step'.c \in Subjects
      BY <1>6, <2>1, NextOfIs DEF FinishArchive
    <2> QED
      BY <2>1, <2>2, LiteralsAre DEF PhaseOf, BaselineOK, Evaluating, NoScoresYet, NoOutputsYet,
         Early
  <1>7. CASE _stage_validating
    <2>1. UNCHANGED <<outs, score>> /\ step' = step /\ step.at = "idle" /\ comp.phase = "VALIDATING"
      BY <1>7 DEF _stage_validating, StepReady
    <2>2. comp'.phase \in {"VALIDATING", "BUILDING", "FAILED"}
      BY <1>7, ValidatingIs
    <2> QED
      BY <2>1, <2>2, LiteralsAre DEF PhaseOf, BaselineOK, Evaluating, NoScoresYet, NoOutputsYet,
         Early
  <1>8. CASE EnsureRuntime("BUILDING")
    <2>1. UNCHANGED <<outs, score>> /\ st' = st /\ step.at = "idle" /\ comp.phase = "BUILDING"
      BY <1>8 DEF EnsureRuntime, StepReady
    <2>2. \/ step' = step /\ comp'.phase = comp.phase
          \/ comp' = comp /\ step'.at \in {"fenced", "restore"} /\ step'.phase = "BUILDING"
      BY <1>8, EnsureRuntimeIs DEF Shape, Record
    <2> QED
      BY <2>1, <2>2, LiteralsAre DEF PhaseOf, BaselineOK, Evaluating, NoScoresYet, NoOutputsYet,
         Early
  <1>9. CASE EnsureRuntime("EVALUATING")
    <2>1. UNCHANGED <<outs, score>> /\ st' = st /\ step.at = "idle" /\ comp.phase = "EVALUATING"
      BY <1>9 DEF EnsureRuntime, StepReady
    <2>2. \/ step' = step /\ comp'.phase = comp.phase
          \/ /\ comp' = comp /\ step'.at \in {"fenced", "restore"} /\ step'.phase = "EVALUATING"
             /\ st[Base] = "BUILT"
      BY <1>9, EnsureRuntimeIs DEF Shape, Record, BaselineBuilt, Built
    <2> QED
      BY <2>1, <2>2, LiteralsAre DEF PhaseOf, BaselineOK, Evaluating, NoScoresYet, NoOutputsYet,
         Early
  <1>10. CASE RebindRuntime
    <2>1. UNCHANGED <<outs, score>> /\ st' = st /\ comp' = comp /\ step.at = "restore"
      BY <1>10 DEF RebindRuntime
    <2>2. step'.at = "fenced" /\ step'.phase = step.phase
      BY <1>10, LiteralsAre DEF RebindRuntime, Handler
    <2> QED
      BY <2>1, <2>2, LiteralsAre DEF PhaseOf, BaselineOK, Evaluating, NoScoresYet, NoOutputsYet,
         Early
  <1>11. CASE _stage_building
    <2>1. UNCHANGED <<outs, score>> /\ step.at = "fenced" /\ step.phase = "BUILDING"
      BY <1>11 DEF _stage_building
    <2>2. BuildStep
      BY <1>11, StartBuildIs DEF _stage_building, BuildStep, Shape, Record
    <2> QED
      BY <2>1, <2>2, LiteralsAre DEF PhaseOf, BaselineOK, Evaluating, NoScoresYet, NoOutputsYet,
         BuildStep, Early
  <1>12. CASE FinishBuild
    <2>1. UNCHANGED <<outs, score>> /\ step.at = "build" /\ step.c \in Subjects
      BY <1>12 DEF FinishBuild, PhaseOf
    <2>2. BuildStep \/ (step'.at = "probe" /\ step'.phase = step.phase /\ step'.c = step.c /\ comp' = comp)
      BY <1>12, StartBuildIs, FinishBuildIs DEF BuildStep, Shape, Record, Handler
    <2> QED
      BY <2>1, <2>2, LiteralsAre DEF PhaseOf, BaselineOK, Evaluating, NoScoresYet, NoOutputsYet,
         BuildStep, Early
  <1>13. CASE FinishProbe
    <2>1. UNCHANGED <<outs, score>> /\ step.at = "probe"
      BY <1>13 DEF FinishProbe, PhaseOf
    <2>2. BuildStep
      BY <1>13, StartBuildIs DEF FinishProbe, Halt, BuildStep, Shape, Record, Handler
    <2> QED
      BY <2>1, <2>2, LiteralsAre DEF PhaseOf, BaselineOK, Evaluating, NoScoresYet, NoOutputsYet,
         BuildStep, Early
  <1>14. CASE _stage_evaluating
    <2>1. /\ UNCHANGED <<outs, score>> /\ st' = st /\ comp' = comp /\ step.at = "fenced"
          /\ step.phase = "EVALUATING"
      BY <1>14 DEF _stage_evaluating
    <2>2. step'.at = "eval" /\ step'.phase = ""
      BY <1>14, LiteralsAre DEF _stage_evaluating, Handler
    <2> QED
      BY <2>1, <2>2, LiteralsAre DEF PhaseOf, BaselineOK, Evaluating, NoScoresYet, NoOutputsYet,
         Early
  <1>15. CASE FinishBatch
    <2>1. step.at = "eval"
      BY <1>15 DEF FinishBatch, EvaluationOK
    <2>2. score' = score /\ st' = st
      BY <1>15 DEF FinishBatch
    <2>3. comp'.phase = comp.phase
      BY <1>15 DEF FinishBatch, BatchOk, BatchContenderFault, BatchInfraFault, RequeueOrHalt,
         Nothing, Halt, Shape, Record
    <2>4. step'.at = step.at /\ step'.phase = step.phase
      BY <1>15 DEF FinishBatch, BatchOk, BatchContenderFault, BatchInfraFault, RequeueOrHalt,
         Nothing, Shape, Handler
    <2> QED
      BY <2>1, <2>2, <2>3, <2>4, LiteralsAre DEF PhaseOf, BaselineOK, Evaluating, NoScoresYet,
         NoOutputsYet, Early
  <1>16. CASE FinishEvaluation
    <2>1. UNCHANGED <<outs, score>> /\ st' = st /\ step' = Idle /\ step.at = "eval"
      BY <1>16 DEF FinishEvaluation
    <2>2. comp'.phase = comp.phase \/ comp'.phase = "SCORING"
      BY <1>16 DEF FinishEvaluation, mark_evaluation_complete, Apply, Shape, Record
    <2> QED
      BY <2>1, <2>2, LiteralsAre DEF PhaseOf, BaselineOK, Evaluating, NoScoresYet, NoOutputsYet,
         Early
  <1>17. CASE _stage_scoring
    <2>1. UNCHANGED <<outs, st>> /\ (step.at = "scored" \/ comp.phase = "SCORING")
      BY <1>17 DEF _stage_scoring, StepReady
    <2>2. \/ step' = Idle
          \/ step'.at = "scored" /\ step'.phase = ""
          \/ step'.at = "score" /\ step'.phase = "" /\ step'.c \in Subjects
      BY <1>17, StageScoringIs, LiteralsAre DEF Handler
    <2>3. \/ comp' = comp
          \/ comp.phase = "SCORING" /\ comp'.phase = "AWAITING" /\ step' = Idle
      BY <1>17, StageScoringIs DEF Shape, Record
    <2> QED
      BY <2>1, <2>2, <2>3, LiteralsAre DEF PhaseOf, BaselineOK, Evaluating, NoScoresYet,
         NoOutputsYet, Early
  <1>18. CASE FinishScore
    <2>1. UNCHANGED <<outs, st>> /\ step.at = "score" /\ comp'.phase = comp.phase
      BY <1>18 DEF FinishScore, Halt, Shape, Record
    <2>2. step' = Idle \/ (step'.at = "scored" /\ step'.phase = "")
      BY <1>18, LiteralsAre DEF FinishScore, Handler
    <2> QED
      BY <2>1, <2>2, LiteralsAre DEF PhaseOf, BaselineOK, Evaluating, NoScoresYet, NoOutputsYet,
         Early
  <1>19. CASE abort
    <2>1. /\ UNCHANGED <<outs, score>> /\ st' = st /\ step' = step /\ Yielded
          /\ comp.phase \notin Terminal
      BY <1>19 DEF abort, Operate
    <2>2. comp'.phase = IF comp.phase = "ENROLLING" THEN "CANCELLED" ELSE "FAILED"
      BY <1>19 DEF abort, Shape, Record
    <2> QED
      BY <2>1, <2>2, LiteralsAre DEF PhaseOf, BaselineOK, Evaluating, NoScoresYet, NoOutputsYet,
         Yielded, Terminal, Early
  <1> QED
    BY <1>1, <1>2, <1>3, <1>4, <1>5, <1>6, <1>7, <1>8, <1>9, <1>10, <1>11, <1>12, <1>13, <1>14,
       <1>15, <1>16, <1>17, <1>18, <1>19 DEF Moving

-----------------------------------------------------------------------------
(* The matrix.                                                             *)

(* The runtime and the matrix are left alone, and the handler does not     *)
(* enter the fence, the evaluation or the scoring.                         *)
MatrixFrame ==
    /\ UNCHANGED <<run, nsess, bound, outs, floor, flight, row, fault, score>>
    /\ \/ step' = step
       \/ step'.at \notin {"restore", "fenced", "eval", "score", "scored"} /\ flight = {}
    /\ comp'.phase = "SCORING" \/ step'.at \in {"score", "scored"} =>
          st' = st /\ (comp.phase = "SCORING" \/ step.at \in {"score", "scored"})

(* The operations on the runtime and the matrix.                           *)
Computing ==
    \/ _release_idle_runner \/ OtherAnchor \/ AnchorRequest
    \/ EnsureRuntime("BUILDING") \/ EnsureRuntime("EVALUATING")
    \/ RestoreImage \/ RebindRuntime \/ FinishBuild \/ FinishProbe \/ _stage_evaluating \/ StartBatch
    \/ FinishBatch \/ FinishEvaluation \/ _stage_scoring \/ FinishScore
    \/ rerun_evaluation \/ amend_execution \/ Crash

(* The other operations leave them alone.                                  *)
LEMMA OthersLeaveMatrix ==
    ASSUME Shape, PhaseOf, EvaluationOK, Next
    PROVE  Computing \/ MatrixFrame
  <1> USE DEF MatrixFrame
  <1>1. CASE ingest_evaluation_item
    BY <1>1 DEF ingest_evaluation_item, add_evaluation_item, Shape, Record, dbVars, runVars
  <1>2. CASE AnchorWrite
    BY <1>2 DEF AnchorWrite, dbVars, runVars
  <1>3. CASE ChainLand
    BY <1>3 DEF ChainLand, dbVars, runVars
  <1>4. CASE AnchorReceipt
    BY <1>4 DEF AnchorReceipt, mark_commitment_anchored, Shape, Record, dbVars, runVars
  <1>5. CASE release_anchor_claim
    BY <1>5 DEF release_anchor_claim, dbVars, runVars
  <1>6. CASE TickEnroll
    BY <1>6 DEF TickEnroll, Apply, Shape, Record, dbVars, runVars
  <1>7. CASE \E c \in Reals : enroll_contender(c)
    BY <1>7 DEF enroll_contender, PhaseOf, dbVars, runVars
  <1>8. CASE TickFinalize
    BY <1>8, LiteralsAre DEF TickFinalize, Apply, Shape, Record, Handler, EvaluationOK, dbVars,
       runVars
  <1>9. CASE _inject_baseline
    BY <1>9, LiteralsAre DEF _inject_baseline, PhaseOf, EvaluationOK, dbVars, runVars
  <1>10. CASE TickComplete
    BY <1>10 DEF TickComplete, Apply, _release_due_upscaling_references, Halt, Shape, Record,
       dbVars, runVars
  <1>11. CASE _check_scorer_identity
    BY <1>11 DEF _check_scorer_identity, Halt, Shape, Record, dbVars, runVars
  <1>12. CASE _stage_finalizing
    <2>1. comp'.phase \in {"FINALIZING", "VALIDATING"}
      BY <1>12 DEF _stage_finalizing, StepReady, mark_submissions_backed_up, Apply, Shape, Record
    <2> QED
      BY <1>12, <2>1, StageFinalizingIs DEF _stage_finalizing, StepReady, EvaluationOK, dbVars,
         runVars
  <1>13. CASE FinishArchive
    <2>1. comp'.phase = comp.phase /\ step.at = "archive"
      BY <1>13 DEF FinishArchive, Halt, Shape, Record
    <2>2. step' = Idle \/ step'.at = "archive"
      BY <1>13, <2>1, NextOfIs DEF FinishArchive
    <2> QED
      BY <1>13, <2>1, <2>2, LiteralsAre DEF FinishArchive, EvaluationOK, PhaseOf, dbVars, runVars
  <1>14. CASE _stage_validating
    BY <1>14, ValidatingIs DEF _stage_validating, StepReady, dbVars, runVars
  <1>15. CASE EnsureRuntimeRefused
    BY <1>15 DEF EnsureRuntimeRefused, Halt, Shape, Record, dbVars, runVars
  <1>16. CASE _stage_building
    <2>1. step' = Idle \/ step'.at = "build"
      BY <1>16, StartBuildIs DEF _stage_building
    <2>2. comp'.phase # "SCORING"
      BY <1>16, StartBuildIs DEF _stage_building, PhaseOf, Shape, Record
    <2> QED
      BY <1>16, <2>1, <2>2, LiteralsAre DEF _stage_building, EvaluationOK, dbVars, runVars
  <1>17. CASE ItemMissing
    BY <1>17, LiteralsAre DEF ItemMissing, Halt, Shape, Record, EvaluationOK, dbVars, runVars
  <1>18. CASE ScoringHalted
    BY <1>18, LiteralsAre DEF ScoringHalted, EvaluationOK, dbVars, runVars
  <1>19. CASE pause
    BY <1>19 DEF pause, Halt, Shape, Record, dbVars, runVars
  <1>20. CASE clear_halt
    BY <1>20 DEF clear_halt, Shape, Record, dbVars, runVars
  <1>21. CASE \E c \in Reals : reject_contender(c)
    BY <1>21 DEF reject_contender, PhaseOf, dbVars, runVars
  <1>22. CASE amend_schedule
    BY <1>22 DEF amend_schedule, Shape, Record, dbVars, runVars
  <1>23. CASE abort
    BY <1>23 DEF abort, Shape, Record, dbVars, runVars
  <1>24. CASE Advance
    BY <1>24 DEF Advance, dbVars, runVars
  <1> QED
    BY <1>1, <1>2, <1>3, <1>4, <1>5, <1>6, <1>7, <1>8, <1>9, <1>10, <1>11, <1>12, <1>13, <1>14,
       <1>15, <1>16, <1>17, <1>18, <1>19, <1>20, <1>21, <1>22, <1>23, <1>24 DEF Next, Computing

(* What is left alone stays consistent.                                    *)
LEMMA FrameKeepsMatrix ==
    ASSUME Shape, RunOK, OutputsOK, EvaluationOK, RowsOK, ScoresOK, MatrixFrame
    PROVE  RunOK' /\ OutputsOK' /\ EvaluationOK' /\ RowsOK' /\ ScoresOK'
  <1>1. RunOK'
    BY DEF MatrixFrame, RunOK, Evaluating
  <1>2. OutputsOK'
    BY DEF MatrixFrame, OutputsOK, Current
  <1>3. EvaluationOK'
    BY DEF MatrixFrame, EvaluationOK, Evaluating, Current
  <1>4. RowsOK'
    BY DEF MatrixFrame, RowsOK, Current
  <1>5. ScoresOK'
    BY DEF MatrixFrame, ScoresOK, Current
  <1> QED
    BY <1>1, <1>2, <1>3, <1>4, <1>5

(* The invariant of the matrix and of the runtime that computes it.        *)
MatrixOK == RunOK /\ OutputsOK /\ EvaluationOK /\ RowsOK /\ ScoresOK

(* What the operations on the matrix may rely on.                          *)
Before == Shape /\ PhaseOf /\ BaselineOK /\ NoScoresYet /\ NoOutputsYet /\ MatrixOK

(* Rows, outputs and scores stay when only the runner changes.             *)
LEMMA RunnerOnly ==
    ASSUME Before, UNCHANGED <<bound, outs, floor, row, fault, score>>, nsess' \in Nat, nsess' >= nsess,
           comp'.phase = "SCORING" \/ step'.at \in {"score", "scored"} =>
               st' = st /\ (comp.phase = "SCORING" \/ step.at \in {"score", "scored"})
    PROVE  OutputsOK' /\ RowsOK' /\ ScoresOK'
  <1>1. OutputsOK'
    <2>1. \A c \in Subjects : outs[c] # None => outs[c] \in Output
      BY DEF Before, Shape
    <2>2. \A c \in Subjects : outs[c] # None => outs[c].sess \in Nat
      BY <2>1 DEF Output
    <2>3. \A c \in Subjects : outs[c] # None => outs[c].sess <= nsess'
      BY <2>2 DEF Before, MatrixOK, OutputsOK, Shape
    <2> QED
      BY <2>3 DEF Before, MatrixOK, OutputsOK, Current
  <1>2. RowsOK'
    BY DEF Before, MatrixOK, RowsOK, Current
  <1>3. ScoresOK'
    BY DEF Before, MatrixOK, ScoresOK, Current
  <1> QED
    BY <1>1, <1>2, <1>3

(* A new floor begins without outputs and without settled rows.            *)
LEMMA NewFloor ==
    ASSUME Before, ResetEvaluation, UNCHANGED <<outs, fault, score, nsess>>,
           comp.phase \in Early \/ step.at = "restore",
           comp'.phase # "SCORING", step'.at \notin {"score", "scored"}
    PROVE  /\ OutputsOK' /\ RowsOK' /\ ScoresOK'
           /\ \A c \in Subjects : ~Current(c)'
  <1>1. \A c \in Subjects : outs[c] # None => outs[c] \in Output
    BY DEF Before, Shape
  <1>2. \A c \in Subjects : outs[c] # None => outs[c].at \in Nat /\ outs[c].at <= floor
    BY <1>1 DEF Output, Before, MatrixOK, OutputsOK
  <1>3. floor' = floor + 1 /\ floor \in Nat
    BY DEF ResetEvaluation, Before, Shape
  <1>4. \A c \in Subjects : ~Current(c)'
    BY <1>2, <1>3 DEF Current
  <1>5. OutputsOK'
    <2>1. \A c \in Subjects : outs[c] # None => outs[c].at <= floor'
      BY <1>2, <1>3
    <2> QED
      BY <1>4, <2>1 DEF Before, MatrixOK, OutputsOK
  <1>6. \A c \in Subjects : row'[c] \notin Settled
    BY DEF ResetEvaluation, Settled
  <1>7. RowsOK'
    BY <1>6 DEF RowsOK, Settled
  <1>8. \A c \in Subjects : score[c] = None
    BY DEF Before, NoScoresYet
  <1>9. ScoresOK'
    BY <1>8, LiteralsAre DEF ScoresOK
  <1> QED
    BY <1>4, <1>5, <1>7, <1>9

(* The runner is given up by an idle orchestrator, or dies with it.        *)
LEMMA LostRunnerKeepsMatrix ==
    ASSUME Before, _release_idle_runner \/ Crash
    PROVE  MatrixOK'
  <1>1. /\ run' = NoRun /\ UNCHANGED <<comp, st, nsess, bound, outs, floor, row, fault, score>>
        /\ \/ step' = Idle /\ flight' = {}
           \/ step' = step /\ step.at = "idle" /\ flight' = flight
    BY DEF _release_idle_runner, discard, Crash, dbVars
  <1>2. step'.at = "idle"
    BY <1>1, LiteralsAre
  <1>3. nsess' \in Nat /\ nsess' >= nsess
    BY <1>1 DEF Before, Shape
  <1>4. OutputsOK' /\ RowsOK' /\ ScoresOK'
    BY <1>1, <1>2, <1>3, RunnerOnly
  <1>5. RunOK'
    BY <1>1, <1>2, LiteralsAre DEF RunOK, Evaluating, Before, MatrixOK
  <1>6. EvaluationOK'
    BY <1>1, <1>2 DEF EvaluationOK, Evaluating, Before, MatrixOK
  <1> QED
    BY <1>4, <1>5, <1>6 DEF MatrixOK

(* Another competition takes the runner or replaces it.                    *)
LEMMA OtherAnchorKeepsMatrix ==
    ASSUME Before, OtherAnchor
    PROVE  MatrixOK'
  <1> DEFINE r == acquire(OtherEnvelope)
  <1>1. OtherEnvelope \in Nat /\ Shape /\ Acquired(OtherEnvelope)
    BY DEF OtherEnvelope, Before, OtherAnchor
  <1>2. /\ r \in Runner /\ r.sess # None /\ nsess' \in Nat /\ nsess' >= nsess
        /\ \/ r = run /\ nsess' = nsess
           \/ r.sess = nsess + 1 /\ nsess' = nsess + 1 /\ r.probed = {} /\ r.live = {}
    BY <1>1, AcquireGives
  <1>3. run' = BuiltIn(r, Base)
    BY DEF OtherAnchor
  <1> HIDE DEF r
  <1>4. run'.sess = r.sess /\ run'.probed = r.probed \ {Base}
    BY <1>2, <1>3, BuiltInIs, SubjectsAre
  <1>5. UNCHANGED <<comp, st, bound, outs, floor, row, fault, score, step, flight>>
    BY DEF OtherAnchor, dbVars
  <1>6. OutputsOK' /\ RowsOK' /\ ScoresOK'
    BY <1>2, <1>5, RunnerOnly
  <1>7. run'.sess # None /\ run'.sess = nsess'
    BY <1>2, <1>4 DEF Before, MatrixOK, RunOK
  <1>8. RunOK'
    <2>1. bound # None => bound <= nsess'
      BY <1>2 DEF Before, Shape, MatrixOK, RunOK
    <2>2. step.at = "restore" => step.sess # None /\ step.sess <= nsess'
      <3>1. step.sess \in Nat \cup {None} /\ nsess \in Nat
        BY DEF Before, Shape, Handler
      <3>2. step.at = "restore" => step.sess # None /\ step.sess <= nsess
        BY DEF Before, MatrixOK, RunOK
      <3> QED
        BY <1>2, <3>1, <3>2
    <2> QED
      BY <1>5, <1>7, <2>1, <2>2 DEF RunOK, Evaluating, Before, MatrixOK
  <1>9. EvaluationOK'
    <2>1. run'.probed = {} \/ (run'.sess = run.sess /\ run.probed # {})
      BY <1>2, <1>4
    <2> QED
      BY <1>5, <2>1 DEF EvaluationOK, Evaluating, Current, Before, MatrixOK
  <1> QED
    BY <1>6, <1>8, <1>9 DEF MatrixOK

(* The anchoring of this competition builds its baseline and binds the     *)
(* runner, before any output.                                              *)
LEMMA AnchorRequestKeepsMatrix ==
    ASSUME Before, AnchorRequest
    PROVE  MatrixOK'
  <1> DEFINE r == acquire(envelope)
  <1>1. envelope \in Nat /\ Shape /\ Acquired(envelope)
    BY DEF Before, AnchorRequest, Shape
  <1>2. /\ r \in Runner /\ r.sess # None /\ nsess' \in Nat /\ nsess' >= nsess
        /\ \/ r = run /\ nsess' = nsess
           \/ r.sess = nsess + 1 /\ nsess' = nsess + 1 /\ r.probed = {} /\ r.live = {}
    BY <1>1, AcquireGives
  <1>3. PICK b : b = r
    OBVIOUS
  <1>4. run' = BuiltIn(b, Base) /\ bound' = run'.sess
    BY <1>3 DEF AnchorRequest
  <1>5. run'.sess = b.sess /\ bound' = b.sess
    BY <1>2, <1>3, <1>4, BuiltInIs, SubjectsAre
  <1>6. /\ UNCHANGED <<comp, st, outs, floor, row, fault, score, step, flight>>
        /\ comp.phase = "SCHEDULED"
    BY DEF AnchorRequest
  <1>7. b.sess # None /\ b.sess = nsess'
    BY <1>2, <1>3 DEF Before, MatrixOK, RunOK
  <1>8. step.at \notin {"restore", "fenced", "eval"}
    BY <1>6 DEF Before, PhaseOf
  <1>9. RunOK'
    BY <1>2, <1>5, <1>6, <1>7, <1>8 DEF RunOK, Evaluating
  <1>10. \A c \in Subjects : outs[c] = None
    BY <1>6 DEF Before, NoOutputsYet, Early
  <1>11. OutputsOK'
    BY <1>6, <1>10 DEF OutputsOK, Current
  <1>12. EvaluationOK' /\ RowsOK' /\ ScoresOK'
    BY <1>6, <1>8 DEF EvaluationOK, RowsOK, ScoresOK, Evaluating, Current, Before, MatrixOK
  <1> QED
    BY <1>9, <1>11, <1>12 DEF MatrixOK

(* Outputs of the floor lie between the binding and the newest session.    *)
LEMMA OutputsBetween ==
    ASSUME Before, NEW c \in Subjects, Current(c)
    PROVE  /\ outs[c].sess \in Nat /\ bound \in Nat /\ nsess \in Nat
           /\ bound <= outs[c].sess /\ outs[c].sess <= nsess
  <1>1. outs[c] \in Output
    BY DEF Before, Shape, Current
  <1>2. outs[c].sess \in Nat
    BY <1>1 DEF Output
  <1> QED
    BY <1>2 DEF Before, Shape, MatrixOK, OutputsOK, Current

(* The fence: a runner of the bound session made every output of the       *)
(* floor, and a fresh one can execute nothing yet.                         *)
LEMMA EnsureRuntimeKeepsMatrix ==
    ASSUME Before, NEW phase \in {"BUILDING", "EVALUATING"}, EnsureRuntime(phase)
    PROVE  MatrixOK'
  <1>1. /\ UNCHANGED <<st, outs, floor, row, fault, score, flight>> /\ flight = {}
        /\ step.at = "idle" /\ comp.phase = phase
    BY DEF EnsureRuntime, StepReady, Before, MatrixOK, EvaluationOK
  <1>2. /\ run' \in Runner /\ run'.sess # None /\ nsess' \in Nat /\ nsess' >= nsess
        /\ \/ run' = run /\ nsess' = nsess
           \/ run'.sess = nsess + 1 /\ nsess' = nsess + 1 /\ run'.probed = {}
    BY EnsureRuntimeIs DEF Before
  <1>3. run'.sess = nsess' /\ run'.sess \in Nat
    BY <1>2 DEF Before, MatrixOK, RunOK
  <1>4. bound \in Nat \cup {None} /\ (bound # None => bound <= nsess')
    BY <1>2 DEF Before, Shape, MatrixOK, RunOK
  <1>5. CASE comp' = [comp EXCEPT !.halted = TRUE] /\ UNCHANGED <<step, bound>>
    <2>1. comp'.phase = comp.phase
      BY <1>5 DEF Before, Shape, Record
    <2>2. OutputsOK' /\ RowsOK' /\ ScoresOK'
      BY <1>1, <1>2, <1>5, <2>1, RunnerOnly
    <2>3. RunOK' /\ EvaluationOK'
      BY <1>1, <1>2, <1>3, <1>4, <1>5 DEF RunOK, EvaluationOK, Evaluating
    <2> QED
      BY <2>2, <2>3 DEF MatrixOK
  <1>6. CASE /\ UNCHANGED <<comp, bound>> /\ step'.phase = phase /\ step'.at = "fenced"
             /\ run'.sess = bound
    <2>1. OutputsOK' /\ RowsOK' /\ ScoresOK'
      BY <1>1, <1>2, <1>6, RunnerOnly
    <2>2. RunOK'
      BY <1>2, <1>3, <1>4, <1>6 DEF RunOK, Evaluating
    <2>3. run'.probed = {} \/ nsess = bound
      BY <1>2, <1>3, <1>6
    <2>4. ASSUME NEW c \in Subjects, Current(c), run'.probed # {}
          PROVE  outs[c].sess = run'.sess
      BY <1>6, <2>3, <2>4, OutputsBetween
    <2>5. EvaluationOK'
      BY <1>1, <2>4 DEF EvaluationOK, Evaluating, Current
    <2> QED
      BY <2>1, <2>2, <2>5 DEF MatrixOK
  <1>7. CASE /\ UNCHANGED comp /\ step'.phase = phase /\ step'.at = "fenced" /\ BaselineBuilt(phase)
             /\ Built = {} /\ bound' = run'.sess
    <2>1. phase = "BUILDING"
      BY <1>7 DEF BaselineBuilt
    <2>2. \A c \in Subjects : outs[c] = None
      BY <1>1, <2>1 DEF Before, NoOutputsYet, Early
    <2>3. OutputsOK'
      BY <1>1, <2>2 DEF OutputsOK, Current
    <2>4. RowsOK' /\ ScoresOK'
      BY <1>1, <1>7 DEF RowsOK, ScoresOK, Current, Before, MatrixOK
    <2>5. RunOK' /\ EvaluationOK'
      BY <1>1, <1>2, <1>3, <1>7, <2>1 DEF RunOK, EvaluationOK, Evaluating
    <2> QED
      BY <2>3, <2>4, <2>5 DEF MatrixOK
  <1>8. CASE /\ UNCHANGED <<comp, bound>> /\ step'.at = "restore" /\ step'.sess = run'.sess
    <2>1. OutputsOK' /\ RowsOK' /\ ScoresOK'
      BY <1>1, <1>2, <1>8, RunnerOnly
    <2>2. RunOK' /\ EvaluationOK'
      BY <1>1, <1>2, <1>3, <1>4, <1>8 DEF RunOK, EvaluationOK, Evaluating
    <2> QED
      BY <2>1, <2>2 DEF MatrixOK
  <1> QED
    BY <1>5, <1>6, <1>7, <1>8, EnsureRuntimeIs DEF Before

(* The restoration and the build loop work in the runner that is there,    *)
(* outside the evaluation.                                                 *)
LEMMA PreparationKeepsMatrix ==
    ASSUME Before, RestoreImage \/ FinishBuild \/ FinishProbe
    PROVE  MatrixOK'
  <1>1. /\ UNCHANGED <<nsess, bound, outs, floor, row, fault, score, flight>> /\ flight = {}
        /\ step.at \in {"restore", "build", "probe"}
    BY DEF RestoreImage, FinishBuild, FinishProbe, Before, MatrixOK, EvaluationOK
  <1>2. run'.sess = run.sess /\ (run.sess = None => run' = run)
    <2>1. CASE RestoreImage
      BY <2>1, RestoreImageIs DEF Before
    <2>2. CASE FinishBuild
      <3>1. run.sess = None => run' = run
        BY <2>2 DEF FinishBuild
      <3> QED
        BY <2>2, <3>1, FinishBuildIs DEF Before
    <2>3. CASE FinishProbe
      <3>1. run' = run \/ (run' = [run EXCEPT !.probed = @ \cup {step.c}] /\ step.c \in run.live)
        BY <2>3 DEF FinishProbe
      <3> QED
        BY <3>1 DEF Before, Shape, Runner, MatrixOK, RunOK
    <2> QED
      BY <2>1, <2>2, <2>3
  <1>3. comp'.phase # "SCORING" /\ step'.at \notin {"score", "scored", "fenced", "eval"}
    <2>1. comp.phase \in {"BUILDING", "EVALUATING", "FAILED"}
      BY <1>1 DEF Before, PhaseOf
    <2>2. CASE RestoreImage
      BY <2>1, <2>2, RestoreImageIs, LiteralsAre DEF Before, Shape, Record
    <2>3. CASE FinishBuild
      <3>1. \/ step' = [step EXCEPT !.at = "probe"] /\ UNCHANGED comp
            \/ StartBuild(step.todo)
            \/ comp' = [comp EXCEPT !.halted = TRUE] /\ step' = Idle
        BY <2>3, FinishBuildIs DEF Before
      <3> QED
        BY <2>1, <3>1, StartBuildIs, LiteralsAre DEF Before, Shape, Record, Handler
    <2>4. CASE FinishProbe
      <3>1. StartBuild(step.todo) \/ (comp' = [comp EXCEPT !.halted = TRUE] /\ step' = Idle)
        BY <2>4 DEF FinishProbe, Halt
      <3> QED
        BY <2>1, <3>1, StartBuildIs, LiteralsAre DEF Before, Shape, Record, Handler
    <2> QED
      BY <2>2, <2>3, <2>4
  <1>4. step'.at = "restore" => step'.sess = step.sess /\ step.at = "restore"
    <2>1. CASE RestoreImage
      BY <1>1, <2>1, RestoreImageIs, LiteralsAre DEF Before, RestoreImage
    <2>2. CASE FinishBuild
      BY <2>2, FinishBuildIs, StartBuildIs, LiteralsAre DEF Before, Shape, Handler
    <2>3. CASE FinishProbe
      BY <2>3, StartBuildIs, LiteralsAre DEF Before, Shape, Handler, FinishProbe
    <2> QED
      BY <2>1, <2>2, <2>3
  <1>5. nsess' \in Nat /\ nsess' >= nsess
    BY <1>1 DEF Before, Shape
  <1>6. OutputsOK' /\ RowsOK' /\ ScoresOK'
    BY <1>1, <1>3, <1>5, RunnerOnly
  <1>7. RunOK'
    BY <1>1, <1>2, <1>3, <1>4 DEF RunOK, Evaluating, Before, MatrixOK
  <1>8. EvaluationOK'
    BY <1>1, <1>3 DEF EvaluationOK, Evaluating
  <1> QED
    BY <1>6, <1>7, <1>8 DEF MatrixOK

(* The restored session is bound: behind a new floor while the matrix is   *)
(* evaluated, and before any output while it is built.                     *)
LEMMA RebindKeepsMatrix ==
    ASSUME Before, RebindRuntime
    PROVE  MatrixOK'
  <1>1. /\ step.at = "restore" /\ bound' = step.sess
        /\ UNCHANGED <<comp, st, outs, fault, score, run, nsess, flight>> /\ flight = {}
    BY DEF RebindRuntime, runVars, Before, MatrixOK, EvaluationOK
  <1>2. step'.at = "fenced" /\ step'.phase = step.phase
    BY LiteralsAre DEF RebindRuntime, Handler
  <1>3. step.sess # None /\ step.sess <= nsess
    BY <1>1 DEF Before, MatrixOK, RunOK
  <1>4. RunOK'
    BY <1>1, <1>2, <1>3 DEF RunOK, Before, MatrixOK
  <1>5. comp.phase # "SCORING"
    BY <1>1 DEF Before, PhaseOf
  <1>6. CASE step.phase = "EVALUATING"
    <2>1. ResetEvaluation
      BY <1>6 DEF RebindRuntime
    <2>2. OutputsOK' /\ RowsOK' /\ ScoresOK' /\ \A c \in Subjects : ~Current(c)'
      BY <1>1, <1>2, <1>5, <2>1, NewFloor
    <2>3. EvaluationOK'
      BY <1>1, <2>2 DEF EvaluationOK
    <2> QED
      BY <1>4, <2>2, <2>3 DEF MatrixOK
  <1>7. CASE step.phase # "EVALUATING"
    <2>1. UNCHANGED <<row, floor>> /\ step.phase = "BUILDING"
      BY <1>1, <1>7 DEF RebindRuntime, Before, PhaseOf
    <2>2. \A c \in Subjects : outs[c] = None
      BY <2>1 DEF Before, NoOutputsYet
    <2>3. OutputsOK'
      BY <1>1, <2>1, <2>2 DEF OutputsOK, Current
    <2>4. RowsOK' /\ ScoresOK'
      BY <1>1, <1>2, <1>5, <2>1 DEF RowsOK, ScoresOK, Current, Before, MatrixOK
    <2>5. EvaluationOK'
      BY <1>1, <1>2, <2>1 DEF EvaluationOK, Evaluating
    <2> QED
      BY <1>4, <2>3, <2>4, <2>5 DEF MatrixOK
  <1> QED
    BY <1>6, <1>7

(* An operator's rerun, or a raised envelope, puts the matrix behind a new *)
(* floor while the batches of the old one may still be in flight.          *)
LEMMA ResetKeepsMatrix ==
    ASSUME Before, rerun_evaluation \/ amend_execution
    PROVE  MatrixOK'
  <1>1. UNCHANGED <<comp, st, outs, fault, score, bound, run, nsess, step, flight>>
    BY DEF rerun_evaluation, amend_execution, runVars
  <1>2. RunOK'
    BY <1>1 DEF RunOK, Evaluating, Before, MatrixOK
  <1>3. CASE UNCHANGED <<row, floor>>
    BY <1>1, <1>2, <1>3 DEF MatrixOK, OutputsOK, EvaluationOK, RowsOK, ScoresOK, Evaluating,
       Current,
       Before
  <1>4. CASE ResetEvaluation /\ comp.phase = "EVALUATING"
    <2>1. step.at \notin {"score", "scored"}
      BY <1>4 DEF Before, PhaseOf
    <2>2. OutputsOK' /\ RowsOK' /\ ScoresOK' /\ \A c \in Subjects : ~Current(c)'
      BY <1>1, <1>4, <2>1, NewFloor DEF Early
    <2>3. EvaluationOK'
      BY <1>1, <2>2 DEF EvaluationOK, Before, MatrixOK
    <2> QED
      BY <1>2, <2>2, <2>3 DEF MatrixOK
  <1> QED
    BY <1>3, <1>4 DEF rerun_evaluation, amend_execution

(* Batch rows are created and batches start; nothing settles.              *)
LEMMA StartingKeepsMatrix ==
    ASSUME Before, _stage_evaluating \/ StartBatch
    PROVE  MatrixOK'
  <1>1. /\ UNCHANGED <<comp, st, outs, floor, fault, score, bound, run, nsess>> /\ Evaluating
        /\ step'.at = "eval"
    BY LiteralsAre, StartBatchIs DEF _stage_evaluating, StartBatch, runVars, Evaluating, Handler,
       Before
  <1>2. \A c \in Subjects : row'[c] \in Settled => row'[c] = row[c]
    <2>1. CASE _stage_evaluating
      BY <2>1 DEF _stage_evaluating, Settled
    <2>2. CASE StartBatch
      BY <2>2, StartBatchIs DEF Before, Shape, Settled
    <2> QED
      BY <2>1, <2>2
  <1>3. comp.phase # "SCORING"
    BY <1>1 DEF Before, PhaseOf, Evaluating
  <1>4. RunOK' /\ EvaluationOK'
    BY <1>1 DEF RunOK, EvaluationOK, Evaluating, Current, Before, MatrixOK
  <1>5. OutputsOK' /\ ScoresOK'
    BY <1>1 DEF OutputsOK, ScoresOK, Current, Before, MatrixOK
  <1>6. RowsOK'
    BY <1>1, <1>2, <1>3 DEF RowsOK, Settled, Current, Before, MatrixOK
  <1> QED
    BY <1>4, <1>5, <1>6 DEF MatrixOK

(* The gathered evaluation ends; the phase moves on settled rows only.     *)
LEMMA FinishEvaluationKeepsMatrix ==
    ASSUME Before, FinishEvaluation
    PROVE  MatrixOK'
  <1>1. /\ UNCHANGED <<st, outs, row, floor, fault, score, bound, run, nsess, flight>> /\ flight = {}
        /\ step'.at = "idle" /\ step.at = "eval"
    BY LiteralsAre DEF FinishEvaluation, runVars
  <1>2. comp' = comp \/ \A c \in Subjects : st[c] = "BUILT" => row[c] \in Settled
    BY DEF FinishEvaluation, mark_evaluation_complete, Built, Settled
  <1>3. comp' = comp => comp'.phase # "SCORING"
    BY <1>1 DEF Before, PhaseOf
  <1>4. RunOK' /\ EvaluationOK'
    BY <1>1 DEF RunOK, EvaluationOK, Evaluating, Before, MatrixOK
  <1>5. OutputsOK' /\ ScoresOK'
    BY <1>1 DEF OutputsOK, ScoresOK, Current, Before, MatrixOK
  <1>6. RowsOK'
    BY <1>1, <1>2, <1>3 DEF RowsOK, Current, Before, MatrixOK
  <1> QED
    BY <1>4, <1>5, <1>6 DEF MatrixOK

(* A batch ends.  Its output is kept only under the floor it started under *)
(* and is of the runner's session; so are the floor's other outputs, or    *)
(* the runner could not have executed it.                                  *)
LEMMA FinishBatchKeepsMatrix ==
    ASSUME Before, FinishBatch
    PROVE  MatrixOK'
  <1>1. PICK b \in flight :
           /\ flight' = flight \ {b}
           /\ BatchOk(b) \/ BatchContenderFault(b) \/ BatchInfraFault(b)
           /\ UNCHANGED <<st, archived, floor, score, bound, images, envelope, nsess, anchorVars,
                          clock, ops, crashes>>
    BY DEF FinishBatch
  <1>2. b.c \in Subjects /\ step.at = "eval" /\ Evaluating
    BY <1>1 DEF Before, Shape, MatrixOK, EvaluationOK, Evaluating
  <1>3. \A c \in Subjects : score[c] = None
    BY <1>2 DEF Before, NoScoresYet
  <1>4. ScoresOK'
    BY <1>1, <1>3, LiteralsAre DEF ScoresOK
  <1>5. comp'.phase # "SCORING"
    BY <1>1, <1>2 DEF BatchOk, BatchContenderFault, BatchInfraFault, RequeueOrHalt, Nothing, Halt,
       Before, Shape, Record, PhaseOf
  <1>6. step'.at = "eval"
    BY <1>1, <1>2 DEF BatchOk, BatchContenderFault, BatchInfraFault, RequeueOrHalt, Nothing,
       Before, Shape, Handler
  <1>7. run' = run \/ run' = NoRun
    BY <1>1 DEF BatchOk, BatchContenderFault, BatchInfraFault, discard
  <1>8. RunOK'
    BY <1>1, <1>2, <1>6, <1>7, LiteralsAre DEF RunOK, Evaluating, Before, MatrixOK
  <1>9. CASE ~(BatchOk(b) /\ ~fenced(b))
    <2>0. outs' = outs
      BY <1>1, <1>9 DEF BatchOk, BatchContenderFault, BatchInfraFault, Nothing
    <2>1. OutputsOK'
      BY <1>1, <2>0 DEF OutputsOK, Current, Before, MatrixOK
    <2>2. EvaluationOK'
      BY <1>1, <1>2, <1>6, <1>7, <2>0, LiteralsAre DEF EvaluationOK, Evaluating, Current, Before,
         MatrixOK
    <2>3. \A c \in Subjects : \/ row'[c] = row[c] /\ fault'[c] = fault[c]
                              \/ row'[c] = "REQUEUED"
                              \/ row'[c] = "COMPLETED" /\ row'[c] = row[c]
                              \/ row'[c] = "FAILED" /\ fault'[c] = floor
      <3>1. CASE BatchOk(b)
        BY <3>1, <1>9 DEF BatchOk, Nothing
      <3>2. CASE BatchContenderFault(b)
        BY <3>2, <1>2 DEF BatchContenderFault, Nothing, Before, Shape
      <3>3. CASE BatchInfraFault(b)
        BY <3>3, <1>2 DEF BatchInfraFault, RequeueOrHalt, Nothing, Before, Shape
      <3> QED
        BY <1>1, <3>1, <3>2, <3>3
    <2>4. RowsOK'
      BY <1>1, <1>5, <1>6, <2>0, <2>3 DEF RowsOK, Current, Before, MatrixOK
    <2> QED
      BY <1>4, <1>8, <2>1, <2>2, <2>4 DEF MatrixOK
  <1>10. CASE BatchOk(b) /\ ~fenced(b)
    <2>1. /\ outs' = [outs EXCEPT ![b.c] = [at |-> floor, ran |-> b.floor, sess |-> run.sess]]
          /\ row' = [row EXCEPT ![b.c] = "COMPLETED"] /\ UNCHANGED <<fault, run>>
          /\ b.floor = floor /\ run.sess # None /\ run.probed # {}
      BY <1>10 DEF BatchOk, CanExecute, Nothing, fenced
    <2>2. run.sess = nsess /\ nsess \in Nat /\ bound # None /\ bound \in Nat /\ bound <= nsess
      BY <1>2, <2>1 DEF Before, Shape, MatrixOK, RunOK
    <2>3. \A c \in Subjects : Current(c) => outs[c].sess = nsess
      BY <1>2, <2>1, <2>2 DEF Before, MatrixOK, EvaluationOK
    <2>4. PICK o : o = [at |-> floor, ran |-> floor, sess |-> nsess]
      OBVIOUS
    <2>5. /\ outs' = [outs EXCEPT ![b.c] = o] /\ o.at = floor /\ o.ran = floor /\ o.sess = nsess
          /\ o \in Output
      BY <2>1, <2>2, <2>4 DEF Before, Shape, Output
    <2>6. o # None
      BY <2>5, CompetitionAssumption DEF Output
    <2>7. outs'[b.c] = o /\ \A c \in Subjects \ {b.c} : outs'[c] = outs[c]
      BY <1>2, <2>5 DEF Before, Shape
    <2>8. floor' = floor /\ nsess' = nsess /\ bound' = bound
      BY <1>1
    <2>9. /\ Current(b.c)' /\ \A c \in Subjects \ {b.c} : Current(c)' <=> Current(c)
      BY <2>5, <2>6, <2>7, <2>8 DEF Current
    <2>10. \A c \in Subjects : outs'[c] # None =>
              outs'[c].ran = outs'[c].at /\ outs'[c].at <= floor /\ outs'[c].sess <= nsess
      <3>1. floor <= floor /\ nsess <= nsess
        BY <2>2 DEF Before, Shape
      <3> QED
        BY <2>5, <2>7, <3>1 DEF Before, MatrixOK, OutputsOK
    <2>11. \A c \in Subjects : Current(c)' => outs'[c].sess = nsess
      BY <2>3, <2>5, <2>7, <2>9
    <2>12. OutputsOK'
      BY <2>2, <2>8, <2>10, <2>11 DEF OutputsOK
    <2>13. EvaluationOK'
      BY <1>6, <2>1, <2>2, <2>11 DEF EvaluationOK
    <2>14. RowsOK'
      BY <1>1, <1>2, <1>5, <1>6, <2>1, <2>8, <2>9 DEF RowsOK, Before, Shape, MatrixOK
    <2> QED
      BY <1>4, <1>8, <2>12, <2>13, <2>14 DEF MatrixOK
  <1> QED
    BY <1>9, <1>10

(* A built subject without an output of the floor has failed by its own    *)
(* doing: its row is settled.                                              *)
LEMMA StageScoringKeepsMatrix ==
    ASSUME Before, _stage_scoring
    PROVE  MatrixOK'
  <1>1. /\ UNCHANGED <<st, outs, row, floor, fault, bound, run, nsess, flight>>
        /\ comp.phase = "SCORING" \/ step.at = "scored"
        /\ step.at \in {"idle", "scored"} /\ flight = {}
    BY DEF _stage_scoring, StepReady, runVars, Before, MatrixOK, EvaluationOK
  <1>2. step'.at \in {"idle", "scored", "score"}
    BY StageScoringIs, LiteralsAre DEF Before, Handler
  <1>3. \A c \in Subjects : st[c] = "BUILT" => row[c] \in Settled
    BY <1>1 DEF Before, MatrixOK, RowsOK
  <1>4. RunOK' /\ EvaluationOK'
    BY <1>1, <1>2 DEF RunOK, EvaluationOK, Evaluating, Before, MatrixOK
  <1>5. OutputsOK' /\ RowsOK'
    BY <1>1, <1>3 DEF OutputsOK, RowsOK, Current, Before, MatrixOK
  <1>6. ScoresOK'
    <2>1. CASE score' = score
      BY <1>1, <2>1 DEF ScoresOK, Current, Before, MatrixOK
    <2>2. CASE score' # score
      <3>1. PICK c \in Unscored : /\ c \in Subjects /\ outputs_for_contender(c) = None
                                  /\ score' = [score EXCEPT ![c] = Zero]
        BY <2>2, StageScoringIs DEF Before
      <3>2. ~Current(c)
        BY <3>1 DEF outputs_for_contender, Current
      <3>3. fault[c] = floor
        BY <1>3, <3>1, <3>2 DEF Unscored, Built, Settled, Before, MatrixOK, RowsOK
      <3>4. score'[c] = Zero /\ \A d \in Subjects \ {c} : score'[d] = score[d]
        BY <3>1 DEF Before, Shape
      <3> QED
        BY <1>1, <3>3, <3>4 DEF ScoresOK, Current, Before, MatrixOK
    <2> QED
      BY <2>1, <2>2
  <1> QED
    BY <1>4, <1>5, <1>6 DEF MatrixOK

(* The scorer's answer is recorded against the output of the floor.        *)
LEMMA FinishScoreKeepsMatrix ==
    ASSUME Before, FinishScore
    PROVE  MatrixOK'
  <1>1. /\ UNCHANGED <<st, outs, row, floor, bound, run, nsess, flight>>
        /\ step.at = "score" /\ flight = {}
    BY DEF FinishScore, runVars, Before, MatrixOK, EvaluationOK
  <1>2. step'.at \in {"idle", "scored"}
    BY LiteralsAre DEF FinishScore, Handler
  <1>3. step.c \in Subjects
    BY <1>1 DEF Before, PhaseOf
  <1>4. RunOK' /\ EvaluationOK'
    BY <1>1, <1>2 DEF RunOK, EvaluationOK, Evaluating, Before, MatrixOK
  <1>5. OutputsOK'
    BY <1>1 DEF OutputsOK, Current, Before, MatrixOK
  <1>6. \A c \in Subjects : fault'[c] = fault[c] \/ fault'[c] = floor
    BY <1>3 DEF FinishScore, Before, Shape
  <1>7. RowsOK'
    BY <1>1, <1>6 DEF RowsOK, Current, Before, MatrixOK
  <1>8. ScoresOK'
    <2>1. CASE _persist_scored_item(step.c)
      <3>1. PICK o : o = outputs_for_contender(step.c)
        OBVIOUS
      <3>2. score' = [score EXCEPT ![step.c] = o]
        BY <2>1, <3>1 DEF _persist_scored_item, record_item_score
      <3>3. score'[step.c] = o /\ \A d \in Subjects \ {step.c} : score'[d] = score[d]
        BY <1>3, <3>2 DEF Before, Shape
      <3>4. o = None \/ (o = outs[step.c] /\ Current(step.c))
        BY <3>1 DEF outputs_for_contender, Current
      <3>5. o # Zero
        <4>1. Zero.at = 0 /\ floor # 0
          BY DEF Zero, Before, Shape
        <4>2. o # None => o.at = floor
          BY <3>4 DEF Current
        <4> QED
          BY <4>1, <4>2, LiteralsAre
      <3> QED
        BY <1>1, <1>6, <3>3, <3>4, <3>5 DEF ScoresOK, Current, Before, MatrixOK
    <2>2. CASE _zero_score_item(step.c) /\ fault' = [fault EXCEPT ![step.c] = floor]
      <3>1. score'[step.c] = Zero /\ \A d \in Subjects \ {step.c} : score'[d] = score[d]
        BY <1>3, <2>2 DEF _zero_score_item, record_item_score, Before, Shape
      <3>2. fault'[step.c] = floor
        BY <1>3, <2>2 DEF Before, Shape
      <3> QED
        BY <1>1, <1>6, <3>1, <3>2 DEF ScoresOK, Current, Before, MatrixOK
    <2>3. CASE UNCHANGED <<score, fault>>
      BY <1>1, <2>3 DEF ScoresOK, Current, Before, MatrixOK
    <2> QED
      BY <2>1, <2>2, <2>3 DEF FinishScore
  <1> QED
    BY <1>4, <1>5, <1>7, <1>8 DEF MatrixOK

-----------------------------------------------------------------------------
(* The inductive invariant.                                                *)

(* The competition begins with nothing claimed, bound, run or scored.      *)
LEMMA InitInv ==
    ASSUME Init
    PROVE  IInv
  <1>1. Shape
    <2>1. comp \in Record
      BY DEF Init, Record, Phases, Early
    <2>2. chain \in Ledger /\ claim \in Claim \cup {None}
      BY DEF Init, Ledger
    <2>3. run \in Runner /\ step \in Handler /\ req \in Request
      BY LiteralsAre DEF Init
    <2> QED
      BY <2>1, <2>2, <2>3 DEF Init, Shape, Statuses, Rows
  <1>2. ClaimOK /\ RequestOK /\ RootOK
    BY LiteralsAre DEF Init, ClaimOK, RequestOK, RootOK, Untouched
  <1>3. PhaseOf /\ BaselineOK
    BY LiteralsAre DEF Init, PhaseOf, BaselineOK, Evaluating
  <1>4. NoScoresYet /\ NoOutputsYet
    BY DEF Init, NoScoresYet, NoOutputsYet
  <1>5. RunOK /\ OutputsOK /\ EvaluationOK
    BY LiteralsAre DEF Init, RunOK, OutputsOK, EvaluationOK, Evaluating, Current
  <1>6. RowsOK /\ ScoresOK
    BY LiteralsAre DEF Init, RowsOK, ScoresOK, Current
  <1> QED
    BY <1>1, <1>2, <1>3, <1>4, <1>5, <1>6 DEF IInv

(* Every step keeps it.                                                    *)
LEMMA StepInv ==
    ASSUME IInv, [Next]_vars
    PROVE  IInv'
  <1>1. CASE Next
    <2>1. Before
      BY DEF IInv, Before, MatrixOK
    <2>2. Shape'
      BY <1>1, ShapeStep DEF IInv
    <2>3. ClaimOK' /\ RequestOK' /\ RootOK'
      BY <1>1, AnchorStep DEF IInv
    <2>4. PhaseOf' /\ BaselineOK' /\ NoScoresYet' /\ NoOutputsYet'
      BY <1>1, OthersStay, FrameKeepsPhase, MovingKeepsPhase DEF IInv
    <2>5. MatrixOK'
      <3>1. CASE MatrixFrame
        BY <3>1, FrameKeepsMatrix DEF IInv, MatrixOK
      <3>2. CASE Computing
        BY <2>1, <3>2, LostRunnerKeepsMatrix, OtherAnchorKeepsMatrix, AnchorRequestKeepsMatrix,
           EnsureRuntimeKeepsMatrix, PreparationKeepsMatrix, RebindKeepsMatrix, ResetKeepsMatrix,
           StartingKeepsMatrix, FinishBatchKeepsMatrix, FinishEvaluationKeepsMatrix,
           StageScoringKeepsMatrix, FinishScoreKeepsMatrix DEF Computing
      <3> QED
        BY <1>1, <3>1, <3>2, OthersLeaveMatrix DEF IInv
    <2> QED
      BY <2>2, <2>3, <2>4, <2>5 DEF IInv, MatrixOK
  <1>2. CASE UNCHANGED vars
    <2> USE <1>2 DEF vars
    <2>1. Shape'
      BY DEF IInv, Shape
    <2>2. ClaimOK' /\ RequestOK' /\ RootOK'
      BY DEF IInv, ClaimOK, RequestOK, RootOK, Untouched, OnlyWrote
    <2>3. PhaseOf' /\ BaselineOK' /\ NoScoresYet' /\ NoOutputsYet'
      BY DEF IInv, PhaseOf, BaselineOK, NoScoresYet, NoOutputsYet, Evaluating
    <2>4. RunOK' /\ OutputsOK' /\ EvaluationOK'
      BY DEF IInv, RunOK, OutputsOK, EvaluationOK, Evaluating, Current
    <2>5. RowsOK' /\ ScoresOK'
      BY DEF IInv, RowsOK, ScoresOK, Current
    <2> QED
      BY <2>1, <2>2, <2>3, <2>4, <2>5 DEF IInv
  <1> QED
    BY <1>1, <1>2

(* The invariant holds in every reachable state.                           *)
THEOREM Invariance == Spec => []IInv
  <1>1. Init => IInv
    BY InitInv
  <1>2. IInv /\ [Next]_vars => IInv'
    BY StepInv
  <1> QED
    BY <1>1, <1>2, PTL DEF Spec

(* A step of a halted competition starts no batch (gated), no build and no *)
(* scoring.                                                                *)
LEMMA HaltStep ==
    ASSUME IInv, Next, comp.halted
    PROVE  /\ flight' \subseteq flight
           /\ step'.at \in {"build", "score"} => step'.at = step.at /\ step'.c = step.c
  <1>0. Shape /\ PhaseOf /\ EvaluationOK
    BY DEF IInv
  <1>1. flight' \subseteq flight
    <2>1. CASE MatrixFrame
      BY <2>1 DEF MatrixFrame
    <2>2. CASE StartBatch
      BY <1>0, <2>2, StartBatchIs
    <2>3. CASE FinishBatch
      BY <2>3 DEF FinishBatch
    <2>4. CASE Computing /\ ~StartBatch /\ ~FinishBatch
      BY <2>4 DEF Computing, _release_idle_runner, OtherAnchor, AnchorRequest, EnsureRuntime,
         RestoreImage, RebindRuntime, FinishBuild, FinishProbe, _stage_evaluating, FinishEvaluation,
         _stage_scoring, FinishScore, rerun_evaluation, amend_execution, Crash
    <2> QED
      BY <1>0, <2>1, <2>2, <2>3, <2>4, OthersLeaveMatrix
  <1>2. step'.at \in {"build", "score"} => step'.at = step.at /\ step'.c = step.c
    <2>1. CASE PhaseFrame
      BY <2>1, LiteralsAre DEF PhaseFrame, SamePlace
    <2>2. CASE TickEnroll \/ TickFinalize \/ _inject_baseline \/ TickComplete
      BY <2>2, LiteralsAre DEF TickEnroll, TickFinalize, _inject_baseline, TickComplete, Handler
    <2>3. CASE _stage_finalizing \/ _stage_validating
      BY <1>0, <2>3, StageFinalizingIs DEF _stage_validating
    <2>4. CASE FinishArchive
      BY <1>0, <2>4, NextOfIs, LiteralsAre DEF FinishArchive
    <2>5. CASE EnsureRuntime("BUILDING") \/ EnsureRuntime("EVALUATING")
      BY <1>0, <2>5, EnsureRuntimeIs
    <2>6. CASE RebindRuntime \/ _stage_evaluating \/ FinishEvaluation
      BY <2>6, LiteralsAre DEF RebindRuntime, _stage_evaluating, FinishEvaluation, Handler
    <2>7. CASE _stage_building
      BY <1>0, <2>7, StartBuildIs, LiteralsAre DEF _stage_building
    <2>8. CASE FinishBuild
      BY <1>0, <2>8, FinishBuildIs, StartBuildIs, LiteralsAre DEF Shape, Handler
    <2>9. CASE FinishProbe
      BY <1>0, <2>9, StartBuildIs, LiteralsAre DEF FinishProbe, Shape, Handler
    <2>10. CASE FinishBatch
      BY <1>0, <2>10 DEF FinishBatch, BatchOk, BatchContenderFault, BatchInfraFault, RequeueOrHalt,
         Nothing, Shape, Handler
    <2>11. CASE _stage_scoring
      BY <2>11 DEF _stage_scoring, StepReady
    <2>12. CASE FinishScore \/ abort
      BY <2>12, LiteralsAre DEF FinishScore, abort, Handler
    <2> QED
      BY <1>0, <2>1, <2>2, <2>3, <2>4, <2>5, <2>6, <2>7, <2>8, <2>9, <2>10, <2>11, <2>12, OthersStay
         DEF Moving
  <1> QED
    BY <1>1, <1>2

(* While the competition is halted no build, no batch and no scoring       *)
(* begins: the loops read the halt again after every await (gated,         *)
(* _stage_building, _stage_scoring).                                       *)
THEOREM HaltHoldsCorrect == Spec => HaltHolds
  <1>1. IInv /\ [Next]_vars =>
           [comp.halted =>
              /\ flight' \subseteq flight
              /\ step'.at \in {"build", "score"} => step'.at = step.at /\ step'.c = step.c]_vars
    BY HaltStep DEF vars
  <1> QED
    BY <1>1, Invariance, PTL DEF Spec, HaltHolds

(* One commitment reaches the chain and enrollment opens under it, however *)
(* often the process restarts with other parameters (_claim_anchor,        *)
(* mark_commitment_anchored).                                              *)
THEOREM OneCommitmentCorrect == Spec => []OneCommitment
  <1>1. IInv => OneCommitment
    <2> SUFFICES ASSUME IInv PROVE OneCommitment
      OBVIOUS
    <2>1. ClaimOK /\ RootOK
      BY DEF IInv
    <2>2. chain.count + (IF chain.pending = None THEN 0 ELSE 1) <= 1
      BY <2>1 DEF ClaimOK, OnlyWrote, Untouched
    <2>3. comp.phase \in Running => comp.root # None /\ comp.root \in chain.landed
      BY <2>1 DEF ClaimOK, RootOK, Running
    <2> QED
      BY <2>2, <2>3 DEF OneCommitment
  <1> QED
    BY <1>1, Invariance, PTL

(* A completed competition has scored its baseline, also when the process  *)
(* died between the two transactions of the finalization                   *)
(* (_ensure_fresh_modal_runtime, count_missing_calibration_rows).          *)
THEOREM CompletedHasBaselineCorrect == Spec => []CompletedHasBaseline
  <1>1. IInv => CompletedHasBaseline
    BY DEF IInv, BaselineOK, CompletedHasBaseline
  <1> QED
    BY <1>1, Invariance, PTL

(* The scored matrix is fair: one runtime made every output, and a zero is *)
(* its contender's own (reset_evaluation_for_modal_runtime, failures.py).  *)
THEOREM MatrixIsFairCorrect == Spec => []MatrixIsFair
  <1>1. IInv => MatrixIsFair
    <2> SUFFICES ASSUME IInv PROVE MatrixIsFair
      OBVIOUS
    <2>1. ZeroedByOwnFault
      BY DEF IInv, ScoresOK, ZeroedByOwnFault
    <2>2. \A o \in ScoredOutputs : \E c \in Subjects : Current(c) /\ o = outs[c]
      BY DEF IInv, ScoresOK, ScoredOutputs
    <2>3. \A o \in ScoredOutputs : o.ran = o.at
      BY <2>2 DEF IInv, OutputsOK, Current
    <2>4. \A o, q \in ScoredOutputs : o.sess = q.sess
      BY <2>2 DEF IInv, OutputsOK
    <2>5. Cardinality({o.sess : o \in ScoredOutputs}) <= 1
      <3>1. CASE ScoredOutputs = {}
        <4>1. {o.sess : o \in ScoredOutputs} = {}
          BY <3>1
        <4> QED
          BY <4>1, FS_EmptySet
      <3>2. CASE ScoredOutputs # {}
        <4>1. PICK q \in ScoredOutputs : TRUE
          BY <3>2
        <4>2. {o.sess : o \in ScoredOutputs} = {q.sess}
          BY <2>4, <4>1
        <4> QED
          <5>1. Cardinality({q.sess}) = 1
            BY FS_Singleton
          <5> QED
            BY <4>2, <5>1
      <3> QED
        BY <3>1, <3>2
    <2> QED
      BY <2>1, <2>3, <2>5 DEF MatrixIsFair, OneRuntimeScored
  <1> QED
    BY <1>1, Invariance, PTL

=============================================================================
