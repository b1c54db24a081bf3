---------------------------- MODULE Competition ----------------------------
(***************************************************************************)
(* One competition driven by the orchestrator: the lifecycle engine's      *)
(* phases, the stage handlers with their awaits, the fenced sandbox        *)
(* runtime, the operator's control routes, and the crash of the process    *)
(* between any two transactions.                                           *)
(*                                                                         *)
(* The orchestrator is one asyncio loop.  A stage handler gives the loop   *)
(* away only at an await, so an action below is the code from one await to *)
(* the next; `step' holds the local variables of the handler that is       *)
(* suspended.  Control routes run at those points and when it is idle.     *)
(* Subjects are contender ids: the baseline is inserted last, so it has    *)
(* the largest id.  A subject's image is named after it, and a competition *)
(* has one item and so one batch per subject.                              *)
(***************************************************************************)
EXTENDS Naturals, FiniteSets, FiniteSetsExt

CONSTANTS NReal,        \* enrolled contenders
          None,         \* absent value
          Parallel,     \* cfg.evaluation_parallel_batches
          MaxRequeues,  \* cfg.max_batch_requeues
          MaxClock,     \* bound on time
          MaxSessions,  \* bound on sandbox runtimes created
          MaxOps,       \* bound on operator interventions
          MaxInfra,     \* bound on infrastructure faults
          MaxCrashes    \* bound on process restarts

ASSUME CompetitionAssumption ==
    /\ NReal \in Nat \ {0} /\ Parallel \in Nat \ {0} /\ MaxRequeues \in Nat
    /\ MaxClock \in Nat /\ MaxSessions \in Nat \ {0} /\ MaxOps \in Nat
    /\ MaxInfra \in Nat /\ MaxCrashes \in Nat
    /\ None \notin Nat /\ None \notin [payload : Nat, at : Nat]
    /\ None \notin [at : Nat, ran : Nat, sess : Nat]

Reals    == 1..NReal
Base     == NReal + 1
Subjects == 1..(NReal + 1)

VARIABLES comp,      \* competitions row and halt ledger
          st,        \* contenders.status
          archived,  \* submission_archived events
          row,       \* batches.status
          floor,     \* number of evaluation reset events
          outs,      \* latest batch_outputs event of a subject
          requeues,  \* batch_requeued events since the budget floor
          fault,     \* floor at which a subject last failed by its own doing
          score,     \* performance_history
          bound,     \* latest modal_runtime_bound session
          images,    \* subjects with a modal_image_bound event
          run,       \* the renewable runner: session, envelope, images
          nsess,     \* runtimes created so far
          envelope,  \* latest execution_amended resources
          step,      \* locals of the suspended stage handler
          flight,    \* batches awaiting run_batch
          req,       \* locals of the suspended anchor request
          claim,     \* open anchor claim
          chain,     \* commitments: landed, and the write still in flight
          params,    \* reward parameters of the running process
          clock, ops, infra, crashes

dbVars     == <<comp, st, archived, row, floor, outs, requeues, fault, score, bound, images, envelope>>
runVars    == <<run, nsess>>
anchorVars == <<req, claim, chain, params>>
envVars    == <<clock, ops, infra, crashes>>
vars == <<comp, st, archived, row, floor, outs, requeues, fault, score, bound, images, envelope,
          run, nsess, step, flight, req, claim, chain, params, clock, ops, infra, crashes>>

Idle    == [at |-> "idle", c |-> 0, todo |-> {}, phase |-> "", sess |-> None, floor |-> 0,
            ok |-> TRUE]
NoRun   == [sess |-> None, env |-> 0, live |-> {}, probed |-> {}]
Zero    == [at |-> 0, ran |-> 0, sess |-> 0]   \* the orchestrator's zero packet
NoReq   == [at |-> "none", payload |-> None]
Running == {"ENROLLING", "FINALIZING", "VALIDATING", "BUILDING", "EVALUATING",
            "SCORING", "AWAITING"}
Terminal == {"COMPLETED", "FAILED", "CANCELLED"}
Built   == {c \in Subjects : st[c] = "BUILT"}

\* The suspended handler is at an await: the control API may run.
Yielded == step.at \in {"idle", "archive", "restore", "build", "probe", "eval", "score"}

Init ==
    /\ comp = [phase |-> "SCHEDULED", root |-> None, item |-> FALSE, halted |-> FALSE,
               finalAt |-> 2, endAt |-> 3, reviewAt |-> 0]
    /\ st = [c \in Subjects |-> "ABSENT"] /\ archived = {}
    /\ row = [c \in Subjects |-> "NONE"] /\ floor = 1
    /\ outs = [c \in Subjects |-> None] /\ requeues = [c \in Subjects |-> 0]
    /\ fault = [c \in Subjects |-> 0] /\ score = [c \in Subjects |-> None]
    /\ bound = None /\ images = {} /\ run = NoRun /\ nsess = 0 /\ envelope = 0
    /\ step = Idle /\ flight = {} /\ req = NoReq /\ claim = None
    /\ chain = [landed |-> {}, pending |-> None, count |-> 0] /\ params = 1
    /\ clock = 0 /\ ops = 0 /\ infra = 0 /\ crashes = 0

-----------------------------------------------------------------------------
\* Transactions of the lifecycle engine and the halt ledger.

\* LifecycleEngine._apply: the row leaves `from' for `to' in one transaction;
\* from any other phase it raises, and the step ends with nothing written.
Apply(from, to) == comp' = IF comp.phase = from THEN [comp EXCEPT !.phase = to] ELSE comp

Halt == comp' = [comp EXCEPT !.halted = TRUE]

\* An infrastructure fault, within the bound.
InfraFault == infra < MaxInfra /\ infra' = infra + 1

-----------------------------------------------------------------------------
\* The sandbox runtime.

\* RenewableRunner.acquire: a runner with another envelope, or none, is replaced by
\* a fresh one that holds no image.
acquire(env) ==
    IF run.sess # None /\ run.env = env
    THEN run ELSE [NoRun EXCEPT !.sess = nsess + 1, !.env = env]
Acquired(env) == nsess' = IF acquire(env) = run THEN nsess ELSE nsess + 1

\* An operation found the remote runtime gone, or the idle runtime is given up.
discard == run' = NoRun /\ nsess < MaxSessions /\ UNCHANGED nsess

\* ModalSandboxRunner.build: the image is live in the session that is there now.
BuiltIn(r, c) == [r EXCEPT !.live = @ \cup {c}, !.probed = @ \ {c}]

\* run_batch resolves the image in its own cache and insists that this runner
\* has probed it.
CanExecute(c) == run.sess # None /\ c \in run.live /\ c \in run.probed

\* The provider's id of an image is kept with the pinned source it was built from, in
\* the transaction that relies on the image.
_record_modal_image_binding(c) == images' = images \cup {c}

\* Recovery needs no build: the image is live, or its binding restores it by id.
_restore_bound_modal_image(c) == run.sess # None /\ (c \in run.live \/ c \in images)

\* An idle orchestrator gives the runtime up.
_release_idle_runner ==
    /\ step.at = "idle" /\ run.sess # None /\ comp.phase \notin {"BUILDING", "EVALUATING"}
    /\ discard
    /\ UNCHANGED <<dbVars, step, flight, anchorVars, envVars>>

OtherEnvelope == 9

\* Another competition, whose baseline is the same image, is anchored while this one
\* runs: it shares the runner and may bring another envelope.
OtherAnchor ==
    /\ Yielded /\ nsess < MaxSessions
    /\ run.sess # None /\ run.env # OtherEnvelope
    /\ Acquired(OtherEnvelope) /\ run' = BuiltIn(acquire(OtherEnvelope), Base)
    /\ UNCHANGED <<dbVars, step, flight, anchorVars, envVars>>

-----------------------------------------------------------------------------
\* The evaluation item.

\* The operator's file becomes the item only when its bytes hash to the commitment the
\* manifest already made for that index; anything else is refused.
add_evaluation_item == ~comp.item /\ comp' = [comp EXCEPT !.item = TRUE]

\* Items come in before the commitment is anchored, and never after.
ingest_evaluation_item ==
    /\ Yielded /\ comp.phase = "SCHEDULED" /\ comp.root = None
    /\ add_evaluation_item
    /\ UNCHANGED <<st, archived, row, floor, outs, requeues, fault, score, bound, images, envelope,
                   runVars, step, flight, anchorVars, envVars>>

\* Every committed item has its row: asked before evaluation, scoring and completion.
validate_evaluation_item_bindings == comp.item

-----------------------------------------------------------------------------
\* Anchoring the commitment: claim in the database, one write, the proof.

MutRewritesStale(p) == FALSE
\* A stale claim over the same payload is recovered by reading only; a fresh one, or one
\* over another payload, refuses the request.
ClaimRecoverable(p) == claim # None /\ clock > claim.at /\ claim.payload = p
RecoverOnly(p) == claim # None /\ p = claim.payload

\* anchor_competition up to the chain write: the baseline is built first, then
\* _claim_anchor decides.  A refused request writes nothing.
AnchorRequest ==
    /\ Yielded /\ req.at = "none" /\ comp.phase = "SCHEDULED" /\ comp.root = None
    /\ claim = None \/ ClaimRecoverable(params)
    /\ Acquired(envelope) /\ run' = BuiltIn(acquire(envelope), Base)
    /\ bound' = run'.sess /\ _record_modal_image_binding(Base)
    /\ IF RecoverOnly(params)
       THEN req' = [at |-> "receipt", payload |-> params] /\ UNCHANGED claim
       ELSE /\ claim' = [payload |-> params, at |-> clock]
            /\ req' = [at |-> "write", payload |-> params]
    /\ UNCHANGED <<comp, st, archived, row, floor, outs, requeues, fault, score, envelope,
                   step, flight, chain, params, envVars>>

\* The write is sent.  It may land now, later, or never, whatever the response was.
AnchorWrite ==
    /\ req.at = "write"
    /\ req' = [req EXCEPT !.at = "receipt"]
    /\ \/ chain' = [chain EXCEPT !.pending = req.payload] /\ UNCHANGED infra
       \/ UNCHANGED chain /\ InfraFault
    /\ UNCHANGED <<dbVars, runVars, step, flight, claim, params, clock, ops, crashes>>

\* External: the chain includes and finalizes the write.
ChainLand ==
    /\ chain.pending # None
    /\ chain' = [landed |-> chain.landed \cup {chain.pending}, pending |-> None,
                 count |-> chain.count + 1]
    /\ UNCHANGED <<dbVars, runVars, step, flight, req, claim, params, envVars>>

\* The root and the receipt that proves it are recorded together, while SCHEDULED; a
\* competition with a root refuses another.
mark_commitment_anchored(root) ==
    IF comp.phase = "SCHEDULED" /\ comp.root = None
    THEN comp' = [comp EXCEPT !.root = root] /\ claim' = None
    ELSE UNCHANGED <<comp, claim>>

\* The finalized receipt is proved and the root recorded, or the wait times out and
\* the claim stays open.
AnchorReceipt ==
    /\ req.at = "receipt"
    /\ req' = NoReq
    /\ \/ /\ req.payload \in chain.landed
          /\ mark_commitment_anchored(req.payload)
          /\ UNCHANGED infra
       \/ InfraFault /\ UNCHANGED <<comp, claim>>
    /\ UNCHANGED <<st, archived, row, floor, outs, requeues, fault, score, bound, images, envelope,
                   runVars, step, flight, chain, params, clock, ops, crashes>>

\* The operator resolves an ambiguous claim after proving that nothing landed.
release_anchor_claim ==
    /\ ops < MaxOps /\ ops' = ops + 1
    /\ Yielded /\ req.at = "none" /\ claim # None
    /\ claim.payload \notin chain.landed /\ chain.pending = None
    /\ claim' = None
    /\ UNCHANGED <<dbVars, runVars, step, flight, req, chain, params, clock, infra, crashes>>

-----------------------------------------------------------------------------
\* The engine's clocked transitions.

TickEnroll ==
    /\ step.at = "idle" /\ comp.phase = "SCHEDULED" /\ comp.root # None /\ clock >= 1
    /\ Apply("SCHEDULED", "ENROLLING")
    /\ UNCHANGED <<st, archived, row, floor, outs, requeues, fault, score, bound, images, envelope,
                   runVars, step, flight, anchorVars, envVars>>

enroll_contender(c) ==
    /\ Yielded /\ comp.phase = "ENROLLING" /\ clock <= 2
    /\ c \in Reals /\ st[c] = "ABSENT" /\ (\A d \in Reals : d < c => st[d] # "ABSENT")
    /\ st' = [st EXCEPT ![c] = "ENROLLED"]
    /\ UNCHANGED <<comp, archived, row, floor, outs, requeues, fault, score, bound, images, envelope,
                   runVars, step, flight, anchorVars, envVars>>

\* Two transactions: the phase first, then the baseline as a calibration contender.
TickFinalize ==
    /\ step.at = "idle" /\ comp.phase = "ENROLLING" /\ clock >= comp.finalAt
    /\ Apply("ENROLLING", "FINALIZING")
    /\ step' = [Idle EXCEPT !.at = "inject"]
    /\ UNCHANGED <<st, archived, row, floor, outs, requeues, fault, score, bound, images, envelope,
                   runVars, flight, anchorVars, envVars>>

_inject_baseline ==
    /\ step.at = "inject"
    /\ st' = [st EXCEPT ![Base] = "ENROLLED"]
    /\ step' = Idle
    /\ UNCHANGED <<comp, archived, row, floor, outs, requeues, fault, score, bound, images, envelope,
                   runVars, flight, anchorVars, envVars>>

\* count_missing_calibration_rows and count_missing_item_scores.
MissingCalibrationRows == {c \in {Base} : st[c] # "ABSENT" /\ score[c] = None}
MissingItemScores == {c \in Reals : st[c] \in {"ACCEPTED", "BUILT"} /\ score[c] = None}

\* The sealed references cannot be released: the competition halts before it completes.
_release_due_upscaling_references == Halt /\ InfraFault

\* References are released, then the completion gate is evaluated, at the later of
\* the end time and the review deadline.  A halted competition is left alone.
TickComplete ==
    /\ step.at = "idle" /\ comp.phase = "AWAITING" /\ ~comp.halted
    /\ clock >= comp.endAt /\ clock >= comp.reviewAt
    /\ \/ /\ MissingCalibrationRows = {} /\ validate_evaluation_item_bindings
          /\ Apply("AWAITING", "COMPLETED") /\ UNCHANGED infra
       \/ _release_due_upscaling_references
    /\ UNCHANGED <<st, archived, row, floor, outs, requeues, fault, score, bound, images, envelope,
                   runVars, step, flight, anchorVars, clock, ops, crashes>>

-----------------------------------------------------------------------------
\* FINALIZING_SUBMISSIONS: every submission is archived before validation.

StepReady(phase) == step.at = "idle" /\ comp.phase = phase /\ ~comp.halted

\* The scorer's identity disagrees with the manifest: the step halts before its stage.
_check_scorer_identity ==
    /\ step.at = "idle" /\ ~comp.halted
    /\ comp.phase \in Running \ {"ENROLLING", "AWAITING"}
    /\ InfraFault /\ Halt
    /\ UNCHANGED <<st, archived, row, floor, outs, requeues, fault, score, bound, images, envelope,
                   runVars, step, flight, anchorVars, clock, ops, crashes>>

Unarchived == {c \in Subjects : st[c] \notin {"ABSENT", "REJECTED"} /\ c \notin archived}

mark_submissions_backed_up == Apply("FINALIZING", "VALIDATING")

_stage_finalizing ==
    /\ StepReady("FINALIZING")
    /\ IF Unarchived = {}
       THEN mark_submissions_backed_up /\ UNCHANGED step
       ELSE /\ step' = [Idle EXCEPT !.at = "archive", !.c = Min(Unarchived),
                                    !.todo = Unarchived \ {Min(Unarchived)}]
            /\ UNCHANGED comp
    /\ UNCHANGED <<st, archived, row, floor, outs, requeues, fault, score, bound, images, envelope,
                   runVars, flight, anchorVars, envVars>>

\* The handler goes on with the next of the contenders it listed, or returns.
NextOf(todo) == IF todo = {} THEN Idle ELSE [step EXCEPT !.c = Min(todo), !.todo = todo \ {Min(todo)}]

FinishArchive ==
    /\ step.at = "archive"
    /\ \/ /\ archived' = archived \cup {step.c}
          /\ step' = NextOf(step.todo)
          /\ UNCHANGED <<comp, st, infra>>
       \/ /\ step.c # Base
          /\ st' = [st EXCEPT ![step.c] = "REJECTED"]
          /\ step' = NextOf(step.todo)
          /\ UNCHANGED <<comp, archived, infra>>
       \/ InfraFault /\ Halt /\ step' = Idle /\ UNCHANGED <<st, archived>>
    /\ UNCHANGED <<row, floor, outs, requeues, fault, score, bound, images, envelope,
                   runVars, flight, anchorVars, clock, ops, crashes>>

\* The phase moves when a real contender was accepted, and the competition fails otherwise.
mark_validation_complete(after) ==
    IF \E c \in Reals : after[c] = "ACCEPTED"
    THEN Apply("VALIDATING", "BUILDING") ELSE Apply("VALIDATING", "FAILED")

\* VALIDATING has no await: every pending contender is accepted or rejected, up to the
\* first infrastructure fault, and the phase moves on the counts that leaves.
_stage_validating ==
    /\ StepReady("VALIDATING")
    /\ LET pending == {c \in Subjects : st[c] = "ENROLLED"} IN
       \E bad \in SUBSET (pending \ {Base}) :
          LET after == [c \in Subjects |-> IF c \notin pending THEN st[c]
                                           ELSE IF c \in bad THEN "REJECTED" ELSE "ACCEPTED"]
          IN  /\ st' = after
              /\ \/ mark_validation_complete(after) /\ UNCHANGED infra
                 \/ InfraFault /\ Halt
    /\ UNCHANGED <<archived, row, floor, outs, requeues, fault, score, bound, images, envelope,
                   runVars, step, flight, anchorVars, clock, ops, crashes>>

-----------------------------------------------------------------------------
\* The runtime fence before any sandbox work.

MutBaselineOptional(phase) == TRUE
\* With emissions enabled, the matrix is not evaluated without its baseline.
BaselineBuilt(phase) == phase = "EVALUATING" => Base \in Built

\* _ensure_fresh_modal_runtime up to its first await.  The session and the list of
\* built contenders are read here and used after the restoration.
EnsureRuntime(phase) ==
    /\ StepReady(phase)
    /\ Acquired(envelope) /\ run' = acquire(envelope)
    /\ IF ~BaselineBuilt(phase)
       THEN Halt /\ UNCHANGED <<step, bound>>
       ELSE IF run'.sess = bound /\ Built \subseteq run'.live
       THEN step' = [Idle EXCEPT !.at = "fenced", !.phase = phase] /\ UNCHANGED <<comp, bound>>
       ELSE IF Built = {}
       THEN step' = [Idle EXCEPT !.at = "fenced", !.phase = phase] /\ bound' = run'.sess
            /\ UNCHANGED comp
       ELSE /\ step' = [Idle EXCEPT !.at = "restore", !.phase = phase, !.todo = Built,
                                    !.sess = run'.sess]
            /\ UNCHANGED <<comp, bound>>
    /\ UNCHANGED <<st, archived, row, floor, outs, requeues, fault, score, images, envelope,
                   flight, anchorVars, envVars>>

EnsureRuntimeRefused ==
    /\ step.at = "idle" /\ ~comp.halted /\ comp.phase \in {"BUILDING", "EVALUATING"}
    /\ InfraFault /\ Halt
    /\ UNCHANGED <<st, archived, row, floor, outs, requeues, fault, score, bound, images, envelope,
                   runVars, step, flight, anchorVars, clock, ops, crashes>>

\* One built image is rehydrated in the runner that is there now, and reprobed.
RestoreImage ==
    /\ step.at = "restore" /\ step.todo # {}
    /\ LET c == Min(step.todo) IN
       \/ /\ _restore_bound_modal_image(c)
          /\ run' = [run EXCEPT !.live = @ \cup {c}, !.probed = @ \cup {c}]
          /\ step' = [step EXCEPT !.todo = @ \ {c}]
          /\ UNCHANGED <<comp, infra>>
       \/ /\ (_restore_bound_modal_image(c) => InfraFault)
          /\ (~_restore_bound_modal_image(c) => UNCHANGED infra)
          /\ Halt /\ step' = Idle /\ UNCHANGED run
    /\ UNCHANGED <<st, archived, row, floor, outs, requeues, fault, score, bound, images, envelope,
                   nsess, flight, anchorVars, clock, ops, crashes>>

\* Every batch of the matrix is put back behind a new floor.
ResetEvaluation ==
    /\ floor' = floor + 1
    /\ row' = [c \in Subjects |-> IF row[c] = "NONE" THEN "NONE" ELSE "PENDING"]
    /\ requeues' = [c \in Subjects |-> 0]

MutRebindsWithoutReset ==
    /\ step.at = "restore" /\ step.todo = {}
    /\ bound' = step.sess /\ step' = [Idle EXCEPT !.at = "fenced", !.phase = step.phase]
    /\ UNCHANGED <<row, floor, requeues>>
    /\ UNCHANGED <<comp, st, archived, outs, fault, score, images, envelope,
                   runVars, flight, anchorVars, envVars>>

\* The restored runtime is bound; in EVALUATING the old results are invalidated in the
\* same transaction.
RebindRuntime ==
    /\ step.at = "restore" /\ step.todo = {}
    /\ bound' = step.sess /\ step' = [Idle EXCEPT !.at = "fenced", !.phase = step.phase]
    /\ IF step.phase = "EVALUATING" THEN ResetEvaluation ELSE UNCHANGED <<row, floor, requeues>>
    /\ UNCHANGED <<comp, st, archived, outs, fault, score, images, envelope,
                   runVars, flight, anchorVars, envVars>>

-----------------------------------------------------------------------------
\* BUILDING: the baseline first, then each accepted contender is built and probed.

\* The images that exist decide the phase.
mark_builds_complete ==
    IF \E c \in Subjects : st'[c] = "BUILT"
    THEN Apply("BUILDING", "EVALUATING") ELSE Apply("BUILDING", "FAILED")

\* The loop's next contender: the status is read again, a halt ends the step, and the
\* end of the list decides the phase on the images that exist.
BuildOrder(todo) == IF Base \in todo THEN Base ELSE Min(todo)
StartBuild(todo) ==
    IF {c \in todo : st'[c] = "ACCEPTED"} = {}
    THEN step' = Idle /\ mark_builds_complete
    ELSE IF comp.halted
    THEN step' = Idle /\ UNCHANGED comp
    ELSE LET c == BuildOrder({d \in todo : st'[d] = "ACCEPTED"})
         IN  step' = [Idle EXCEPT !.at = "build", !.c = c, !.todo = todo \ {c}] /\ UNCHANGED comp

_stage_building ==
    /\ step.at = "fenced" /\ step.phase = "BUILDING"
    /\ UNCHANGED st /\ StartBuild(Subjects)
    /\ UNCHANGED <<archived, row, floor, outs, requeues, fault, score, bound, images, envelope,
                   runVars, flight, anchorVars, envVars>>

\* The build failed by the contender's own doing: it is marked unless it was rejected
\* meanwhile.
_mark_build_failed(c) == st' = IF st[c] = "ACCEPTED" THEN [st EXCEPT ![c] = "BUILD_FAILED"] ELSE st

FinishBuild ==
    /\ step.at = "build"
    /\ \/ /\ run.sess # None
          /\ run' = BuiltIn(run, step.c)
          /\ step' = [step EXCEPT !.at = "probe"]
          /\ UNCHANGED <<comp, st, infra>>
       \/ step.c # Base /\ _mark_build_failed(step.c) /\ StartBuild(step.todo)
          /\ UNCHANGED <<run, infra>>
       \/ /\ run.sess = None /\ Halt /\ step' = Idle /\ UNCHANGED <<st, run, infra>>
       \/ /\ InfraFault /\ Halt /\ step' = Idle /\ UNCHANGED <<st, run>>
    /\ UNCHANGED <<archived, row, floor, outs, requeues, fault, score, bound, images, envelope,
                   nsess, flight, anchorVars, clock, ops, crashes>>

\* The isolation probe ran and passed, ran and failed, or could not be run.
FinishProbe ==
    /\ step.at = "probe"
    /\ LET c == step.c IN
       \/ /\ c \in run.live
          /\ run' = [run EXCEPT !.probed = @ \cup {c}]
          /\ IF st[c] = "ACCEPTED"
             THEN st' = [st EXCEPT ![c] = "BUILT"] /\ _record_modal_image_binding(c)
             ELSE UNCHANGED <<st, images>>
          /\ StartBuild(step.todo)
          /\ UNCHANGED infra
       \/ /\ c \in run.live /\ c # Base
          /\ st' = [st EXCEPT ![c] = "BUILD_FAILED"]
          /\ StartBuild(step.todo)
          /\ UNCHANGED <<run, images, infra>>
       \/ /\ c \notin run.live /\ Halt /\ step' = Idle /\ UNCHANGED <<st, run, images, infra>>
       \/ /\ InfraFault /\ Halt /\ step' = Idle /\ UNCHANGED <<st, run, images>>
    /\ UNCHANGED <<archived, row, floor, outs, requeues, fault, score, bound, envelope,
                   nsess, flight, anchorVars, clock, ops, crashes>>

-----------------------------------------------------------------------------
\* EVALUATING: the batches run side by side, each fenced by the floor it started under.

\* The committed items are there, the batch rows exist, and those that can run are gathered.
_stage_evaluating ==
    /\ step.at = "fenced" /\ step.phase = "EVALUATING"
    /\ validate_evaluation_item_bindings
    /\ LET rows == [c \in Subjects |-> IF c \in Built /\ row[c] = "NONE" THEN "PENDING" ELSE row[c]]
       IN  /\ row' = rows
           /\ step' = [Idle EXCEPT !.at = "eval", !.floor = floor,
                          !.todo = {c \in Built : rows[c] \in {"PENDING", "REQUEUED", "RUNNING"}}]
    /\ UNCHANGED <<comp, st, archived, floor, outs, requeues, fault, score, bound, images, envelope,
                   runVars, flight, anchorVars, envVars>>

\* An item is missing: it can no longer be ingested, and the competition stays halted.
ItemMissing ==
    /\ step.at = "fenced" /\ step.phase = "EVALUATING"
    /\ ~validate_evaluation_item_bindings /\ Halt /\ step' = Idle
    /\ UNCHANGED <<st, archived, row, floor, outs, requeues, fault, score, bound, images, envelope,
                   runVars, flight, anchorVars, envVars>>

\* gated() under its semaphore: a halt skips the batch and fails the step; a reset since
\* the tick began skips it; otherwise it starts under the current floor.
MutStartsWhenHalted(c) ==
    IF floor # step.floor
    THEN UNCHANGED <<row, flight>> /\ step' = [step EXCEPT !.todo = @ \ {c}]
    ELSE /\ row' = [row EXCEPT ![c] = "RUNNING"]
         /\ flight' = flight \cup {[c |-> c, floor |-> floor]}
         /\ step' = [step EXCEPT !.todo = @ \ {c}]
gated(c) ==
    IF comp.halted
    THEN UNCHANGED <<row, flight>> /\ step' = [step EXCEPT !.todo = @ \ {c}, !.ok = FALSE]
    ELSE IF floor # step.floor
    THEN UNCHANGED <<row, flight>> /\ step' = [step EXCEPT !.todo = @ \ {c}]
    ELSE /\ row' = [row EXCEPT ![c] = "RUNNING"]
         /\ flight' = flight \cup {[c |-> c, floor |-> floor]}
         /\ step' = [step EXCEPT !.todo = @ \ {c}]

StartBatch ==
    /\ step.at = "eval" /\ step.todo # {} /\ Cardinality(flight) < Parallel
    /\ gated(Min(step.todo))
    /\ UNCHANGED <<comp, st, archived, floor, outs, requeues, fault, score, bound, images, envelope,
                   runVars, anchorVars, envVars>>

\* fenced(): a reset overtook the batch, whose result is dropped.
fenced(b) == floor # b.floor

\* The runner, not the contender, failed: requeue within the budget, then halt with the
\* batch still runnable.
RequeueOrHalt(c) ==
    IF requeues[c] >= MaxRequeues
    THEN /\ row' = [row EXCEPT ![c] = "REQUEUED"] /\ Halt
         /\ step' = [step EXCEPT !.ok = FALSE] /\ UNCHANGED requeues
    ELSE /\ row' = [row EXCEPT ![c] = "REQUEUED"]
         /\ requeues' = [requeues EXCEPT ![c] = @ + 1]
         /\ UNCHANGED <<comp, step>>

Nothing == UNCHANGED <<comp, row, outs, requeues, fault, step>>

\* run_batch returned outputs; the last attempt executed in the runner that is there now.
BatchOk(b) ==
    /\ CanExecute(b.c)
    /\ IF fenced(b) THEN Nothing
       ELSE /\ outs' = [outs EXCEPT ![b.c] = [at |-> floor, ran |-> b.floor, sess |-> run.sess]]
            /\ row' = [row EXCEPT ![b.c] = "COMPLETED"]
            /\ UNCHANGED <<comp, requeues, fault, step>>
    /\ UNCHANGED <<run, infra>>

\* The solution failed, or completed with an empty output.
BatchContenderFault(b) ==
    /\ CanExecute(b.c)
    /\ IF fenced(b) THEN Nothing
       ELSE /\ fault' = [fault EXCEPT ![b.c] = floor]
            /\ row' = [row EXCEPT ![b.c] = "FAILED"]
            /\ UNCHANGED <<comp, outs, requeues, step>>
    /\ UNCHANGED <<run, infra>>

\* The sandbox failed; the failure may show that the runtime is gone.
BatchInfraFault(b) ==
    /\ (CanExecute(b.c) => InfraFault) /\ (~CanExecute(b.c) => UNCHANGED infra)
    /\ IF fenced(b) THEN Nothing ELSE RequeueOrHalt(b.c) /\ UNCHANGED <<outs, fault>>
    /\ UNCHANGED run \/ (run.sess # None /\ discard)

FinishBatch ==
    \E b \in flight :
       /\ flight' = flight \ {b}
       /\ BatchOk(b) \/ BatchContenderFault(b) \/ BatchInfraFault(b)
       /\ UNCHANGED <<st, archived, floor, score, bound, images, envelope, nsess, anchorVars,
                      clock, ops, crashes>>

mark_evaluation_complete ==
    IF \A c \in Built : row[c] \in {"COMPLETED", "FAILED"}
    THEN Apply("EVALUATING", "SCORING") ELSE UNCHANGED comp

\* gather() returned: with no skipped batch and every row terminal the phase moves.
FinishEvaluation ==
    /\ step.at = "eval" /\ step.todo = {} /\ flight = {}
    /\ step' = Idle
    /\ IF step.ok /\ ~comp.halted THEN mark_evaluation_complete ELSE UNCHANGED comp
    /\ UNCHANGED <<st, archived, row, floor, outs, requeues, fault, score, bound, images, envelope,
                   runVars, flight, anchorVars, envVars>>

-----------------------------------------------------------------------------
\* SCORING: one row per built subject; a subject without effective output is zeroed.

\* outputs_for_contender: the latest event after the floor.
outputs_for_contender(c) == IF outs[c] # None /\ outs[c].at = floor THEN outs[c] ELSE None

Unscored == {c \in Built : score[c] = None}

\* One row, bound to its packet and its bundle.
record_item_score(c, packet) == score' = [score EXCEPT ![c] = packet]
_persist_scored_item(c) == record_item_score(c, outputs_for_contender(c))
_zero_score_item(c) == record_item_score(c, Zero)

\* The review window opens with the last row.
mark_scores_persisted ==
    comp' = IF comp.phase = "SCORING"
            THEN [comp EXCEPT !.phase = "AWAITING", !.reviewAt = clock + 1] ELSE comp

\* The next pair: the halt is read before each, an output is sent to the scorer.
_stage_scoring ==
    /\ StepReady("SCORING") \/ (step.at = "scored" /\ ~comp.halted)
    /\ IF Unscored = {}
       THEN /\ step' = Idle /\ UNCHANGED score
            /\ IF MissingItemScores = {} /\ MissingCalibrationRows = {}
               THEN mark_scores_persisted ELSE UNCHANGED comp
       ELSE LET c == Min(Unscored) IN
            /\ UNCHANGED comp
            /\ IF outputs_for_contender(c) = None
               THEN /\ _zero_score_item(c)
                    /\ step' = [Idle EXCEPT !.at = "scored"]
               ELSE UNCHANGED score /\ step' = [Idle EXCEPT !.at = "score", !.c = c]
    /\ UNCHANGED <<st, archived, row, floor, outs, requeues, fault, bound, images, envelope,
                   runVars, flight, anchorVars, envVars>>

ScoringHalted ==
    /\ step.at = "scored" /\ comp.halted /\ step' = Idle
    /\ UNCHANGED <<dbVars, runVars, flight, anchorVars, envVars>>

\* The scorer answered: a packet, a rejection of the output's bytes, or a failure.
FinishScore ==
    /\ step.at = "score"
    /\ \/ /\ _persist_scored_item(step.c)
          /\ step' = [Idle EXCEPT !.at = "scored"] /\ UNCHANGED <<comp, fault, infra>>
       \/ /\ _zero_score_item(step.c)
          /\ fault' = [fault EXCEPT ![step.c] = floor]
          /\ step' = [Idle EXCEPT !.at = "scored"] /\ UNCHANGED <<comp, infra>>
       \/ InfraFault /\ Halt /\ step' = Idle /\ UNCHANGED <<score, fault>>
    /\ UNCHANGED <<st, archived, row, floor, outs, requeues, bound, images, envelope,
                   runVars, flight, anchorVars, clock, ops, crashes>>

-----------------------------------------------------------------------------
\* The operator's control routes, and the process.

Operate == ops < MaxOps /\ ops' = ops + 1 /\ Yielded

pause ==
    /\ Operate /\ comp.phase \notin Terminal /\ ~comp.halted /\ Halt
    /\ UNCHANGED <<st, archived, row, floor, outs, requeues, fault, score, bound, images, envelope,
                   runVars, step, flight, anchorVars, clock, infra, crashes>>

\* Clearing a halt, with or without a fresh requeue budget.  It is not counted as an
\* intervention: a halted competition waits for it.
clear_halt ==
    /\ Yielded /\ comp.halted /\ comp' = [comp EXCEPT !.halted = FALSE]
    /\ requeues' \in {requeues, [c \in Subjects |-> 0]}
    /\ UNCHANGED <<st, archived, row, floor, outs, fault, score, bound, images, envelope,
                   runVars, step, flight, anchorVars, envVars>>

rerun_evaluation ==
    /\ Operate /\ comp.phase = "EVALUATING" /\ ResetEvaluation
    /\ UNCHANGED <<comp, st, archived, outs, fault, score, bound, images, envelope,
                   runVars, step, flight, anchorVars, clock, infra, crashes>>

\* Raising the envelope reruns the matrix when it is already being evaluated.
amend_execution ==
    /\ Operate /\ nsess < MaxSessions
    /\ comp.phase \in {"ENROLLING", "FINALIZING", "VALIDATING", "BUILDING", "EVALUATING"}
    /\ envelope' = envelope + 1
    /\ IF comp.phase = "EVALUATING" THEN ResetEvaluation ELSE UNCHANGED <<row, floor, requeues>>
    /\ UNCHANGED <<comp, st, archived, outs, fault, score, bound, images,
                   runVars, step, flight, anchorVars, clock, infra, crashes>>

reject_contender(c) ==
    /\ Operate /\ c # Base /\ st[c] \in {"ENROLLED", "ACCEPTED"}
    /\ comp.phase \in {"ENROLLING", "FINALIZING", "VALIDATING"}
       \/ (comp.phase = "BUILDING" /\ comp.halted)
    /\ st' = [st EXCEPT ![c] = "REJECTED"]
    /\ UNCHANGED <<comp, archived, row, floor, outs, requeues, fault, score, bound, images, envelope,
                   runVars, step, flight, anchorVars, clock, infra, crashes>>

\* The end can only move later, and into the future.
amend_schedule ==
    /\ Operate /\ comp.phase \notin Terminal
    /\ \E t \in comp.endAt..MaxClock : t > clock /\ comp' = [comp EXCEPT !.endAt = t]
    /\ UNCHANGED <<st, archived, row, floor, outs, requeues, fault, score, bound, images, envelope,
                   runVars, step, flight, anchorVars, clock, infra, crashes>>

abort ==
    /\ Operate /\ comp.phase \notin Terminal
    /\ comp' = [comp EXCEPT !.phase = IF @ = "ENROLLING" THEN "CANCELLED" ELSE "FAILED"]
    /\ UNCHANGED <<st, archived, row, floor, outs, requeues, fault, score, bound, images, envelope,
                   runVars, step, flight, anchorVars, clock, infra, crashes>>

\* Time, where a deadline is waited for.
Advance ==
    /\ clock < MaxClock /\ comp.phase \in {"SCHEDULED", "ENROLLING", "SCORING", "AWAITING"}
    /\ clock' = clock + 1
    /\ UNCHANGED <<dbVars, runVars, step, flight, anchorVars, ops, infra, crashes>>

\* The process dies: its locals and the sandbox runtime go, the database stays.  It may
\* come back with other reward parameters.
Crash ==
    /\ crashes < MaxCrashes /\ crashes' = crashes + 1 /\ nsess < MaxSessions
    /\ step' = Idle /\ flight' = {} /\ req' = NoReq /\ run' = NoRun
    /\ params' \in {params, 2}
    /\ UNCHANGED <<dbVars, nsess, claim, chain, clock, ops, infra>>

Next ==
    \/ _release_idle_runner \/ OtherAnchor \/ ingest_evaluation_item
    \/ AnchorRequest \/ AnchorWrite \/ ChainLand \/ AnchorReceipt \/ release_anchor_claim
    \/ TickEnroll \/ (\E c \in Reals : enroll_contender(c)) \/ TickFinalize \/ _inject_baseline
    \/ TickComplete
    \/ _check_scorer_identity \/ _stage_finalizing \/ FinishArchive \/ _stage_validating
    \/ EnsureRuntime("BUILDING") \/ EnsureRuntime("EVALUATING") \/ EnsureRuntimeRefused
    \/ RestoreImage \/ RebindRuntime
    \/ _stage_building \/ FinishBuild \/ FinishProbe
    \/ _stage_evaluating \/ ItemMissing \/ StartBatch \/ FinishBatch \/ FinishEvaluation
    \/ _stage_scoring \/ ScoringHalted \/ FinishScore
    \/ pause \/ clear_halt \/ rerun_evaluation \/ amend_execution
    \/ (\E c \in Reals : reject_contender(c)) \/ amend_schedule \/ abort
    \/ Advance \/ Crash

Spec == Init /\ [][Next]_vars

-----------------------------------------------------------------------------

(***************************************************************************)
(* The outputs that are scored were all produced by one sandbox runtime,   *)
(* in a run that began after the last reset: a crash, a dead runtime, an   *)
(* operator's rerun or another competition taking the runner never mixes   *)
(* two runtimes in one matrix (reset_evaluation_for_modal_runtime).        *)
(***************************************************************************)
ScoredOutputs == {score[c] : c \in {d \in Subjects : score[d] \notin {None, Zero}}}
OneRuntimeScored ==
    /\ \A o \in ScoredOutputs : o.ran = o.at
    /\ Cardinality({o.sess : o \in ScoredOutputs}) <= 1

(***************************************************************************)
(* A subject is scored zero only when it failed by its own doing in the    *)
(* run that is scored; never because the sandbox failed, the requeue       *)
(* budget ran out, the process died or the matrix was rerun (failures.py). *)
(***************************************************************************)
ZeroedByOwnFault == \A c \in Subjects : score[c] = Zero => fault[c] = floor

(***************************************************************************)
(* The scored matrix is fair: every output comes from one runtime, and     *)
(* every zero from its contender's own failure.                            *)
(***************************************************************************)
MatrixIsFair == OneRuntimeScored /\ ZeroedByOwnFault

(***************************************************************************)
(* One commitment reaches the chain, whatever was lost, retried or crashed *)
(* in between, and enrollment opens only under a commitment that is there  *)
(* (_claim_anchor).                                                        *)
(***************************************************************************)
OneCommitment ==
    /\ chain.count + (IF chain.pending = None THEN 0 ELSE 1) <= 1
    /\ comp.phase \in Running => comp.root # None /\ comp.root \in chain.landed

(***************************************************************************)
(* While the competition is halted no build, no batch and no scoring       *)
(* begins, also inside a step that was under way when it was halted.       *)
(***************************************************************************)
HaltHolds ==
    [][comp.halted =>
         /\ flight' \subseteq flight
         /\ step'.at \in {"build", "score"} => step'.at = step.at /\ step'.c = step.c]_vars

(***************************************************************************)
(* A completed competition has scored its baseline: the crown is measured  *)
(* against it.  The completion gate counts the rows a baseline still lacks *)
(* (count_missing_calibration_rows) and so does not see a baseline that a  *)
(* crash between the two transactions of the finalization never inserted;  *)
(* the runtime fence does.                                                 *)
(***************************************************************************)
CompletedHasBaseline == comp.phase = "COMPLETED" => score[Base] # None
=============================================================================
