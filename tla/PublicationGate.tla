---------------------------- MODULE PublicationGate ----------------------------
(***************************************************************************)
(* What the publication path may rely on from the durable retry budget     *)
(* (weight_publication_attempts): a start needs the gate open and closes   *)
(* it, a failed attempt leaves it closed, a crash neither opens nor closes *)
(* it, and time opens it again.  PublicationGovernor implements this with  *)
(* the code's clock arithmetic; Publication uses it.                       *)
(***************************************************************************)
VARIABLES
    gate,    \* now >= publication_retry_at
    running, \* a reserved attempt has not ended
    failed   \* the latest attempt has not succeeded

gateVars == <<gate, running, failed>>

GateInit == gate = TRUE /\ running = FALSE /\ failed = FALSE

(* reserve_publication_attempt returns an attempt id.                      *)
Reserve ==
    /\ gate /\ ~running
    /\ gate' = FALSE /\ running' = TRUE /\ failed' = TRUE

(* finish_publication_attempt: only a success may leave the gate open.     *)
Finish(ok) ==
    /\ running
    /\ running' = FALSE /\ failed' = ~ok
    /\ gate' \in (IF ok THEN BOOLEAN ELSE {FALSE})

(* The attempt ends without its outcome being recorded: the bookkeeping    *)
(* write failed, or the process died.                                      *)
Lose ==
    /\ running
    /\ running' = FALSE
    /\ UNCHANGED <<gate, failed>>

(* The clock reaches publication_retry_at.                                 *)
Reopen ==
    /\ ~gate
    /\ gate' = TRUE
    /\ UNCHANGED <<running, failed>>

GateNext == Reserve \/ (\E ok \in BOOLEAN : Finish(ok)) \/ Lose \/ Reopen

GateSpec == GateInit /\ [][GateNext]_gateVars
=============================================================================
