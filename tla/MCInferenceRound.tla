-------------------------- MODULE MCInferenceRound --------------------------
(* The slots are interchangeable: one is told from another only by equality. *)
EXTENDS InferenceRound, TLC
Slots == Permutations(Uids)
=============================================================================
