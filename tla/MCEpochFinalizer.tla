--------------------------- MODULE MCEpochFinalizer ---------------------------
(* Instances of EpochFinalizer for TLC.                                    *)
EXTENDS EpochFinalizer, TLC

ProcSymmetry == Permutations(Procs)
=============================================================================
