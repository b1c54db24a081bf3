----------------------------- MODULE MCWeightSetter -----------------------------
(* Small instances of WeightSetter for TLC.                                *)
EXTENDS WeightSetter, TLC

CONSTANTS v1, v2

\* v1 and v2 are one u16 step apart: weights_match takes one for the other.
MCNear == {<<v1, v1>>, <<v2, v2>>, <<v1, v2>>, <<v2, v1>>}

MCVectorOf == 1 :> v1 @@ 2 :> v2
=============================================================================
