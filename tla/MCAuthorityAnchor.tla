--------------------------- MODULE MCAuthorityAnchor ---------------------------
(* Small instances of AuthorityAnchor for TLC.                             *)
EXTENDS AuthorityAnchor

CONSTANTS p1, p2

\* Epoch e closes at block e.
MCClose == [e \in Epochs |-> e]
=============================================================================
