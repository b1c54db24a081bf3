SPECIFICATION Spec
CONSTANTS
    Procs = {p1, p2}
    MaxEpoch = 3
    Uids = {u1}
    Keys = {1}
    MaxStamp = 1
    Closes = {1}
    WriteOnce = TRUE
SYMMETRY ProcSymmetry
CHECK_DEADLOCK FALSE
INVARIANTS PointerMatchesBytes FoldedOnce 
