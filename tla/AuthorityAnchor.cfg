SPECIFICATION FairSpec
CONSTANTS
  p1 = p1
  p2 = p2
  Procs = {p1, p2}
  MaxEpoch = 1
  Close <- MCClose
  K = 1
  Era = 1
  FinalityLag = 1
  MaxBlock = 6
  MaxForeign = 1
CHECK_DEADLOCK FALSE
INVARIANTS FencedUntilSettled LandsAtMostOnce IndexedAnchorIsProven
PROPERTIES FenceIsLifted
