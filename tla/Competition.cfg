SPECIFICATION Spec
CONSTANTS
  None = None
  NReal = 1
  Parallel = 2
  MaxRequeues = 1
  MaxClock = 4
  MaxSessions = 3
  MaxOps = 1
  MaxInfra = 1
  MaxCrashes = 1
CHECK_DEADLOCK FALSE
INVARIANTS  OneCommitment 
 
