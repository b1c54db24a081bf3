SPECIFICATION Spec
CONSTANTS
  Interval = 4
  BaseDelay = 1
  Timeout = 1
  MaxTime = 9
  MaxStarts = 5
INVARIANTS RollingBudget BackoffKept
PROPERTY ImplementsGate
CHECK_DEADLOCK FALSE
