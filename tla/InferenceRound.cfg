SPECIFICATION Spec
CONSTANTS
  None = None
  Uids = {u1, u2}
  MaxRounds = 2
  MaxHead = 2
  MaxEvents = 2
  AnchorWindow = 2
SYMMETRY Slots
CHECK_DEADLOCK FALSE
INVARIANTS WindowsAreFrozen ScoresAccounted  
