CONSTANTS
    Hosts <- MCHosts
    HotkeyOf <- MCHotkeyOf
    ModeOf <- MCModeOf
    LastEpoch = 2
    Logs = {honest, crooked}
    Faulty = {crooked}
    Backdated = {crooked}
    Depth = 1
    LastBlock = 3
    MaxFaults = 2
    None = None
SPECIFICATION Spec
CHECK_DEADLOCK FALSE
INVARIANTS PassedOnce DisputeStands 
 
