SPECIFICATION Spec
CONSTANTS
    Hotkeys = {1, 2, 3, 4}
    Sink = 9
    Outcomes <- MCOutcomes
    MarginNum = 1
    MarginDen = 2
    CrownSplit <- MCCrownSplit
    PodiumSplit <- MCPodiumSplit
    Redistribute = TRUE
    Unit = 660
    Grid = 5
    WindowLength = 2
    MaxTime = 5
    MaxCycle = 3
    None = None
CHECK_DEADLOCK FALSE
INVARIANTS PaidOneWindow CrownIsDisclosed GridIsSpent
