SPECIFICATION Spec
CONSTANTS
    Tol = 1
    Threshold = 90
    Band = 5
    Unit = 64
    Cases <- MCCases
    Outages <- MCOutages
    Samples <- MCSamples
    Protocol <- MCProtocol
    Owner = 0
    Excluded <- MCExcluded
    Crown = 1000
    None = None
INVARIANTS
    FaithfulNeverDisputed
    
    DecidesWithEvidence
CHECK_DEADLOCK FALSE
