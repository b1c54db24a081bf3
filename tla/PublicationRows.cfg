SPECIFICATION FairSpec
CONSTANTS
    MaxEpoch = 2
    BadEpochs = {2}
    MaxRows = 2
    MaxFaults = 2
CHECK_DEADLOCK FALSE
INVARIANTS PublicationIsOpen
PROPERTIES CommitmentsPinned AcceptedIsPublished
