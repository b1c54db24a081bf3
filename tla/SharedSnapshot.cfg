SPECIFICATION Spec
CONSTANTS
    MaxEpoch = 3
    Worlds <- MCWorlds
    Scale = 3
    Uids = {1, 2, 3}
    Hotkeys = {"h1", "h2", "h3", "h4"}
    Registered <- FirstHolders
    Owner = 3
    MaxIntents = 2
    None = None
CHECK_DEADLOCK FALSE
INVARIANTS FaithfulNeverRefused PaysWhoEarned IntentIsTheDocument
PROPERTIES AdmittedIsCurrent
