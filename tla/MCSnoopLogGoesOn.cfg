\* The shipped configuration, no failures: does the log survive its roll-overs?
SPECIFICATION Spec
CONSTANTS
    Thread = {"t1"}
    Modes <- ShippedModes
    Limit = 3
    PktLens = {2}
    MaxPackets = 4
    MaxSessions = 1
    Faults = {}
INVARIANTS
    SnoopGoesOn
CHECK_DEADLOCK FALSE
