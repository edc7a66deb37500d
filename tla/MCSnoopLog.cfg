\* Two threads, all configurations, two sessions, renames and opens that may fail.
SPECIFICATION FairSpec
CONSTANTS
    Thread = {"t1", "t2"}
    Modes <- AllModes
    Limit = 3
    PktLens = {1, 2}
    MaxPackets = 3
    MaxSessions = 2
    Faults = {"rename", "open"}
INVARIANTS
    RecordsWhole
    HeadersInFront
    SnoopBounded
    SnoopStopExplained
    ControllerLogExplained
PROPERTIES
    LoggingTerminates
\* the bounds on packets and sessions
CHECK_DEADLOCK FALSE
