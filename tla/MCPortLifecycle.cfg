\* Two ports, devices and calls may fail.
SPECIFICATION Spec
CONSTANTS
    NPorts = 2
    MaxSessions = 1
    MaxData = 1
    MaxHostData = 2
    SocketRoom = 1
    Faults = {"calls", "hup", "bad", "eof"}
INVARIANTS
    ClosedMeansStopped
    LateUseExplained
    DoubleCloseExplained
\* the stack stops opening after MaxSessions
CHECK_DEADLOCK FALSE
