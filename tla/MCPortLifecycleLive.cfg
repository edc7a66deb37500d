\* Two ports whose reads and opening calls may fail: liveness.
SPECIFICATION FairSpec
CONSTANTS
    NPorts = 2
    MaxSessions = 1
    MaxData = 1
    MaxHostData = 0
    SocketRoom = 1
    Faults = {"bad", "calls"}
PROPERTIES
    OpenCloseTerminate
    HwErrorReported
\* the stack stops opening after MaxSessions
CHECK_DEADLOCK FALSE
