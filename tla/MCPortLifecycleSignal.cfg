\* One port: which wake-up ends the receive thread.
SPECIFICATION Spec
CONSTANTS
    NPorts = 1
    MaxSessions = 1
    MaxData = 1
    MaxHostData = 0
    SocketRoom = 1
    Faults = {}
INVARIANTS
    ExitBySignal
CHECK_DEADLOCK FALSE
