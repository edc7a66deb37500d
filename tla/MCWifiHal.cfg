\* Two handles, two commands, an event for each handle, every failure.
SPECIFICATION FairSpec
CONSTANTS
    Kernels <- MCKernels
    Garbage = {0, 77}
    MaxHandles = 2
    MaxEvents = 1
    MaxCommands = 2
    Faults = {"socket", "resolve", "send", "error", "lost", "poll"}
INVARIANTS
    LateUseExplained
    InterfacesRight
PROPERTIES
    RefusedExplained
    OperationsTerminate
\* the bounds; a lost message
CHECK_DEADLOCK FALSE
