\* Three calls of USERIAL_OPEN in any sessions, one death of the process, every failure.
SPECIFICATION Spec
CONSTANTS
    Laps = {"a", "b"}
    Faults = {"fopen", "fwrite", "ap", "boot", "data", "device", "socket"}
    noConf = noConf
    NoConf = noConf
    Confs <- MCConfs
    MaxOpens = 3
    MaxCrashes = 1
INVARIANTS
    RoutesRun
    StackGetsFirstPort
    BtpwClosedOnce
    AddressStable
CHECK_DEADLOCK FALSE
