\* SDIO with failing ports, and UART with a host that writes in pieces.
SPECIFICATION FairSpec
CONSTANTS
    Setups <- MCSetups
    BufSize = 8
INVARIANTS
    FramedAsSent
    PortGetsItsPackets
PROPERTIES
    AllForwarded
\* the host has sent its packets
CHECK_DEADLOCK FALSE
