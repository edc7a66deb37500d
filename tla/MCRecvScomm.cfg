\* Two ports; the streams are cut into reads and writes of 1, 2 or 3 bytes, or as much as fits.
SPECIFICATION FairSpec
CONSTANTS
    Port <- MCPort
    BufSize <- MCBufSize
    Streams <- MCStreams
    Chunks = {1, 2, 3}
INVARIANTS
    PacketsRecognised
    HostSeesWholePackets
    NeverFull
    HeldBackExplained
PROPERTIES
    AllDelivered
    ImplementsHostLink
\* the streams end
CHECK_DEADLOCK FALSE
