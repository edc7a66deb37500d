\* Two attempts, everything external may fail.
SPECIFICATION FairSpec
CONSTANTS
    TlvFiles <- MCTlvFiles
    BlkFiles <- MCBlkFiles
    MaxAttempts = 2
    EnvFails = TRUE
INVARIANTS
    TypeOK
    ReplyMatchesState
    AtRestAfterReport
    BlocksNumbered
    SuccessMeansConfigured
    FaultsExplained
    StallExplained
PROPERTIES
    ConfigCompletes
\* the stack stops asking after MaxAttempts
CHECK_DEADLOCK FALSE
