\* Two calls of the framework and three private commands, with every failure.
SPECIFICATION Spec
CONSTANTS
    Countries <- MCCountries
    Channels <- MCChannels
    Rings <- MCRings
    Info <- MCInfo
    Queries <- MCQueries
    MaxQueries = 2
    QueryFaults = {"send", "error", "lost"}
    DRV_NUMBER_SEQUENTIAL_ERRORS = 1
    MaxCmds = 3
    CmdFaults = {"ioctl", "flags"}
INVARIANTS
    UsableExplained
    AnswersRight
    SupplicantInformed
    HangedRight
\* the bounds
CHECK_DEADLOCK FALSE
