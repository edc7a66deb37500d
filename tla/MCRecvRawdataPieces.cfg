\* A host whose writes arrive in pieces.
SPECIFICATION Spec
CONSTANTS
    Setups <- PieceSetups
    BufSize = 8
INVARIANTS
    TypeAlwaysValid
CHECK_DEADLOCK FALSE
