SPECIFICATION SessionSpec
CONSTANTS
    Protocol = {p1, p2}
    None = None
    LateEnd = TRUE
INVARIANT NoPlayerLeak
CHECK_DEADLOCK FALSE
