SPECIFICATION ConnectionSpec
CONSTANTS
    Message = {m1, m2, m3}
    ServerFirst = FALSE
    PeerMayStall = TRUE
PROPERTY ClosedSocketCloses
CHECK_DEADLOCK FALSE
