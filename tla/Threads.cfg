SPECIFICATION Spec
CONSTANTS
    None = None
    Caller = {c1, c2}
    Task = {t1, t2, t3}
    Timed = {t3}
    StopTask = StopTask
    Worker = Worker
    Query = {q1, q2, q3}
    WithCallback = {q1, q2}
    EventTask = {e1, e2}
    IdSpace = 4
    Message = {m1, m2, m3}
    ServerFirst = FALSE
    PeerMayStall = FALSE
    Players = {guard}
    Monsters = {beast}
    Places <- MCPlaces
    FloorSize = 2
    Viewport = 2
    MaxCached = 1
    Tiles <- MCTiles
    Half = 1
    Area <- MCArea
    Begin <- MCBegin
    Rough <- MCRough
    Odd <- MCOdd
    Goals <- MCGoals
    Searches <- MCSearches
    MaxNodes = 9
    MaxClosed = 7
INVARIANTS
    ThreadsTypeOK
    NoLostWakeup
    OwnedOnce
    DeliveredAndReleased
    SpectatorsAgree
    WindowAgrees
    PathsAgree
PROPERTIES
    ImplementsTaskQueue
    AcceptedIsServed
    QueriesExecuted
    ImplementsTimers
    EventEnds
    SilentPeerIsClosed
CHECK_DEADLOCK FALSE
