SPECIFICATION Spec
CONSTANTS
    None = None
    Protocol = {p1, p2}
    LateEnd = FALSE
    Player = {knight}
    Wild = {wolf}
    Familiar = {}
    Character = {ordinary, gamemaster}
    AlwaysLogin = {gamemaster}
    MaxRequests = 2
    MaxLogins = 1
    MaxFailures = 2
    Blocks = 3
    RateSpawn = 1
    MaxGone = 2
    MaxStrays = 1
    Event = {"clean", "hunt"}
    Kind <- MCKind
    FromLua = {"hunt"}
    Raids = {"rats"}
    Length <- MCLength
    Repeated = {}
    MaxReloads = 1
INVARIANT
    LivenessTypeOK
PROPERTIES
    
    ServerGoesOn
    TimeIsKept
CHECK_DEADLOCK FALSE
