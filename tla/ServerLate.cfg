SPECIFICATION ServerSpec
CONSTANTS
    Character = {ordinary, gamemaster}
    AlwaysLogin = {gamemaster}
    MaxRequests = 1
    MaxLogins = 1
    MaxFailures = 2
INVARIANTS NobodyStays
CHECK_DEADLOCK FALSE
