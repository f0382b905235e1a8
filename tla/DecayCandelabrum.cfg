SPECIFICATION DecaySpec
CONSTANTS
    None = None
    Nothing = Nothing
    Never = Never
    obj1 = obj1
    obj2 = obj2
    Object <- MCObject
    Kind <- Candelabra
    DecayTo <- BurnsTo
    DecayTime <- BurnTime
    StopTime <- Unlit
    Twin <- AllTwins
    Turns <- LitAndPutOut
    Durations <- MCDurations
    MaxEntries = 2
    MaxItems = 1
INVARIANT NothingLastsForever
CHECK_DEADLOCK FALSE
