SPECIFICATION Spec
CONSTANTS
    Player = {knight}
    Wild = {wolf}
    Familiar = {familiar}
    None = None
    Nothing = Nothing
    Never = Never
    obj1 = obj1
    obj2 = obj2
    Object <- MCObject
    Kind <- MCKind
    DecayTo <- MCDecayTo
    DecayTime <- MCDecayTime
    StopTime <- MCStopTime
    Twin <- MCTwin
    Turns <- MCTurns
    Durations <- MCDurations
    MaxEntries = 2
    MaxItems = 1
    ann = ann
    bob = bob
    cid = cid
    bag = bag
    pouch = pouch
    gem = gem
    Trader <- MCTrader
    Item <- MCItem
    Bag <- MCBag
    Place <- MCPlace
    FloorAt <- MCFloorAt
    Floor = Floor
SYMMETRY TradeSymmetry
INVARIANTS
    WorldTypeOK
    ReferencesAgree
    EntriesCounted
    MarkedIsListed
PROPERTIES
    DecaysOnTime
    
CHECK_DEADLOCK FALSE
