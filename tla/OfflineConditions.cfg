SPECIFICATION PersistenceSpec
CONSTANTS
    None = None
    ann = ann
    ben = ben
    box = box
    purse = purse
    gem = gem
    Owner <- MCOwner
    Thing <- MCThing
    Sack <- MCSack
    Tile = Tile
    BodySlot = {"hand", "back"}
    DepotBox = {"near", "far"}
    Pid <- MCPid
    HouseOwner = ben
    FirstGoods <- MCFirstGoods
    Reconnects = FALSE
    MaxChanges = 3
    MaxFaults = 1
PROPERTY ConditionsKept
CHECK_DEADLOCK FALSE
