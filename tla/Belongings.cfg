SPECIFICATION Spec
CONSTANTS
    None = None
    bag = bag
    pouch = pouch
    chest = chest
    a1 = a1
    a2 = a2
    a3 = a3
    b1 = b1
    b2 = b2
    g1 = g1
    g2 = g2
    g3 = g3
    pl1 = pl1
    pl2 = pl2
    sword = sword
    shield = shield
    dagger = dagger
    Me = Me
    Where = Where
    Floor = Floor
    Item <- MCItem
    Bag <- MCBag
    Chest <- chest
    KindOf <- MCKindOf
    Type <- MCType
    Stackable <- MCStackable
    StackMax = 3
    Capacity <- MCCapacity
    MaxWeight = 8
    MaxDepotItems = 2
    SlotOrder <- MCSlotOrder
    Starts <- MCStarts
    TradeBag <- MCBackpack
    MaxGoods = 4
    ann = ann
    ben = ben
    box = box
    purse = purse
    gem = gem
    Owner <- MCOwner
    Thing <- MCThing
    Sack <- MCSack
    Tile = Tile
    BodySlot = {"hand", "back"}
    DepotBox = {"near", "far"}
    Pid <- MCPid
    HouseOwner = ben
    FirstGoods <- MCFirstGoods
    Reconnects = FALSE
    MaxChanges = 4
    MaxFaults = 2
    ines = ines
    jack = jack
    head = head
    foot = foot
    cot = cot
    Resident <- MCResident
    Bed <- MCBed
    Partner <- MCPartner
    Rent = 1
    Purse = 1
    WarnMax = 1
    MaxDeeds = 4
    west = west
    east = east
    rat = rat
    spider = spider
    sign = sign
    pool = pool
    blood = blood
    fire = fire
    energy = energy
    Square <- MCSquare
    Being <- MCBeing
    Flat <- MCFlat
    Splash <- MCSplash
    TopOrder <- MCTopOrder
    Loose <- MCLoose
    Field <- MCField
    Lasting <- MCLasting
    Limit = 3
    MaxThings = 4
    gold = gold
    silver = silver
    Coin <- MCCoin
    LastCid = 1
    PageSize = 2
    MaxLeaks = 1
    carl = carl
    baker = baker
    smith = smith
    cent = cent
    cheese = cheese
    basket = basket
    Ground = Ground
    Customer = {carl}
    Merchant = {baker, smith}
    Ware = {cent, cheese}
    Money = {cent}
    Basket = basket
    Wanted <- MCWanted
    MaxFailed = 1
INVARIANTS
    BelongingsTypeOK
    
    StoredAsOwned
    HouseInOrder
    ViewAgrees
    WindowsAgree
    ShopsAgree
CHECK_DEADLOCK FALSE
