SPECIFICATION Spec
CONSTANTS
    None = None
    NoGuid = NoGuid
    Client = {c1, c2, c3, gm}
    Premium = {c2}
    Privileged = {gm}
    MaxPlayers = 2
    MaxEntries = 3
    Protocol = {p1, p2, p3}
    LateEnd = FALSE
    Character = {ordinary, gamemaster}
    AlwaysLogin = {gamemaster}
    MaxRequests = 3
    MaxLogins = 1
    MaxFailures = 1
    amy = amy
    bea = bea
    cleo = cleo
    dora = dora
    P1 = P1
    P2 = P2
    Player <- MCPlayer
    PartyId <- MCPartyId
    buyer = buyer
    seller = seller
    o1 = o1
    o2 = o2
    Customer <- MCCustomer
    OfferId <- MCOfferId
    Amount <- MCAmount
    Price <- MCPrice
    Fee = 1
    Wealth = 4
    Stock = 2
    MaxOffers = 1
    MaxAnswers = 2
    kim = kim
    lea = lea
    max = max
    Fighter <- MCFighter
    Allies <- MCAllies
    MaxHealth = 2
    FragTime = 2
    KillsToRed = 1
    KillsToBlack = 2
    MaxBlows = 3
    MaxSteps = 1
    Castable <- MCCastable
    Wear <- MCWear
    Until = 3
    MaxGiven = 3
    xena = xena
    yuri = yuri
    zoe = zoe
    G1 = G1
    G2 = G2
    n100 = n100
    n101 = n101
    Talker <- MCTalker
    MayOwn <- MCChatters
    Group <- MCGroup
    Place <- MCPlace
    MaxChats = 6
    MaxWay = 2
    MaxAsked = 4
    MaxPending = 1
INVARIANTS
    PlayersTypeOK
    ClientsAgree
    PlayersLeaveInTime
    MembershipAgrees
    MarketConserves
    EffectsAgree
    ChannelsAgree
    ErrandsAttended
PROPERTIES
    
    FightsAreJust
CHECK_DEADLOCK FALSE
