SPECIFICATION Spec
CONSTANTS
    p1 = p1
    p2 = p2
    saber = saber
    mate = mate
    Players = {p1, p2}
    MaxClients = 2
    Singles = {saber}
    Stackables = {mate}
    Meseta = Meseta
    Blank = Blank
    InvMax = 2
    BankMax = 2
    StackMax = 2
    MesetaMax = 1
    Splitters = {p1}
    Bankers = {p2}
    Gifts = {Meseta}
    StartInv <- MCStart
    MaxMade = 1
    MaxHigh = 2
    MaxJoins = 3
INVARIANTS
    TypeOK IdsNameItems BankIdsNameItems
PROPERTIES
    GoodsKept  ThrownOutFor BankKeeps
CHECK_DEADLOCK FALSE
