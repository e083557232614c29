SPECIFICATION Spec
CONSTANTS
    c1 = c1
    c2 = c2
    c3 = c3
    g1 = g1
    g2 = g2
    d1 = d1
    d2 = d2
    Clients = {c1, c2, c3}
    PCClients = {c1}
    V1Clients = {c2, c3}
    DefaultLobbies = {d1, d2}
    V1Lobbies = {d1}
    LobbyOrder <- MCLobbyOrder
    GameRefs = {g1, g2}
    NoClient = NoClient
    NoLobby = NoLobby
    LobbyMax = 2
    GameMax = 2
    SlotOneFirst = TRUE
    AnyOrder = FALSE
    RelockBlocks = TRUE
    MaxTime = 1
INVARIANTS
    NeverHangs
SYMMETRY MCSymmetry
CHECK_DEADLOCK FALSE
