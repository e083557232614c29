SPECIFICATION Spec
CONSTANTS
    c1 = c1
    c2 = c2
    c3 = c3
    g1 = g1
    g2 = g2
    d1 = d1
    d2 = d2
    Clients = {c1, c2, c3}
    PCClients = {c1}
    V1Clients = {}
    DefaultLobbies = {d1}
    V1Lobbies = {d1}
    LobbyOrder <- MCOneLobby
    GameRefs = {g1}
    NoClient = NoClient
    NoLobby = NoLobby
    LobbyMax = 3
    GameMax = 3
    SlotOneFirst = FALSE
    AnyOrder = TRUE
    RelockBlocks = FALSE
    MaxTime = 2
INVARIANTS
    Accounting NoPacketLeftBehind
PROPERTIES
    LeaderPasses
SYMMETRY MCUnlike
