SPECIFICATION Spec
CONSTANTS
    ship1 = ship1
    ship2 = ship2
    player1 = player1
    Ships = {ship1, ship2}
    Players = {player1}
    LastBlock = 1
    NoRow = NoRow
    MaxUp = 1
    MaxDown = 2
    MaxFaults = 1
INVARIANTS
    TypeOK LoginFirst   RowsOfShips NoGhostRow
SYMMETRY Interchange
