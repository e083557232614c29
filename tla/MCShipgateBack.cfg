SPECIFICATION FairSpec
CONSTANTS
    ship1 = ship1
    ship2 = ship2
    player1 = player1
    Ships = {ship1}
    Players = {player1}
    LastBlock = 1
    NoRow = NoRow
    MaxUp = 2
    MaxDown = 3
    MaxFaults = 1
PROPERTIES
    ComesBack
