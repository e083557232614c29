SPECIFICATION Spec
CONSTANTS
    Players = {p1, p2}
    Ships = {s1, s2}
    NumBlocks = 1
    MaxLogins = 2
    MaxChanges = 2
    MaxCuts = 1
    MaxFaults = 1
    DressingRoom = TRUE
INVARIANTS TypeOK LatestKept MovedOnLoaded
PROPERTIES AskedMovesOn RowsGoForward
CHECK_DEADLOCK FALSE
