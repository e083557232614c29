SPECIFICATION Spec
CONSTANTS
    Players = {p1}
    Ships = {s1}
    NumBlocks = 1
    MaxLogins = 2
    MaxChanges = 2
    MaxCuts = 0
    MaxFaults = 0
    DressingRoom = FALSE
INVARIANT NeverErased
CHECK_DEADLOCK FALSE
