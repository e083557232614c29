SPECIFICATION Spec
CONSTANTS
    b1 = b1
    b2 = b2
    c1 = c1
    c2 = c2
    c3 = c3
    l1 = l1
    l2 = l2
    l3 = l3
    Blocks = {b1, b2}
    Clients = {c1, c2, c3}
    Lobbies = {l1, l2, l3}
    Ship = Ship
    HomeOf <- MCHome
    BlockOf <- MCBlockOf
    WritersFirst = FALSE
INVARIANT
    NoKnot
CHECK_DEADLOCK FALSE
