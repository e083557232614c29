SPECIFICATION Spec
CONSTANTS
    p1 = p1
    p2 = p2
    p3 = p3
    p4 = p4
    Players = {p1, p2, p3, p4}
    NoPlayer = NoPlayer
    GameMax = 3
    Version = "dc"
    MaxAsked = 2
INVARIANTS
    TypeOK AllAccountedFor
PROPERTIES
    SoundIfUndisturbed FailsForCause UndisturbedEnds
