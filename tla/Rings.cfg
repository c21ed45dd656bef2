SPECIFICATION Spec
CONSTANTS
    left = left
    right = right
    p1 = p1
    p2 = p2
    NoPhone = NoPhone
    Buds <- TwoBuds
    Phones <- BothPhones
    Faults = {"out", "handset", "join"}
    MaxEvents = 2
    MaxQueue = 2
SYMMETRY Swaps
INVARIANTS TypeOK RingEnds FlagEnds LastCallRings AudioFollows
CHECK_DEADLOCK FALSE
