SPECIFICATION Spec
CONSTANTS
    l = l
    r = r
    p1 = p1
    p2 = p2
    NoPhone = NoPhone
    Buds <- OneBud
    Phones <- TwoPhones
    Records <- UpToTwo
    UserOps = {"mode_exit"}
    Faults = {}
    MaxQueue = 2
    MaxEvents = 1
INVARIANT NoReopenAfterExit
CHECK_DEADLOCK FALSE
