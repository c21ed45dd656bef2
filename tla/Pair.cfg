SPECIFICATION Spec
CONSTANTS
    l = l
    r = r
    p1 = p1
    p2 = p2
    NoPhone = NoPhone
    Buds <- TwoBuds
    Phones <- OnePhone
    Records <- NoneOrOne
    UserOps = {}
    Faults = {"super_timeout", "other", "role_switch", "lost"}
    MaxQueue = 1
    MaxEvents = 3
SYMMETRY EitherBud
INVARIANTS TypeOK SlaveQuiet NoLostWakeup NoSwitchWhilePaging Reachable
CHECK_DEADLOCK FALSE
