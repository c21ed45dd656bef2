SPECIFICATION Spec
CONSTANTS
    l = l
    r = r
    p1 = p1
    p2 = p2
    NoPhone = NoPhone
    Buds <- TwoBuds
    Phones <- OnePhone
    Records <- NoneOrOne
    UserOps = {}
    Faults = {"role_switch", "super_timeout"}
    MaxQueue = 2
    MaxEvents = 3
INVARIANT SyncKeepsRecordCount
CHECK_DEADLOCK FALSE
