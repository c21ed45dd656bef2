SPECIFICATION FairSpec
CONSTANTS
    l = l
    r = r
    p1 = p1
    p2 = p2
    NoPhone = NoPhone
    Buds <- TwoBuds
    Phones <- OnePhone
    Records <- NoneOrOne
    UserOps = {"start_conn"}
    Faults = {"super_timeout", "lost", "already_exists"}
    MaxQueue = 1
    MaxEvents = 1
PROPERTY SiblingsMeet
CHECK_DEADLOCK FALSE
