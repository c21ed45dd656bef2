SPECIFICATION Spec
CONSTANTS
    l = l
    r = r
    p1 = p1
    p2 = p2
    NoPhone = NoPhone
    Buds <- TwoBuds
    Phones <- TwoPhones
    Records <- NoneOrOne
    UserOps = {"refresh", "esco", "poweroff", "mode_exit", "start_proc", "page_device", "paired", "wait_conn"}
    Faults = {"lost", "poweroff", "rejected", "gone"}
    MaxQueue = 1
    MaxEvents = 1
SYMMETRY EitherBud
INVARIANTS NoLostWakeup ListedNotConnected FullThenClosed SlaveQuiet Reachable
CHECK_DEADLOCK FALSE
