SPECIFICATION FairSpec
CONSTANTS
    l = l
    r = r
    p1 = p1
    p2 = p2
    NoPhone = NoPhone
    Buds <- OneBud
    Phones <- TwoPhones
    Records <- UpToTwo
    UserOps = {"page_device"}
    Faults = {"rejected", "lost", "gone"}
    MaxQueue = 2
    MaxEvents = 2
INVARIANTS NoLostWakeup NoDuplicatePage PageTimersMatch
PROPERTY DeviceGivenUp
CHECK_DEADLOCK FALSE
