CONSTANTS
    a = a
    b = b
    p1 = p1
    p2 = p2
    w = w
    s1 = s1
    s2 = s2
    None = None
    Tenants = {a, b}
    Slugs = {"s", "u"}
    Phones = {p1, p2}
    Hooks = {w}
    Batch <- MCBatch
    Slots = {s1, s2}
    MaxDbFaults = 1
    MaxConnects = 3
    Wanted <- MCWanted
    MaxLen = 1
    MaxTries = 2
    MaxFaults = 1
SPECIFICATION FairSpec
INVARIANTS TypeOK RegisteredCanLogin FinishedBatchIsComplete NoExtraCopies OnlyOwners
PROPERTIES ImplementsChannel RoutingConverges DeliveriesEnd
CHECK_DEADLOCK FALSE
