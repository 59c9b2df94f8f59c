CONSTANTS
    c1 = c1
    c2 = c2
    r1 = r1
    t1 = t1
    None = None
    Keys = {"a", "b"}
    Graphs <- MCGraphs
    MaxNodes = 3
    Callers = {c1, c2}
    Names = {"n", "m"}
    Edits <- MCEdits
    Replicas = {r1}
    Readers = {t1}
    Home <- MCHome
    MaxRows = 2
    MaxReloads = 1
    MaxFaults = 1
SPECIFICATION FairSpec
INVARIANTS TypeOK SoleActive AlwaysServed StoredGraphsWellFormed CachedFlowsWhole ReloadTakesEffect SearchExact
PROPERTIES CachesConverge
CHECK_DEADLOCK FALSE
