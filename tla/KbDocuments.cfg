\* Two documents, one without text, a quota of one, two DELETE requests.
CONSTANTS
    d1 = d1
    d2 = d2
    k1 = k1
    k2 = k2
    None = None
    Docs = {d1, d2}
    Blank = {d2}
    Callers = {k1, k2}
    MaxDocuments = 1
    MaxRetries = 3
    ReadCount = 2
    MaxFaults = 1
SPECIFICATION FairSpec
INVARIANTS TypeOK NoResurrection IndexedIsSearchable
PROPERTY JobsSettle
CHECK_DEADLOCK FALSE
