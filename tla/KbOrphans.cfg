\* One document and one DELETE request; one call fails.
CONSTANTS
    d1 = d1
    d2 = d2
    k1 = k1
    k2 = k2
    None = None
    Docs = {d1}
    Blank = {}
    Callers = {k1}
    MaxDocuments = 1
    MaxRetries = 3
    ReadCount = 2
    MaxFaults = 1
SPECIFICATION Spec
INVARIANT OrphansNotQueryable
CHECK_DEADLOCK FALSE
