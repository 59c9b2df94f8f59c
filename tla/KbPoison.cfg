\* One document and one DELETE request; nothing fails.
CONSTANTS
    d1 = d1
    d2 = d2
    k1 = k1
    k2 = k2
    None = None
    Docs = {d1}
    Blank = {}
    Callers = {k1}
    MaxDocuments = 1
    MaxRetries = 3
    ReadCount = 2
    MaxFaults = 0
SPECIFICATION FairSpec
PROPERTY PoisonIsAcked
CHECK_DEADLOCK FALSE
