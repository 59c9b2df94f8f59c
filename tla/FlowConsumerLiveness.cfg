\* Two replicas, one message with its copies.
CONSTANTS
    Workers = {w1, w2}
    m1 = m1
    m2 = m2
    m3 = m3
    c1 = c1
    c2 = c2
    Chats = {c1}
    Msgs = {m1}
    ChatOf <- MCChatOf
    None = None
    ReadCount = 2
    RateLimit = 1
    MaxEntries = 3
    Mishaps = {"fault", "crash", "steal"}
    MaxMishaps = 2
SPECIFICATION FairSpec
PROPERTIES EveryMessageSettles LockFreed
CHECK_DEADLOCK FALSE
