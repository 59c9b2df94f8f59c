\* One replica, one message, one failing call.
CONSTANTS
    Workers = {w1}
    m1 = m1
    m2 = m2
    m3 = m3
    c1 = c1
    c2 = c2
    Chats = {c1}
    Msgs = {m1}
    ChatOf <- MCChatOf
    None = None
    ReadCount = 2
    RateLimit = 1
    MaxEntries = 1
    Mishaps = {"fault"}
    MaxMishaps = 1
SPECIFICATION Spec
SYMMETRY WorkerSymmetry
INVARIANT IdempotentConsumer
CHECK_DEADLOCK FALSE
