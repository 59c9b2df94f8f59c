\* Two replicas, two messages of one conversation, no mishap.
CONSTANTS
    Workers = {w1, w2}
    m1 = m1
    m2 = m2
    m3 = m3
    c1 = c1
    c2 = c2
    Chats = {c1}
    Msgs = {m1, m2}
    ChatOf <- MCChatOf
    None = None
    ReadCount = 2
    RateLimit = 2
    MaxEntries = 2
    Mishaps = {}
    MaxMishaps = 0
SPECIFICATION Spec
SYMMETRY WorkerSymmetry
INVARIANT PerConversationLock
CHECK_DEADLOCK FALSE
