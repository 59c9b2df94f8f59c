\* Two replicas, two messages of one conversation.
CONSTANTS
    Workers = {w1, w2}
    m1 = m1
    m2 = m2
    m3 = m3
    c1 = c1
    c2 = c2
    Chats = {c1}
    Msgs = {m1, m2}
    ChatOf <- MCChatOf
    None = None
    ReadCount = 2
    RateLimit = 1
    MaxEntries = 4
    Mishaps = {"fault", "crash", "steal"}
    MaxMishaps = 1
SPECIFICATION Spec
SYMMETRY WorkerSymmetry
INVARIANTS TypeOK MutualExclusion NoSilentLoss OneRunPerDelivery
PROPERTIES TurnsSurvive ImplementsConversations
CHECK_DEADLOCK FALSE
