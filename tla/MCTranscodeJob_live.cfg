SPECIFICATION FairSpec
CONSTANTS
    a1 = a1
    a2 = a2
    w1 = w1
    w2 = w2
    m1 = m1
    m2 = m2
    NoEntry = NoEntry
    Requesters <- MCOneRequester
    Workers <- MCOneWorker
    Entries <- MCTwoEntries
    MaxDeliver = 2
    MaxRetries = 1

CHECK_DEADLOCK FALSE
PROPERTIES
    MessagesDrain
