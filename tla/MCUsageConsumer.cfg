SPECIFICATION FairSpec
CONSTANTS
    e1 = e1
    m1 = m1
    m2 = m2
    w1 = w1
    w2 = w2
    Events <- MCEvents
    Entries <- MCEntries
    EventOf <- MCEventOf
    Workers <- MCTwoWorkers
    Concurrency <- MCConcurrency
    MaxDeliver = 2

CHECK_DEADLOCK FALSE

INVARIANTS
    TypeOK
    AckedIsRecorded
    RecordedOnce
    OwedIsRecorded
    KnownCustomerIsOwed


PROPERTIES
    MessagesEnd
