SPECIFICATION Spec
CONSTANTS
    e1 = e1
    e2 = e2
    r1 = r1
    r2 = r2
    NoToken = NoToken
    Events <- MCEventsTwo
    Relays <- MCRelays
    BatchSize = 2
    MaxAttempts = 2
    Many = 1
    IdIsText = TRUE

SYMMETRY MCSymmetry
CHECK_DEADLOCK FALSE

INVARIANTS
    TypeOK
    PublishedIsStored
    NoStrandedEvent

PROPERTIES
    AttemptsCountUp
    SettledForGood
    ImplementsContract
