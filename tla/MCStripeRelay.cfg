SPECIFICATION Spec
CONSTANTS
    e1 = e1
    e2 = e2
    w1 = w1
    w2 = w2
    NoToken = NoToken
    Events <- MCEvents
    Workers <- MCWorkers
    BatchSize = 2
    MaxAttempts = 2

SYMMETRY MCSymmetry
CHECK_DEADLOCK FALSE

INVARIANTS
    TypeOK
    PublishedIsMetered
    NoStrandedRow

PROPERTIES
    OnlyHolderRecords
    ImplementsContract
