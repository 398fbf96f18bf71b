SPECIFICATION FairSpec
CONSTANTS
    e1 = e1
    e2 = e2
    r1 = r1
    r2 = r2
    NoToken = NoToken
    Events <- MCEventsOne
    Relays <- MCRelays
    BatchSize = 1
    MaxAttempts = 2
    Many = 2
    IdIsText = FALSE

CHECK_DEADLOCK FALSE
PROPERTIES
    
    BatchEnds
