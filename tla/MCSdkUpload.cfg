SPECIFICATION Spec
CONSTANTS
    c1 = c1
    c2 = c2
    c3 = c3
    c4 = c4
    f2 = f2
    f3 = f3
    upload = upload
    Calls <- MCCalls
    Files <- MCFiles
    FileName <- MCFileName
    BufferName = upload
    PartsOf <- MCPartsOf
    DefaultCount = 2
    Fields <- MCFields
    NaN = NaN

CHECK_DEADLOCK FALSE

INVARIANTS
    TypeOK
    DoneIsWhole
    FullProgressIsStored
    OnlyNamesakesReplace

PROPERTIES
    CallsEnd
