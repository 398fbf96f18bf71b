SPECIFICATION Spec
CONSTANTS
    v1 = v1
    v2 = v2
    NoVideo = NoVideo
    Videos <- MCVideos
    Captioned <- MCVideos
    TokenFields = {TRUE, FALSE}
    Keys = {"missing", "jwt"}
    UniqueAt = 1
    Beat = 2
    Length = 2
    MaxChanges = 2
    MaxOut = 2

SYMMETRY MCSymmetry
CHECK_DEADLOCK FALSE

INVARIANTS
    TypeOK

PROPERTIES
    NoUniqueAfterAnswer
    
    NoLateSubtitles
