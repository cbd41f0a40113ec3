\* Two devices and two lessons; a transcript of two lines and two sessions that start.
SPECIFICATION RecallFairSpec
CONSTANTS
    a = a  b = b  m = m  n = n  first = first  second = second
    Device = {a, b}
    Lesson = {m, n}
    NoRow = NoRow
    Nobody = Nobody
    MaxClock = 2
    Old = 0
    Scene <- Scenes
    Trait <- Traits
    Alike <- AlikeDef
    Filed <- Folders
    Line <- Transcript
    Starter = {first, second}
    Search <- Searches
INVARIANTS
    RecallTypeOK
    NoSecondHand
    RemovedFallSilent
    
PROPERTIES
    LessonsSpread
CHECK_DEADLOCK FALSE
