SPECIFICATION FairSpec
CONSTANTS
    StartDelay = 2
    AdpPatterns = 2
    T400 = 4
    LineCap = 4
    MaxNoise = 2
CHECK_DEADLOCK FALSE
INVARIANTS
    SameProtocol
PROPERTIES
    CallerFollows
    AnswererEnds
