SPECIFICATION FairSpec
CONSTANTS
    XmitSize = 5
    LineSize = 4
    Guard = 1
    RingDelay = 2
    Writes <- MCWrites
    MaxInputs = 4
INVARIANTS
    RingIsQueue
    EventKept
    DataNotRun
    LineEndedOnline
    RepeatLast
PROPERTIES
    EscapeGuarded
    EscapeTaken
