SPECIFICATION FairSpec
CONSTANTS
    MaxCalls = 2
    Frame = 2
    Delays <- NoDelay
    MaxAlarms = 0
CHECK_DEADLOCK FALSE
PROPERTIES
    FrameServed
    HangupEnds
    RemoteEndSeen
