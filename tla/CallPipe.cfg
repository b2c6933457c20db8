SPECIFICATION Spec
CONSTANTS
    MaxCalls = 1
    Frame = 2
    Delays <- NoDelay
    MaxAlarms = 0
CHECK_DEADLOCK FALSE
INVARIANTS
    DaemonSurvives
