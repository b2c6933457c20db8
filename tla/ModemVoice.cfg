SPECIFICATION Spec
CONSTANTS
    XmitCap = 1
    Voice = TRUE
CHECK_DEADLOCK FALSE
INVARIANTS
    HangupSchedulesStop
