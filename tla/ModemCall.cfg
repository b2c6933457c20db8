SPECIFICATION Spec
CONSTANTS
    XmitCap = 2
    Voice = FALSE
INVARIANTS
    CallHasDevice
    StopScheduled
    HangupSchedulesStop
    TerminalTold
    AnswerTimerOwned
