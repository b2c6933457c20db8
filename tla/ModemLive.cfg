SPECIFICATION FairSpec
CONSTANTS
    XmitCap = 1
    Voice = TRUE
CHECK_DEADLOCK FALSE
PROPERTIES
    HangupCompletes
