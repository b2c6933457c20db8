SPECIFICATION Spec
CONSTANTS
    Modulus = 4
    TxWin = 2
    InfoFrames = 3
    CtrlFrames = 4
    MaxRtx = 1
    LineCap = 2
    MaxData <- CallerData
    MaxLoss = 1
    MaxEarly = 1
    Hangups = {}
CHECK_DEADLOCK FALSE
INVARIANTS
    RingInv
    NoRingError
    NoGap
    NothingLost
PROPERTIES
    OrderedDelivery
