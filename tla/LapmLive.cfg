SPECIFICATION FairSpec
CONSTANTS
    Modulus = 4
    TxWin = 2
    InfoFrames = 3
    CtrlFrames = 4
    MaxRtx = 1
    LineCap = 1
    MaxData <- CallerData
    MaxLoss = 1
    MaxEarly = 0
    Hangups = {"caller"}
CHECK_DEADLOCK FALSE
PROPERTIES
    WaitEnds
    Delivered
    BusyEnds
