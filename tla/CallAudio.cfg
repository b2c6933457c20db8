SPECIFICATION Spec
CONSTANTS
    MaxCalls = 2
    Frame = 2
    Delays <- SomeDelays
    MaxAlarms = 1
CHECK_DEADLOCK FALSE
INVARIANTS
    TwoFramesCirculate
    WholeFrames
    WaitedUnlessAlarmed
    OneDestroys
