SPECIFICATION Spec
CONSTANTS
    CharSize = 2
    DictSize = 10
    MaxString = 3
    InfoSize = 8
    BufSize = 8
    MaxCwSize = 4
    MaxChars = 6
    Written = {0, 3}
    LineCap = 1
    MaxSwitch = 2
    MaxShort = 1
ACTION_CONSTRAINT InTurns
CHECK_DEADLOCK FALSE
INVARIANTS
    TypeOK
    ShownAsWritten
    NoDecoderError
    FlushComplete
    InStep
