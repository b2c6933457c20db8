SPECIFICATION Spec
CONSTANTS
    Frames <- MCFrames
    Chars <- MCChars
    NBits = {1, 3, 8}
    RxSize = 6
    MaxFrames = 3
    MaxFlips = 2
INVARIANTS
    TypeOK
    LookaheadEnough
    OnlySent
    Arrives
