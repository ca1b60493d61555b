SPECIFICATION Spec
CONSTANTS
    MaxFrame = 1
    Capturers = {k1}
    MaxStarts = 1
    MaxCalls = 1
    Spurious = TRUE
    NULL = NULL
    k1 = k1
INVARIANTS
    FramesAccounted
    NoSleepOnFrame
    StoppedIsEmpty
    IInv
