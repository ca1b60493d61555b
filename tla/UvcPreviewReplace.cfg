SPECIFICATION Spec
CONSTANTS
    MaxFrame = 1
    Capturers = {k1}
    MaxStarts = 1
    MaxCalls = 1
    Spurious = FALSE
    NULL = NULL
    k1 = k1
CHECK_DEADLOCK FALSE
PROPERTIES
    ReplacedIdle
