SPECIFICATION FairSpec
CONSTANTS
    MaxFrame = 1
    Capturers = {k1}
    MaxStarts = 2
    MaxCalls = 0
    Spurious = FALSE
    NULL = NULL
    k1 = k1
\* A worker asleep since after the stop, and the join that waits for it, stay so.
CHECK_DEADLOCK FALSE
PROPERTIES
    StopReturns
    ContractKept
