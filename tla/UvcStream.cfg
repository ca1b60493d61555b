SPECIFICATION FairSpec
CONSTANTS
    t1 = t1
    t2 = t2
    t3 = t3
    Transfers = {t1, t2, t3}
    Unplug = TRUE
    SubmitFails = TRUE
    MaxSeq = 3
\* A transfer that could not be submitted again, and an unplugged camera, stop
\* the stream for good.
CHECK_DEADLOCK FALSE
INVARIANTS
    StoppedQuiet
    IInv
PROPERTIES
    ContractKept
    StopReturns
