SPECIFICATION FairSpec
CONSTANTS
    Types = {"bulk", "interrupt", "iso", "control"}
    NumUrbs = 3
    MaxSubmits = 2
    MaxCancels = 2
\* The last submission may have been made.
CHECK_DEADLOCK FALSE
INVARIANTS
    TypeOK
    ReapedUnlessHalted
    StatusTruth
PROPERTIES
    TransferKept
