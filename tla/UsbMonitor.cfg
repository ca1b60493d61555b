SPECIFICATION FairSpec
CONSTANTS
    MaxPlugs = 2
    MaxCalls = 2
    MaxClones = 1
CHECK_DEADLOCK FALSE
INVARIANTS
    TypeOK
    Tracked
    ClosedInTime
PROPERTIES
    AttachAnnounced
