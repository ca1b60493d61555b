SPECIFICATION FairSpec
CONSTANTS
    Packets = 2
    MaxFrames = 4
INVARIANTS
    NotMixed
PROPERTIES
    InOrder
    LastDelivered
\* The camera sends a bounded number of frames.
CHECK_DEADLOCK FALSE
