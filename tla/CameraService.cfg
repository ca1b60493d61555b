SPECIFICATION FairSpec
CONSTANTS
    c1 = c1
    c2 = c2
    Clients = {c1, c2}
    Worker = Worker
    Main = Main
    Nobody = Nobody
    MaxServers = 2
    MaxCalls = 3
CHECK_DEADLOCK FALSE
INVARIANTS
    TypeOK
    ReleasedCloses
    ToldTruth
PROPERTIES
    CallsEnd
