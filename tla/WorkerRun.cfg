SPECIFICATION FairSpec
CONSTANTS
    l1 = l1  l2 = l2  l3 = l3
    Leases = {l1, l2, l3}
    MaxConcurrent = 2
    ClaimLimit = 2
INVARIANTS TypeOK ReportsHaveRoom NothingOutlivesRun
PROPERTIES DecisionsAreSent ShutdownCompletes CapacityComesBack
CHECK_DEADLOCK FALSE
