CONSTANTS
    j1 = j1
    j2 = j2
    j3 = j3
    Requests <- TwoRequests
    Vcpus <- TwoVcpus
    Quota = 4
    MaxStops = 1
    MaxFaults = 1
SPECIFICATION FairSpec
INVARIANTS
    MemoryMatchesRows
    ShutdownDrains
PROPERTIES
    ReservationsEnd
CHECK_DEADLOCK FALSE
