\* Tunnels of two jobs; a process exits, popen raises, and Orca ends, once each.  Or ranks of
\* three kinds under the collector; a pod or a rank goes away, and something is lost.
CONSTANTS
    j1 = j1
    j2 = j2
    a1 = a1
    a2 = a2
    b1 = b1
    Job = {j1, j2}
    Key = {a1, a2, b1}
    JobOf <- JobOfKeys
    PortOf <- SharedPorts
    Refuses = TRUE
    MaxExits = 1
    MaxErrors = 1
    MaxCrashes = 1
    Rank <- SomeRanks
    Gpus <- SomeGpus
    Launched <- OneRank
    MaxMoves = 1
    MaxLosses = 1
SPECIFICATION EitherSpec
INVARIANTS
    OnlyDesiredRuns
    PortsGoHome
    
PROPERTIES
    DesiredRuns
    
CHECK_DEADLOCK FALSE
