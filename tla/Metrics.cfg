\* Two replicas, two snapshots each, and one fault.  Or three replicas and three chunks.
CONSTANTS
    r1 = r1
    r2 = r2
    Replica = {r1, r2}
    MaxSamples = 2
    MaxFaults = 1
    w1 = w1
    w2 = w2
    w3 = w3
    Worker = {w1, w2, w3}
    Work = 3
    Length <- Lengths
    Rate <- Rates
    CatalogKnows = TRUE
SPECIFICATION EitherSpec
SYMMETRY Symmetry
INVARIANTS
    TotalAddsUp
    SnapshotsKept
    RunIsOfItsReplicas
CHECK_DEADLOCK FALSE
