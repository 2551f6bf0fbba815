\* Progress of a job of two chunks after one fault of any kind.
CONSTANTS
    Chunks = {c1, c2}
    Replicas = {r1}
    Assemblies = {a1, a2}
    NoReplica = NoReplica
    MaxRetries = 2
    MaxFaults = 1
    MaxLapses = 0
SPECIFICATION FairSpec
INVARIANTS
    OneAssembly
PROPERTIES
    CompletedIsAssembled
    EveryLeaseEnds
CHECK_DEADLOCK FALSE
