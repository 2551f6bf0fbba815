\* A job of two chunks and two replicas with one fault of any kind, and one
\* assembly, whose lock may run out.
CONSTANTS
    Chunks = {c1, c2}
    Replicas = {r1, r2}
    Assemblies = {a1}
    NoReplica = NoReplica
    MaxRetries = 2
    MaxFaults = 1
    MaxLapses = 1
SPECIFICATION Spec
SYMMETRY Symmetry
PROPERTIES
    
    LegalCalls
CHECK_DEADLOCK FALSE
