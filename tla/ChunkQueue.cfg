\* Every interleaving of three chunks and two replicas, three leases (CHUNK_MAX_RETRIES) before a chunk
\* fails, and at most one pull cut short.
CONSTANTS
    Chunks = {c1, c2, c3}
    Replicas = {r1, r2}
    NoReplica = NoReplica
    MaxRetries = 3
    MaxInterrupts = 1
SPECIFICATION Spec
SYMMETRY Symmetry
INVARIANTS
    SingleCustody
    NoChunkLost
PROPERTIES
    LiveLeaseKept
    ImplementsTaskPool
CHECK_DEADLOCK FALSE
