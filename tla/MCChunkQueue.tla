----------------------------- MODULE MCChunkQueue -----------------------------
(* Small instances of ChunkQueue for TLC.                                   *)
EXTENDS ChunkQueue

\* Chunk and replica ids are compared for equality only, so permuting either
\* changes no safety property.
Symmetry == Permutations(Chunks) \cup Permutations(Replicas)
===============================================================================
