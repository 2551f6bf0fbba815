------------------------------ MODULE MCBatchJob ------------------------------
(* Small instances of BatchJob for TLC.                                     *)
EXTENDS BatchJob

\* Chunk, replica and task ids are compared for equality only.
Symmetry == Permutations(Chunks) \cup Permutations(Replicas) \cup Permutations(Assemblies)
===============================================================================
