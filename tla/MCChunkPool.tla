----------------------------- MODULE MCChunkPool -----------------------------
(* Symmetry for checking ChunkPool with TLC.                                   *)
EXTENDS ChunkPool, TLC

\* Threads are interchangeable.
ThreadSymmetry == Permutations(Threads)
==============================================================================
