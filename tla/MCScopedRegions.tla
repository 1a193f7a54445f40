--------------------------- MODULE MCScopedRegions --------------------------
(* ScopedRegions on a few chunks; chunks are interchangeable. *)
EXTENDS ScopedRegions, TLC

ChunkSymmetry == Permutations(Chunk)
=============================================================================
