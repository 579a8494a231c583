--------------------------- MODULE MCChunkSlices ---------------------------
(* Instances of ChunkSlices for TLC. *)
EXTENDS ChunkSlices, TLC

Processes == Permutations(Compactors) \cup Permutations(Collectors)
=============================================================================
