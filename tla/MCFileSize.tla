---------------------------- MODULE MCFileSize ----------------------------
(* Instances of FileSize with two chunks.                                  *)
EXTENDS FileSize, TLC

TwoWrites == {<<0, 2>>, <<2, 3>>}
AnyTask == Permutations(Tasks)
=============================================================================
