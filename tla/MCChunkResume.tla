----------------------------- MODULE MCChunkResume -----------------------------
(***************************************************************************)
(* Instances of ChunkResume for TLC.                                       *)
(***************************************************************************)
EXTENDS ChunkResume

EvenSizes == {2, 4}
OneSize == {4}
===============================================================================
