--------------------------- MODULE MCChunkDownload ---------------------------
(***************************************************************************)
(* Instances of ChunkDownload for TLC.                                     *)
(***************************************************************************)
EXTENDS ChunkDownload

CONSTANTS w1, w2

TwoWorkers == {w1, w2}
AllMayFail == Operations
NoneMayFail == {}
=============================================================================
