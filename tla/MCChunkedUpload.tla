--------------------------- MODULE MCChunkedUpload --------------------------
(* Model-checking instance of ChunkedUpload: one content of three outer       *)
(* chunks and one of a single chunk.                                          *)
EXTENDS ChunkedUpload, TLC

CONSTANTS long, short

MCLength == long :> 3 @@ short :> 1
Symmetry == Permutations(Uploaders)
=============================================================================
