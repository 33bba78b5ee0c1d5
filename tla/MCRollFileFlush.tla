--------------------------- MODULE MCRollFileFlush ---------------------------
(* Constants for model checking RollFileFlush: batches to be read against a  *)
(* limit of 2 bytes, the longest above it.                                   *)
EXTENDS RollFileFlush

OneOrOversize == {1, 3}
=============================================================================
