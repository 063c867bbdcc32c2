--------------------------- MODULE MCPropertyChunks ---------------------------
(***************************************************************************)
(* A small instance of PropertyChunks.  Chunk size 26 leaves 4 bytes for   *)
(* header and body: with a header of 3 bytes packet 1 carries one byte,    *)
(* with one of 5 bytes it carries none, and a body of 6 bytes takes 3      *)
(* packets.                                                                *)
(***************************************************************************)
EXTENDS PropertyChunks, TLC

Symmetry == Permutations(Transfers)
=============================================================================
