--------------------------- MODULE MCCodaBuffers ---------------------------
(* CodaBuffers on small chunks; the bounds are given in the .cfg file.     *)
EXTENDS CodaBuffers
=============================================================================
