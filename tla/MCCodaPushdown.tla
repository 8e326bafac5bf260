-------------------------- MODULE MCCodaPushdown --------------------------
(* CodaPushdown on a small table; the bounds are given in the .cfg files.   *)
EXTENDS CodaPushdown
=============================================================================
