-------------------------- MODULE MCCodaOwnership --------------------------
(* CodaOwnership with two queries; the bounds are given in the .cfg file.  *)
EXTENDS CodaOwnership
=============================================================================
