-------------------------- MODULE MCCodaStatement --------------------------
(* CodaStatement on small tables; the bounds are given in the .cfg files.  *)
EXTENDS CodaStatement

AlwaysOffered == {TRUE}
AllKinds      == {"update", "delete", "insert"}
=============================================================================
