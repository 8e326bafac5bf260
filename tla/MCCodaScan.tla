----------------------------- MODULE MCCodaScan -----------------------------
(* CodaScan on small instances; the bounds are given in the .cfg files.    *)
EXTENDS CodaScan

\* Responses that always carry a sync token, and responses that may.
AlwaysOffered    == {TRUE}
SometimesOffered == {TRUE, FALSE}
=============================================================================
