---------------------------- MODULE MCCodaAttach ----------------------------
(* CodaLoad and CodaAttach on small instances: docs "a" and "ab", of which  *)
(* the first is a prefix of the second.                                    *)
EXTENDS CodaAttach, TLC

CodaPrefix == <<"coda:">>
DocA       == <<"coda:", "a">>
DocAB      == <<"coda:", "a", "b">>
DocC       == <<"coda:", "c">>

ScopeClauses == {{}, {DocA}, {DocAB, DocC}}
AttachPaths  == {<<"a", "b">>, DocA, CodaPrefix}

\* The names and the tokens are interchangeable.
Symmetry == Permutations(SecretNames) \cup Permutations(Tokens)
=============================================================================
