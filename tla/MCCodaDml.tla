------------------------------ MODULE MCCodaDml ------------------------------
(* CodaDml on small instances; the bounds are given in the .cfg files.     *)
EXTENDS CodaDml, TLC

Served(kind, rows) == [kind |-> kind, rows |-> rows, mentions |-> FALSE, supported |-> TRUE]

\* No row, part of a chunk, and two chunks of which the second is not full; a
\* statement whose text mentions a transaction; one the table cannot serve.
SomeStatements ==
    {Served("insert", n) : n \in {0, 3}} \cup {Served("update", n) : n \in {1, 3}}
    \cup {Served("delete", 3),
          [Served("insert", 1) EXCEPT !.mentions = TRUE],
          [Served("update", 1) EXCEPT !.supported = FALSE]}

\* Connections are interchangeable, and no liveness property is checked.
ConnectionSymmetry == Permutations(Connections)
=============================================================================
