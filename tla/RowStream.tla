----------------------------- MODULE RowStream -----------------------------
(***************************************************************************)
(* What a scan of an attached Coda table promises to the query above it,   *)
(* without pages, tokens, batches or vectors.                              *)
(*                                                                         *)
(* Other users keep editing the doc while the scan runs, and Coda offers   *)
(* no snapshot, so the promise is weaker than a consistent read:           *)
(*   - every row delivered is a version of a row that the table really     *)
(*     held at some moment of the scan;                                    *)
(*   - a scan that ends normally has delivered every row that was in the   *)
(*     table during the whole scan, or as many rows as the query's pushed  *)
(*     limit asked for.                                                    *)
(* A scan may also stop early: a failed request, or a query that closes it.*)
(***************************************************************************)
EXTENDS Naturals, Sequences

CONSTANTS
    Rows,           \* the rows a table can hold
    PushedLimit     \* the limit the query pushed into the scan, 0 for none

VARIABLES
    exposed,    \* every version of a row that was in the table since the scan opened
    stable,     \* the rows that were in the table during the whole scan so far
    out,        \* the versions delivered, in order
    outcome     \* "open", "done" (ended normally) or "stopped"

vars == <<exposed, stable, out, outcome>>

Version == [id : Rows, stamp : Nat]

Delivered == {out[i].id : i \in DOMAIN out}

Init ==
    /\ exposed \in SUBSET [id : Rows, stamp : {0}]
    /\ stable = {v.id : v \in exposed}
    /\ out = <<>>
    /\ outcome = "open"

\* Somebody inserts a row or changes its cells.
Edit ==
    /\ \E v \in exposed' : v \in Version /\ exposed' = exposed \cup {v}
    /\ UNCHANGED <<stable, out, outcome>>

\* Somebody deletes a row.
Remove(r) ==
    /\ stable' = stable \ {r}
    /\ UNCHANGED <<exposed, out, outcome>>

Deliver(v) ==
    /\ outcome = "open"
    /\ out' = Append(out, v)
    /\ UNCHANGED <<exposed, stable, outcome>>

Finish ==
    /\ outcome = "open"
    /\ stable \subseteq Delivered \/ (PushedLimit > 0 /\ Len(out) >= PushedLimit)
    /\ outcome' = "done"
    /\ UNCHANGED <<exposed, stable, out>>

Stop ==
    /\ outcome = "open"
    /\ outcome' = "stopped"
    /\ UNCHANGED <<exposed, stable, out>>

Next ==
    \/ Edit
    \/ \E r \in Rows : Remove(r)
    \/ \E v \in exposed : Deliver(v)
    \/ Finish
    \/ Stop

Spec == Init /\ [][Next]_vars
=============================================================================
