---------------------------- MODULE WriteReport ----------------------------
(***************************************************************************)
(* What INSERT, UPDATE and DELETE on an attached Coda table promise to the *)
(* user of a connection, without plans, chunks, requests and the           *)
(* transaction manager.                                                    *)
(*                                                                         *)
(* Coda cannot take a write back, and an answer may be lost, so the promise*)
(* is weaker than a transaction's:                                         *)
(*   - rows are written only by a running statement and only outside an    *)
(*     explicit transaction, a batch at a time, and none after a failure;  *)
(*   - success means that all rows are written, and counted;               *)
(*   - a failure that does not say that writes remain leaves a batch at    *)
(*     most; one that says so tells the truth.                             *)
(***************************************************************************)
EXTENDS Naturals

CONSTANTS
    Connections,
    Batch           \* most rows that are written at a time

VARIABLES
    status,         \* "rest", "running", or "broken" when a statement has failed
    explicit,       \* the connections inside an explicit transaction
    rows,           \* the rows of each connection's statement
    written,        \* how many of them are in Coda
    told,           \* what the user was told of the statement
    counted         \* the count the user was told

vars == <<status, explicit, rows, written, told, counted>>

Init ==
    /\ status = [c \in Connections |-> "rest"]
    /\ explicit = {}
    /\ rows = [c \in Connections |-> 0]
    /\ written = [c \in Connections |-> 0]
    /\ told = [c \in Connections |-> "none"]
    /\ counted = [c \in Connections |-> 0]

\* A variable that changes for one connection at most.
Only(c, old, new) == \A d \in Connections \ {c} : new[d] = old[d]

\* BEGIN, or the end of an explicit transaction.
Switch(c) ==
    /\ status[c] = "rest"
    /\ \/ explicit' = explicit \cup {c}
       \/ explicit' = explicit \ {c}
    /\ UNCHANGED <<status, rows, written, told, counted>>

\* A statement is prepared, or it is refused and the user is told why.
Answer(c) ==
    /\ status[c] = "rest"
    /\ Only(c, rows, rows')
    /\ told' \in {[told EXCEPT ![c] = t] : t \in {"none", "explicit", "unsupported"}}
    /\ counted' \in {counted, [counted EXCEPT ![c] = 0]}
    /\ UNCHANGED <<status, explicit, written>>

Start(c) ==
    /\ status[c] = "rest"
    /\ status' = [status EXCEPT ![c] = "running"]
    /\ Only(c, rows, rows')
    /\ written' = [written EXCEPT ![c] = 0]
    /\ told' = [told EXCEPT ![c] = "none"]
    /\ counted' = [counted EXCEPT ![c] = 0]
    /\ UNCHANGED explicit

\* More rows of the statement are in Coda than before, but not more than it has.
MoreWritten(c) ==
    /\ c \notin explicit
    /\ Only(c, written, written')
    /\ written[c] < written'[c]
    /\ written'[c] <= written[c] + Batch
    /\ written'[c] <= rows[c]

Write(c) ==
    /\ status[c] = "running"
    /\ MoreWritten(c)
    /\ UNCHANGED <<status, explicit, rows, told, counted>>

\* Something fails: perhaps a write whose answer is lost.
Break(c) ==
    /\ status[c] = "running"
    /\ status' = [status EXCEPT ![c] = "broken"]
    /\ MoreWritten(c) \/ UNCHANGED written
    /\ UNCHANGED <<explicit, rows, told, counted>>

Succeed(c) ==
    /\ status[c] = "running"
    /\ written[c] = rows[c]
    /\ status' = [status EXCEPT ![c] = "rest"]
    /\ told' = [told EXCEPT ![c] = "ok"]
    /\ counted' = [counted EXCEPT ![c] = rows[c]]
    /\ UNCHANGED <<explicit, rows, written>>

\* The user is told of an error: that writes remain, if more than a batch does.
Fail(c) ==
    /\ status[c] = "broken"
    /\ status' = [status EXCEPT ![c] = "rest"]
    /\ \/ written[c] <= Batch /\ told' = [told EXCEPT ![c] = "error"]
       \/ written[c] > 0 /\ told' = [told EXCEPT ![c] = "irrevocable"]
    /\ UNCHANGED <<explicit, rows, written, counted>>

Next ==
    \E c \in Connections :
        \/ Switch(c)
        \/ Answer(c)
        \/ Start(c)
        \/ Write(c)
        \/ Break(c)
        \/ Succeed(c)
        \/ Fail(c)

Spec == Init /\ [][Next]_vars
=============================================================================
