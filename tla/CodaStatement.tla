---------------------------- MODULE CodaStatement ----------------------------
(***************************************************************************)
(* A statement that writes the table it reads: UPDATE t SET .., DELETE     *)
(* FROM t and INSERT INTO t SELECT .. FROM t.  The plan has no operator    *)
(* that collects rows first: each vector of the scan (CodaScan) goes       *)
(* through the sink (src/cpp/storage/rust_bridge_dml.cpp) before DuckDB    *)
(* asks the scan for the next one, so later pages and the sync check are   *)
(* read from a table that the statement has begun to change.               *)
(*                                                                         *)
(* Coda accepts a write and applies it at some later moment (external).    *)
(* The statement has no condition that its own writes could make false;    *)
(* one that has, meets fewer rows.                                         *)
(***************************************************************************)
EXTENDS CodaScan

CONSTANTS
    Kinds,          \* the statements: among "update", "delete", "insert"
    MaxEdits        \* changes other users make meanwhile: a bound

ASSUME StatementAssumption == Kinds \subseteq {"update", "delete", "insert"} /\ MaxEdits \in Nat

VARIABLES
    kind,           \* what the statement does with each row
    sent,           \* rows of the scan's output whose writes Coda accepted
    pending,        \* server: writes for each row accepted and not yet applied
    edits,          \* history: changes by other users
    touched         \* history: the rows they changed

statementVars == <<kind, sent, pending, edits, touched>>
allVars       == <<vars, statementVars>>

StatementTypeOK ==
    /\ TypeOK
    /\ kind \in Kinds
    /\ sent \in 0..Len(out)
    /\ pending \in [Rows -> Nat]
    /\ edits \in 0..MaxEdits
    /\ touched \subseteq Rows

\* The rows the statement found when it began.
Began == {v.id : v \in {w \in exposed : w.stamp = 0}}

StatementInit ==
    /\ Init
    /\ kind \in Kinds
    /\ sent = 0
    /\ pending = [r \in Rows |-> 0]
    /\ edits = 0
    /\ touched = {}
-----------------------------------------------------------------------------
(* The table, between two pages.                                           *)

Edit(r, alive) ==
    /\ edits < MaxEdits
    /\ Change(r, alive)
    /\ edits' = edits + 1
    /\ touched' = touched \cup {r}
    /\ UNCHANGED <<kind, sent, pending>>

\* The row a write for row r changes: itself, or a new one anywhere in the table.
Target(r) == IF kind = "insert" THEN {n \in Rows : ~live[n] /\ stamp[n] = 0}
             ELSE {r} \cap {n \in Rows : live[n]}

\* An accepted write takes effect, or finds its row gone.
Apply(r) ==
    /\ pending[r] > 0
    /\ pending' = [pending EXCEPT ![r] = @ - 1]
    /\ \/ \E n \in Target(r) : Change(n, kind # "delete")
       \/ Target(r) = {} /\ kind # "insert" /\ UNCHANGED vars
    /\ UNCHANGED <<kind, sent, edits, touched>>
-----------------------------------------------------------------------------
(* The pipeline.                                                           *)

\* The sink has taken every row of the vectors returned so far.
SinkDone == sent = Len(out)

\* DuckDB asks the source for a vector, and its own steps fill it.
Source ==
    /\ phase = "idle" => SinkDone
    /\ Scan
    /\ UNCHANGED statementVars

\* update_rows sends a request for each row, insert_rows and delete_rows one for
\* the vector; a vector without rows is not sent.
RequestRows == IF kind = "update" THEN {sent + 1} ELSE (sent + 1)..Len(out)

\* Sink: the next request for the vector the scan returned.
Write ==
    /\ phase = "idle"
    /\ ~SinkDone
    /\ pending' = [r \in Rows |->
           pending[r] + Cardinality({i \in RequestRows : out[i].id = r})]
    /\ sent' = sent + Cardinality(RequestRows)
    /\ UNCHANGED <<vars, kind, edits, touched>>

\* A page or a write fails: the statement is over, what was accepted stays.
StatementFails ==
    /\ Fail \/ Close
    /\ UNCHANGED statementVars

StatementOver == Over /\ UNCHANGED statementVars

StatementNext ==
    \/ \E r \in Rows, alive \in BOOLEAN : Edit(r, alive)
    \/ \E r \in Rows : Apply(r)
    \/ Source
    \/ Write
    \/ StatementFails
    \/ StatementOver

StatementSpec == StatementInit /\ [][StatementNext]_allVars

\* DuckDB runs the pipeline while it can; Coda answers but need never apply a write.
FairStatement == StatementSpec /\ WF_allVars(Source \/ Write)
-----------------------------------------------------------------------------
(* Properties.                                                             *)

\* The rows the statement has written.
Written == {out[i].id : i \in 1..sent}

\* DELETE writes a row twice, and so counts it twice, only if another user edited
\* it: a row deleted by the statement is not returned by the sync check.
DeletesOnce ==
    kind = "delete" =>
        \A i, j \in 1..sent : i < j /\ out[i].id = out[j].id => out[i].id \in touched

\* A statement that fits in less than one vector, on a table nobody else edits,
\* never reads what it wrote: the scan makes even its sync check before the sink
\* gets the first row.  With a full vector this does not hold.
NeverReadsOwnWrites ==
    edits = 0 /\ Cardinality(Began) < VectorSize => \A i \in DOMAIN out : out[i].stamp = 0

\* When the statement ends normally, it has written every row that was there when
\* it began and that nobody else changed, its own writes notwithstanding, or as many
\* as its pushed limit asked for.
EveryRowIsWritten == phase = "done" => Began \ touched \subseteq Written \/ LimitReached

\* An UPDATE or DELETE ends, though every page it asks for, and the sync check,
\* may show what it has written.  (What an INSERT adds to its own listing only
\* the table's bound stops here.)
StatementEnds == kind # "insert" => <>(phase \in Ended)
=============================================================================
