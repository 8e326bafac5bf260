------------------------------- MODULE CodaDml -------------------------------
(***************************************************************************)
(* INSERT, UPDATE and DELETE on an attached Coda table, and the transaction*)
(* manager around them: planning (rust_bridge_catalog.cpp), the sinks      *)
(* (rust_bridge_dml.cpp), the transaction manager, and the requests that   *)
(* mutation.rs sends.                                                      *)
(*                                                                         *)
(* DuckDB and the Coda API are outside the repository.  Of DuckDB the model*)
(* has what the code relies on: BEGIN turns autocommit off and the end of  *)
(* the transaction turns it on again; a statement that binds a table of an *)
(* attached database starts that database's transaction; a prepared        *)
(* statement is planned once and executed later; one statement at a time   *)
(* runs on a connection; after it the transaction is committed or, if an   *)
(* exception came up, rolled back.  A request is accepted and answered,    *)
(* accepted and its answer lost, or refused.                               *)
(*                                                                         *)
(* The rows of a statement are numbered in the order in which they reach   *)
(* the sink.  What a row holds does not matter here.                       *)
(***************************************************************************)
EXTENDS Naturals

CONSTANTS
    Connections,    \* DuckDB connections that use the attached doc
    Statements,     \* the statements users give: a bound
    VectorSize      \* most rows in a chunk given to Sink: STANDARD_VECTOR_SIZE

\* mentions: does the query text contain "begin", "commit" or "rollback"?
\* supported: has the table the capability, and is there no RETURNING?
Statement == [kind : {"insert", "update", "delete"}, rows : Nat,
              mentions : BOOLEAN, supported : BOOLEAN]

ASSUME DmlAssumption == Statements \subseteq Statement /\ VectorSize \in Nat \ {0}

NoStatement == [kind |-> "insert", rows |-> 0, mentions |-> FALSE, supported |-> TRUE]

VARIABLES
    autocommit,     \* connections with context.transaction.IsAutoCommit()
    transactions,   \* connections with an entry in the manager's transactions map
    has_writes,     \* those whose RustBridgeTransaction::has_writes is set
    stmt,           \* the connection's statement
    phase,          \* how far it has come
    next_row,       \* rows whose requests have been answered
    chunk_start,    \* the chunk in Sink holds the rows chunk_start + 1 .. chunk_end
    chunk_end,
    affected_count, \* RustBridgeDMLGlobalState::affected_count
    accepted,       \* history: rows of the statement that Coda accepted
    result,         \* what the user was told of the last statement
    reported        \* the count the user was told

transaction == <<autocommit, transactions, has_writes>>
progress    == <<next_row, chunk_start, chunk_end, affected_count, accepted>>
outcome     == <<result, reported>>
vars        == <<transaction, stmt, phase, progress, outcome>>

Phases  == {"idle", "planned", "sinking", "sending", "failed"}
Results == {"none", "ok", "error", "explicit", "unsupported", "irrevocable"}
Zero    == [c \in Connections |-> 0]

Init ==
    /\ autocommit = Connections
    /\ transactions = {}
    /\ has_writes = {}
    /\ stmt = [c \in Connections |-> NoStatement]
    /\ phase = [c \in Connections |-> "idle"]
    /\ next_row = Zero /\ chunk_start = Zero /\ chunk_end = Zero
    /\ affected_count = Zero /\ accepted = Zero /\ reported = Zero
    /\ result = [c \in Connections |-> "none"]
-----------------------------------------------------------------------------
(* BEGIN, and COMMIT or ROLLBACK (external).  No statement runs meanwhile. *)
Begin(c) ==
    /\ phase[c] \in {"idle", "planned"}
    /\ c \in autocommit
    /\ autocommit' = autocommit \ {c}
    /\ UNCHANGED <<transactions, has_writes, stmt, phase, progress, outcome>>

End(c) ==
    /\ phase[c] \in {"idle", "planned"}
    /\ c \notin autocommit
    /\ autocommit' = autocommit \cup {c}
    /\ UNCHANGED <<transactions, has_writes, stmt, phase, progress, outcome>>
-----------------------------------------------------------------------------
(* Planning and starting a statement.                                      *)

\* Mutant form: the query text is searched, the autocommit flag is not read.
RejectExplicitTransaction_Text(c, mentions) == mentions

\* The function of this name in rust_bridge_catalog.cpp, called for a plan, and in
\* rust_bridge_dml.cpp, called for every chunk.
RejectExplicitTransaction(c, mentions) == c \notin autocommit \/ mentions

\* StartTransaction refuses an explicit transaction, else adds an entry.
StartTransaction(c) ==
    /\ c \in autocommit
    /\ transactions' = transactions \cup {c}
    /\ UNCHANGED <<autocommit, has_writes>>

\* What planning refuses: an explicit transaction, as StartTransaction or the
\* planner sees it, and a table or a RETURNING clause that cannot be served.
Refused(c, s) == c \notin autocommit \/ RejectExplicitTransaction(c, s.mentions) \/ ~s.supported

\* The sink's global state is new, nothing has been sent.
Starting(c) ==
    /\ phase' = [phase EXCEPT ![c] = "sinking"]
    /\ next_row' = [next_row EXCEPT ![c] = 0]
    /\ chunk_start' = [chunk_start EXCEPT ![c] = 0]
    /\ chunk_end' = [chunk_end EXCEPT ![c] = 0]
    /\ affected_count' = [affected_count EXCEPT ![c] = 0]
    /\ accepted' = [accepted EXCEPT ![c] = 0]
    /\ result' = [result EXCEPT ![c] = "none"]
    /\ reported' = [reported EXCEPT ![c] = 0]

\* A statement that is planned and run at once, in its own transaction.
PlanAndRun(c, s) ==
    /\ phase[c] = "idle"
    /\ ~Refused(c, s)
    /\ stmt' = [stmt EXCEPT ![c] = s]
    /\ StartTransaction(c)
    /\ Starting(c)

\* PREPARE: the transaction that planned it is committed, the plan is kept.
Prepare(c, s) ==
    /\ phase[c] = "idle"
    /\ ~Refused(c, s)
    /\ stmt' = [stmt EXCEPT ![c] = s]
    /\ phase' = [phase EXCEPT ![c] = "planned"]
    /\ result' = [result EXCEPT ![c] = "none"]
    /\ UNCHANGED <<transaction, progress, reported>>

\* The user is told why; a transaction already started is rolled back unwritten.
Refuse(c, s) ==
    /\ phase[c] = "idle"
    /\ Refused(c, s)
    /\ result' = [result EXCEPT ![c] =
           IF c \notin autocommit \/ RejectExplicitTransaction(c, s.mentions)
           THEN "explicit" ELSE "unsupported"]
    /\ reported' = [reported EXCEPT ![c] = 0]
    /\ stmt' = [stmt EXCEPT ![c] = s]
    /\ UNCHANGED <<transaction, phase, progress>>

\* EXECUTE of a prepared statement, under its own query text.  DuckDB starts the
\* transaction before it runs the plan, or only when MarkRemoteWrite asks for it.
Execute(c, mentions) ==
    /\ phase[c] = "planned"
    /\ StartTransaction(c) \/ UNCHANGED transaction
    /\ stmt' = [stmt EXCEPT ![c].mentions = mentions]
    /\ Starting(c)
-----------------------------------------------------------------------------
(* The sink.                                                               *)

Smaller(m, n) == IF m <= n THEN m ELSE n

\* Mutant form: the write is recorded before it is made.
MarkedBeforeCall_Early(c) == has_writes \cup {c}

\* What Sink has recorded of a chunk when it calls the client: nothing yet.
MarkedBeforeCall(c) == has_writes

\* Sink takes the next chunk.  The capability it tests next is the table's, which
\* planning has tested and which does not change.
Sink(c) ==
    /\ phase[c] = "sinking"
    /\ next_row[c] < stmt[c].rows
    /\ ~RejectExplicitTransaction(c, stmt[c].mentions)
    /\ phase' = [phase EXCEPT ![c] = "sending"]
    /\ chunk_start' = [chunk_start EXCEPT ![c] = next_row[c]]
    /\ chunk_end' = [chunk_end EXCEPT ![c] = Smaller(next_row[c] + VectorSize, stmt[c].rows)]
    /\ has_writes' = MarkedBeforeCall(c)
    /\ UNCHANGED <<autocommit, transactions, stmt, next_row, affected_count, accepted, outcome>>

\* Sink refuses the chunk; or the plan below the sink raises an error of its own
\* (a failed page of the scan, an expression, an interrupt).
SinkFails(c) ==
    /\ phase[c] = "sinking"
    /\ phase' = [phase EXCEPT ![c] = "failed"]
    /\ UNCHANGED <<transaction, stmt, progress, outcome>>

\* The last row of the next request: update_rows sends a request for each row,
\* insert_rows and delete_rows send one for the whole chunk.
RequestEnd(c) == IF stmt[c].kind = "update" THEN next_row[c] + 1 ELSE chunk_end[c]

\* A request is accepted and answered, and the chunk needs another one.
NextRequest(c) ==
    /\ phase[c] = "sending"
    /\ RequestEnd(c) < chunk_end[c]
    /\ next_row' = [next_row EXCEPT ![c] = RequestEnd(c)]
    /\ accepted' = [accepted EXCEPT ![c] = RequestEnd(c)]
    /\ UNCHANGED <<transaction, stmt, phase, chunk_start, chunk_end, affected_count, outcome>>

\* Mutant form: the transaction never hears of the write.
MarkWrite_Forgotten(c) == has_writes

MarkWrite(c) == has_writes \cup {c}

\* Mutant form: the chunk's count replaces the count so far.
AddAffected_Assign(c, n) == n

AddAffected(c, n) == affected_count[c] + n

\* The chunk's last request is accepted and answered: the client returns the
\* chunk's row count, MarkRemoteWrite marks the transaction (Transaction::Get
\* starts it if nothing has), and the count is added.
ChunkDone(c) ==
    /\ phase[c] = "sending"
    /\ RequestEnd(c) = chunk_end[c]
    /\ next_row' = [next_row EXCEPT ![c] = chunk_end[c]]
    /\ accepted' = [accepted EXCEPT ![c] = chunk_end[c]]
    /\ transactions' = transactions \cup {c}
    /\ has_writes' = MarkWrite(c)
    /\ affected_count' = [affected_count EXCEPT ![c] =
           AddAffected(c, chunk_end[c] - chunk_start[c])]
    /\ phase' = [phase EXCEPT ![c] = "sinking"]
    /\ UNCHANGED <<autocommit, stmt, chunk_start, chunk_end, outcome>>

\* A request is refused, or accepted and its answer lost.  The client throws:
\* nothing is marked or counted for the chunk, the rest of it is not sent.
RequestFails(c, lost) ==
    /\ phase[c] = "sending"
    /\ accepted' = IF lost THEN [accepted EXCEPT ![c] = RequestEnd(c)] ELSE accepted
    /\ phase' = [phase EXCEPT ![c] = "failed"]
    /\ UNCHANGED <<transaction, stmt, next_row, chunk_start, chunk_end, affected_count, outcome>>
-----------------------------------------------------------------------------
(* The end of a statement.                                                 *)

\* All chunks are done: GetData reports the count, the transaction is committed.
Finish(c) ==
    /\ phase[c] = "sinking"
    /\ next_row[c] = stmt[c].rows
    /\ phase' = [phase EXCEPT ![c] = "idle"]
    /\ result' = [result EXCEPT ![c] = "ok"]
    /\ reported' = [reported EXCEPT ![c] = affected_count[c]]
    /\ transactions' = transactions \ {c}
    /\ has_writes' = has_writes \ {c}
    /\ UNCHANGED <<autocommit, stmt, progress>>

\* Mutant form: the catch branch of RollbackTransaction rethrows at once.
Erased_OnSuccess(c) == IF c \in has_writes THEN {} ELSE {c}

\* The map entries RollbackTransaction erases, whether or not Rollback throws.
Erased(c) == {c}

\* RollbackTransaction: a transaction marked as written cannot be rolled back, and
\* that error is raised; any other is rolled back without a word.  Without a
\* transaction (a prepared statement that failed before its first mark) there is
\* nothing to roll back.
Rollback(c) ==
    /\ phase[c] = "failed"
    /\ phase' = [phase EXCEPT ![c] = "idle"]
    /\ result' = [result EXCEPT ![c] =
           IF c \in transactions /\ c \in has_writes THEN "irrevocable" ELSE "error"]
    /\ transactions' = transactions \ Erased(c)
    /\ has_writes' = has_writes \ Erased(c)
    /\ UNCHANGED <<autocommit, stmt, progress, reported>>
-----------------------------------------------------------------------------
Next ==
    \E c \in Connections :
        \/ Begin(c)
        \/ End(c)
        \/ \E s \in Statements : PlanAndRun(c, s) \/ Prepare(c, s) \/ Refuse(c, s)
        \/ \E mentions \in BOOLEAN : Execute(c, mentions)
        \/ Sink(c)
        \/ SinkFails(c)
        \/ NextRequest(c)
        \/ ChunkDone(c)
        \/ \E lost \in BOOLEAN : RequestFails(c, lost)
        \/ Finish(c)
        \/ Rollback(c)

Spec == Init /\ [][Next]_vars
-----------------------------------------------------------------------------
(* Properties.                                                             *)

TypeOK ==
    /\ autocommit \subseteq Connections
    /\ transactions \subseteq Connections
    /\ has_writes \subseteq transactions
    /\ stmt \in [Connections -> Statement]
    /\ phase \in [Connections -> Phases]
    /\ next_row \in [Connections -> Nat]
    /\ chunk_start \in [Connections -> Nat]
    /\ chunk_end \in [Connections -> Nat]
    /\ affected_count \in [Connections -> Nat]
    /\ accepted \in [Connections -> Nat]
    /\ result \in [Connections -> Results]
    /\ reported \in [Connections -> Nat]

\* Nothing is written to Coda while its connection is in an explicit transaction,
\* not even by a statement that was prepared before BEGIN and executed after it,
\* or whose transaction DuckDB has not started yet.
NoWriteInExplicitTransaction ==
    [][\A c \in Connections : accepted'[c] > accepted[c] => c \in autocommit]_vars

\* A statement that succeeds reports the number of its rows, and Coda accepted
\* every one of them, over any number of chunks and requests.
SuccessMeansAll ==
    \A c \in Connections : result[c] = "ok" =>
        reported[c] = stmt[c].rows /\ accepted[c] = stmt[c].rows

\* A failed statement that is rolled back without a word has left at most the rows
\* of one chunk in Coda: has_writes is set as soon as a chunk is through.
QuietRollbackLeavesOneChunk ==
    \A c \in Connections : result[c] = "error" => accepted[c] <= VectorSize

\* Between statements the transaction manager holds no entry for the connection:
\* neither a commit, nor a quiet rollback, nor one that throws leaves one behind.
NoTransactionLeft ==
    \A c \in Connections : phase[c] \in {"idle", "planned"} => c \notin transactions

\* A statement as its user sees it: planning, chunks and requests are gone.
status == [c \in Connections |->
              CASE phase[c] \in {"idle", "planned"} -> "rest"
                [] phase[c] \in {"sinking", "sending"} -> "running"
                [] phase[c] = "failed" -> "broken"]

Report == INSTANCE WriteReport WITH
    Connections <- Connections, Batch <- VectorSize,
    status <- status, explicit <- Connections \ autocommit,
    rows <- [c \in Connections |-> stmt[c].rows],
    written <- accepted, told <- result, counted <- reported

\* Planner, sinks, requests and transaction manager together keep the promise that
\* WriteReport states without any of them: nothing is written after a failure or
\* inside an explicit transaction, and what the user is told of the writes that
\* remain is true.
ImplementsWriteReport == Report!Spec

\* What the message and the README say of rollback: that it does not happen once
\* writes have been sent.  A rollback that raises no error then means no write.
QuietRollbackMeansNoWrite ==
    \A c \in Connections : result[c] = "error" => accepted[c] = 0

\* What the message says of a refused statement: that it was part of an explicit
\* transaction, and that an autocommit statement would be served.
OnlyExplicitIsRefused ==
    [][\A c \in Connections :
           result[c] # "explicit" /\ result'[c] = "explicit" => c \notin autocommit]_vars
=============================================================================
