---------------------------- MODULE CodaDmlProofs ----------------------------
(***************************************************************************)
(* Proofs about CodaDml, for any set of connections, any statements and    *)
(* any vector size: type correctness, what the user is told of a statement,*)
(* no entry left in the transaction manager, and no write in an explicit   *)
(* transaction.                                                            *)
(***************************************************************************)
EXTENDS CodaDml, TLAPS

(* Types.                                                                  *)

\* A chunk in Sink does not end before it starts: its row count is a number.
ChunkOrdered ==
    \A c \in Connections : phase[c] = "sending" => chunk_start[c] <= chunk_end[c]

\* Every variable keeps its type, and only transactions that the manager holds
\* can have has_writes set.
THEOREM TypeCorrect == Spec => []TypeOK
<1> DEFINE Inv == TypeOK /\ ChunkOrdered
<1> USE DmlAssumption
<1>1. Init => Inv
  BY DEF Init, NoStatement, Zero, TypeOK, Phases, Results, Statement, ChunkOrdered
<1>2. Inv /\ [Next]_vars => Inv'
  <2> SUFFICES ASSUME Inv, [Next]_vars
               PROVE  Inv'
    OBVIOUS
  <2> USE DEF TypeOK, Phases, Results, ChunkOrdered
  <2>1. ASSUME NEW c \in Connections, Begin(c) \/ End(c)
        PROVE  Inv'
    BY <2>1 DEF Begin, End, progress, outcome
  <2>2. ASSUME NEW c \in Connections, NEW s \in Statements, PlanAndRun(c, s)
        PROVE  Inv'
    <3>1. s \in Statement
      OBVIOUS
    <3>2. QED
      BY <2>2, <3>1 DEF PlanAndRun, StartTransaction, Starting
  <2>3. ASSUME NEW c \in Connections, NEW s \in Statements, Prepare(c, s)
        PROVE  Inv'
    <3>1. s \in Statement
      OBVIOUS
    <3>2. QED
      BY <2>3, <3>1 DEF Prepare, transaction, progress
  <2>4. ASSUME NEW c \in Connections, NEW s \in Statements, Refuse(c, s)
        PROVE  Inv'
    <3>1. s \in Statement
      OBVIOUS
    <3>2. QED
      BY <2>4, <3>1 DEF Refuse, transaction, progress
  <2>5. ASSUME NEW c \in Connections, NEW m \in BOOLEAN, Execute(c, m)
        PROVE  Inv'
    <3>1. [stmt[c] EXCEPT !.mentions = m] \in Statement
      <4>1. stmt[c] \in Statement
        OBVIOUS
      <4>2. QED
        BY <4>1 DEF Statement
    <3>2. stmt' = [stmt EXCEPT ![c] = [stmt[c] EXCEPT !.mentions = m]]
      BY <2>5 DEF Execute
    <3>3. stmt' \in [Connections -> Statement]
      BY <3>1, <3>2
    <3>4. QED
      BY <2>5, <3>3 DEF Execute, StartTransaction, Starting, transaction
  <2>6. ASSUME NEW c \in Connections, Sink(c)
        PROVE  Inv'
    <3>1. stmt[c].rows \in Nat
      BY DEF Statement
    <3>2. Smaller(next_row[c] + VectorSize, stmt[c].rows) \in Nat
          /\ next_row[c] <= Smaller(next_row[c] + VectorSize, stmt[c].rows)
      BY <2>6, <3>1 DEF Sink, Smaller
    <3>3. QED
      BY <2>6, <3>2 DEF Sink, MarkedBeforeCall, outcome
  <2>7. ASSUME NEW c \in Connections, SinkFails(c)
        PROVE  Inv'
    BY <2>7 DEF SinkFails, transaction, progress, outcome
  <2>8. ASSUME NEW c \in Connections, NextRequest(c)
        PROVE  Inv'
    BY <2>8 DEF NextRequest, RequestEnd, transaction, outcome
  <2>9. ASSUME NEW c \in Connections, ChunkDone(c)
        PROVE  Inv'
    <3>1. chunk_end[c] - chunk_start[c] \in Nat
      BY <2>9 DEF ChunkDone
    <3>2. QED
      BY <2>9, <3>1 DEF ChunkDone, MarkWrite, AddAffected, outcome
  <2>10. ASSUME NEW c \in Connections, NEW lost \in BOOLEAN, RequestFails(c, lost)
        PROVE  Inv'
    BY <2>10 DEF RequestFails, RequestEnd, transaction, outcome
  <2>11. ASSUME NEW c \in Connections, Finish(c)
        PROVE  Inv'
    BY <2>11 DEF Finish, progress
  <2>12. ASSUME NEW c \in Connections, Rollback(c)
        PROVE  Inv'
    BY <2>12 DEF Rollback, Erased, progress
  <2>13. CASE UNCHANGED vars
    BY <2>13 DEF vars, transaction, progress, outcome
  <2>14. QED
    BY <2>1, <2>2, <2>3, <2>4, <2>5, <2>6, <2>7, <2>8, <2>9, <2>10, <2>11, <2>12, <2>13 DEF Next
<1>3. QED
  BY <1>1, <1>2, PTL DEF Spec

-----------------------------------------------------------------------------
(* The inductive invariant: per connection, what a phase says of the       *)
(* counters, of has_writes and of what the user was told.                  *)

\* Between statements there is no transaction, and what was said is true.
AtRest(c) ==
    phase[c] \in {"idle", "planned"} =>
        /\ c \notin transactions
        /\ result[c] = "ok" => reported[c] = stmt[c].rows /\ accepted[c] = stmt[c].rows
        /\ result[c] = "error" => accepted[c] <= VectorSize

\* Between chunks everything answered is accepted and counted.
BetweenChunks(c) ==
    phase[c] = "sinking" =>
        /\ next_row[c] = affected_count[c] /\ accepted[c] = affected_count[c]
        /\ affected_count[c] <= stmt[c].rows

\* Within a chunk the count stands where the chunk began.
WithinChunk(c) ==
    phase[c] = "sending" =>
        /\ c \in autocommit
        /\ chunk_start[c] = affected_count[c]
        /\ affected_count[c] <= next_row[c] /\ next_row[c] < chunk_end[c]
        /\ chunk_end[c] <= stmt[c].rows /\ chunk_end[c] <= affected_count[c] + VectorSize
        /\ accepted[c] = next_row[c]

\* A failed statement has at most one chunk in Coda that it does not count.
Failed(c) ==
    phase[c] = "failed" =>
        affected_count[c] <= accepted[c] /\ accepted[c] <= affected_count[c] + VectorSize

\* While a statement runs, has_writes says whether a chunk is through, and
\* nothing has been said yet.
Running(c) ==
    phase[c] \in {"sinking", "sending", "failed"} =>
        (c \in has_writes <=> affected_count[c] > 0) /\ result[c] = "none"

Told(c) == AtRest(c) /\ BetweenChunks(c) /\ WithinChunk(c) /\ Failed(c) /\ Running(c)

DmlInv == \A c \in Connections : Told(c)

\* A step of one connection does not disturb what holds of another.
LEMMA OthersUndisturbed ==
    ASSUME NEW d \in Connections, Told(d),
           d \in autocommit' <=> d \in autocommit,
           d \in transactions' <=> d \in transactions,
           d \in has_writes' <=> d \in has_writes,
           stmt'[d] = stmt[d], phase'[d] = phase[d], next_row'[d] = next_row[d],
           chunk_start'[d] = chunk_start[d], chunk_end'[d] = chunk_end[d],
           affected_count'[d] = affected_count[d], accepted'[d] = accepted[d],
           result'[d] = result[d], reported'[d] = reported[d]
    PROVE  Told(d)'
BY DEF Told, AtRest, BetweenChunks, WithinChunk, Failed, Running

LEMMA InitDmlInv == Init => DmlInv
BY DmlAssumption DEF Init, Zero, NoStatement, DmlInv, Told, AtRest, BetweenChunks, WithinChunk,
                     Failed, Running

LEMMA NextDmlInv == TypeOK /\ DmlInv /\ [Next]_vars => DmlInv'
<1> SUFFICES ASSUME TypeOK, DmlInv, [Next]_vars, NEW d \in Connections
             PROVE  Told(d)'
  BY DEF DmlInv
<1>0. Told(d)
  BY DEF DmlInv
<1>t. /\ next_row[d] \in Nat /\ chunk_start[d] \in Nat /\ chunk_end[d] \in Nat
      /\ affected_count[d] \in Nat /\ accepted[d] \in Nat /\ stmt[d].rows \in Nat
      /\ VectorSize \in Nat \ {0}
  BY DmlAssumption DEF TypeOK, Statement
<1>1. ASSUME NEW c \in Connections, Begin(c) \/ End(c)
      PROVE  Told(d)'
  BY <1>1, <1>0 DEF Begin, End, progress, outcome, Told, AtRest, BetweenChunks, WithinChunk,
                    Failed, Running
<1>2. ASSUME NEW c \in Connections, NEW s \in Statements, PlanAndRun(c, s)
      PROVE  Told(d)'
  <2>1. CASE d = c
    BY <1>2, <1>0, <1>t, <2>1, DmlAssumption
       DEF TypeOK, Statement, PlanAndRun, StartTransaction, Starting, Told, AtRest, BetweenChunks,
           WithinChunk, Failed, Running
  <2>2. CASE d # c
    BY <1>2, <1>0, <2>2, OthersUndisturbed DEF TypeOK, PlanAndRun, StartTransaction, Starting
  <2>3. QED
    BY <2>1, <2>2
<1>3. ASSUME NEW c \in Connections, NEW s \in Statements, Prepare(c, s) \/ Refuse(c, s)
      PROVE  Told(d)'
  <2>1. CASE d = c
    BY <1>3, <1>0, <2>1
       DEF TypeOK, Prepare, Refuse, transaction, progress, outcome, Told, AtRest, BetweenChunks,
           WithinChunk, Failed, Running
  <2>2. CASE d # c
    BY <1>3, <1>0, <2>2, OthersUndisturbed DEF TypeOK, Prepare, Refuse, transaction, progress
  <2>3. QED
    BY <2>1, <2>2
<1>4. ASSUME NEW c \in Connections, NEW m \in BOOLEAN, Execute(c, m)
      PROVE  Told(d)'
  <2>1. CASE d = c
    <3>1. stmt'[c].rows = stmt[c].rows
      BY <1>4 DEF Execute, TypeOK, Statement
    <3>2. QED
      BY <1>4, <1>0, <1>t, <2>1, <3>1
         DEF TypeOK, Execute, StartTransaction, Starting, transaction, Told, AtRest,
             BetweenChunks, WithinChunk, Failed, Running
  <2>2. CASE d # c
    BY <1>4, <1>0, <2>2, OthersUndisturbed
       DEF TypeOK, Execute, StartTransaction, Starting, transaction
  <2>3. QED
    BY <2>1, <2>2
<1>5. ASSUME NEW c \in Connections, Sink(c)
      PROVE  Told(d)'
  <2>1. CASE d = c
    BY <1>5, <1>0, <1>t, <2>1
       DEF TypeOK, Sink, RejectExplicitTransaction, MarkedBeforeCall, Smaller, outcome, Told,
           AtRest, BetweenChunks, WithinChunk, Failed, Running
  <2>2. CASE d # c
    BY <1>5, <1>0, <2>2, OthersUndisturbed DEF TypeOK, Sink, MarkedBeforeCall, outcome
  <2>3. QED
    BY <2>1, <2>2
<1>6. ASSUME NEW c \in Connections, SinkFails(c)
      PROVE  Told(d)'
  <2>1. CASE d = c
    BY <1>6, <1>0, <1>t, <2>1
       DEF TypeOK, SinkFails, transaction, progress, outcome, Told, AtRest, BetweenChunks,
           WithinChunk, Failed, Running
  <2>2. CASE d # c
    BY <1>6, <1>0, <2>2, OthersUndisturbed DEF TypeOK, SinkFails, transaction, progress, outcome
  <2>3. QED
    BY <2>1, <2>2
<1>7. ASSUME NEW c \in Connections, NextRequest(c)
      PROVE  Told(d)'
  <2>1. CASE d = c
    BY <1>7, <1>0, <1>t, <2>1
       DEF TypeOK, NextRequest, RequestEnd, transaction, outcome, Told, AtRest, BetweenChunks,
           WithinChunk, Failed, Running
  <2>2. CASE d # c
    BY <1>7, <1>0, <2>2, OthersUndisturbed DEF TypeOK, NextRequest, transaction, outcome
  <2>3. QED
    BY <2>1, <2>2
<1>8. ASSUME NEW c \in Connections, ChunkDone(c)
      PROVE  Told(d)'
  <2>1. CASE d = c
    BY <1>8, <1>0, <1>t, <2>1
       DEF TypeOK, ChunkDone, RequestEnd, MarkWrite, AddAffected, outcome, Told, AtRest,
           BetweenChunks, WithinChunk, Failed, Running
  <2>2. CASE d # c
    BY <1>8, <1>0, <2>2, OthersUndisturbed DEF TypeOK, ChunkDone, MarkWrite, AddAffected, outcome
  <2>3. QED
    BY <2>1, <2>2
<1>9. ASSUME NEW c \in Connections, NEW lost \in BOOLEAN, RequestFails(c, lost)
      PROVE  Told(d)'
  <2>1. CASE d = c
    BY <1>9, <1>0, <1>t, <2>1
       DEF TypeOK, RequestFails, RequestEnd, transaction, outcome, Told, AtRest, BetweenChunks,
           WithinChunk, Failed, Running
  <2>2. CASE d # c
    BY <1>9, <1>0, <2>2, OthersUndisturbed DEF TypeOK, RequestFails, transaction, outcome
  <2>3. QED
    BY <2>1, <2>2
<1>10. ASSUME NEW c \in Connections, Finish(c)
       PROVE  Told(d)'
  <2>1. CASE d = c
    BY <1>10, <1>0, <1>t, <2>1
       DEF TypeOK, Finish, progress, Told, AtRest, BetweenChunks, WithinChunk, Failed, Running
  <2>2. CASE d # c
    BY <1>10, <1>0, <2>2, OthersUndisturbed DEF TypeOK, Finish, progress
  <2>3. QED
    BY <2>1, <2>2
<1>11. ASSUME NEW c \in Connections, Rollback(c)
       PROVE  Told(d)'
  <2>1. CASE d = c
    BY <1>11, <1>0, <1>t, <2>1
       DEF TypeOK, Rollback, Erased, progress, Told, AtRest, BetweenChunks, WithinChunk, Failed,
           Running
  <2>2. CASE d # c
    BY <1>11, <1>0, <2>2, OthersUndisturbed DEF TypeOK, Rollback, Erased, progress
  <2>3. QED
    BY <2>1, <2>2
<1>12. CASE UNCHANGED vars
  BY <1>12, <1>0, OthersUndisturbed DEF vars, transaction, progress, outcome
<1>13. QED
  BY <1>1, <1>2, <1>3, <1>4, <1>5, <1>6, <1>7, <1>8, <1>9, <1>10, <1>11, <1>12 DEF Next

\* The invariant holds in every behaviour.
THEOREM DmlInvariant == Spec => []DmlInv
<1>1. QED
  BY TypeCorrect, InitDmlInv, NextDmlInv, PTL DEF Spec

-----------------------------------------------------------------------------
(* What follows from it.                                                   *)

LEMMA InvImplies ==
    TypeOK /\ DmlInv =>
        SuccessMeansAll /\ QuietRollbackLeavesOneChunk /\ NoTransactionLeft
<1> SUFFICES ASSUME TypeOK, DmlInv, NEW c \in Connections
             PROVE  /\ result[c] = "ok" =>
                           reported[c] = stmt[c].rows /\ accepted[c] = stmt[c].rows
                    /\ result[c] = "error" => accepted[c] <= VectorSize
                    /\ phase[c] \in {"idle", "planned"} => c \notin transactions
  BY DEF SuccessMeansAll, QuietRollbackLeavesOneChunk, NoTransactionLeft
<1>1. phase[c] \in Phases /\ Told(c)
  BY DEF TypeOK, DmlInv
<1>2. QED
  BY <1>1 DEF Phases, Told, AtRest, Running

\* A statement that succeeds wrote all its rows and reports them all.
THEOREM SuccessIsComplete == Spec => []SuccessMeansAll
<1>1. QED
  BY TypeCorrect, DmlInvariant, InvImplies, PTL

\* A quiet rollback leaves at most one chunk of writes in Coda.
THEOREM QuietRollbackIsBounded == Spec => []QuietRollbackLeavesOneChunk
<1>1. QED
  BY TypeCorrect, DmlInvariant, InvImplies, PTL

\* The manager's map holds no entry between statements.
THEOREM ManagerIsClean == Spec => []NoTransactionLeft
<1>1. QED
  BY TypeCorrect, DmlInvariant, InvImplies, PTL

\* Coda accepts nothing from a connection that is in an explicit transaction.
THEOREM ExplicitTransactionsWriteNothing == Spec => NoWriteInExplicitTransaction
<1>1. TypeOK /\ DmlInv /\ [Next]_vars =>
          [\A c \in Connections : accepted'[c] > accepted[c] => c \in autocommit]_vars
  <2> SUFFICES ASSUME TypeOK, DmlInv, Next, NEW d \in Connections, accepted'[d] > accepted[d]
               PROVE  d \in autocommit
    OBVIOUS
  <2>0. Told(d) /\ accepted[d] \in Nat
    BY DEF DmlInv, TypeOK
  <2>1. phase[d] = "sending"
    <3>1. PICK c \in Connections :
              \/ Begin(c)
              \/ End(c)
              \/ \E s \in Statements : PlanAndRun(c, s) \/ Prepare(c, s) \/ Refuse(c, s)
              \/ \E mentions \in BOOLEAN : Execute(c, mentions)
              \/ Sink(c)
              \/ SinkFails(c)
              \/ NextRequest(c)
              \/ ChunkDone(c)
              \/ \E lost \in BOOLEAN : RequestFails(c, lost)
              \/ Finish(c)
              \/ Rollback(c)
      BY DEF Next
    <3>2. CASE Begin(c) \/ End(c) \/ Sink(c) \/ SinkFails(c) \/ Finish(c) \/ Rollback(c)
               \/ \E s \in Statements : Prepare(c, s) \/ Refuse(c, s)
      BY <2>0, <3>2 DEF Begin, End, Sink, SinkFails, Finish, Rollback, Prepare, Refuse, progress
    <3>3. CASE \/ \E s \in Statements : PlanAndRun(c, s)
               \/ \E mentions \in BOOLEAN : Execute(c, mentions)
      BY <2>0, <3>3 DEF PlanAndRun, Execute, Starting, TypeOK
    <3>4. CASE NextRequest(c) \/ ChunkDone(c) \/ \E lost \in BOOLEAN : RequestFails(c, lost)
      BY <2>0, <3>4 DEF NextRequest, ChunkDone, RequestFails, TypeOK
    <3>5. QED
      BY <3>1, <3>2, <3>3, <3>4
  <2>2. QED
    BY <2>0, <2>1 DEF Told, WithinChunk
<1>2. QED
  BY <1>1, TypeCorrect, DmlInvariant, PTL DEF Spec, NoWriteInExplicitTransaction

-----------------------------------------------------------------------------
(* Refinement of WriteReport.                                              *)

\* How many rows the connections' statements have.
rowsOf == [c \in Connections |-> stmt[c].rows]

\* A statement that goes from one phase to another, as its user sees it.
LEMMA StatusMoves ==
    ASSUME TypeOK, NEW c \in Connections, NEW p \in Phases, phase' = [phase EXCEPT ![c] = p]
    PROVE  status' = [status EXCEPT ![c] =
               CASE p \in {"idle", "planned"} -> "rest"
                 [] p \in {"sinking", "sending"} -> "running"
                 [] p = "failed" -> "broken"]
BY DEF TypeOK, Phases, status

LEMMA StatusSays ==
    ASSUME TypeOK, NEW c \in Connections
    PROVE  /\ phase[c] \in {"idle", "planned"} => status[c] = "rest"
           /\ phase[c] \in {"sinking", "sending"} => status[c] = "running"
           /\ phase[c] = "failed" => status[c] = "broken"
BY DEF TypeOK, Phases, status

\* Each step of a statement, with its plan, chunks and requests, is one of the steps
\* of WriteReport, or nothing that the user or the doc's other readers could notice.
LEMMA StepReports ==
    ASSUME TypeOK, DmlInv, NEW c \in Connections
    PROVE  /\ Begin(c) \/ End(c) => Report!Switch(c)
           /\ \A s \in Statements : Prepare(c, s) \/ Refuse(c, s) => Report!Answer(c)
           /\ \A s \in Statements : PlanAndRun(c, s) => Report!Start(c)
           /\ \A m \in BOOLEAN : Execute(c, m) => Report!Start(c)
           /\ Sink(c) => UNCHANGED Report!vars
           /\ NextRequest(c) \/ ChunkDone(c) => Report!Write(c)
           /\ SinkFails(c) => Report!Break(c)
           /\ \A lost \in BOOLEAN : RequestFails(c, lost) => Report!Break(c)
           /\ Finish(c) => Report!Succeed(c)
           /\ Rollback(c) => Report!Fail(c)
<1>t. /\ next_row[c] \in Nat /\ chunk_start[c] \in Nat /\ chunk_end[c] \in Nat
      /\ affected_count[c] \in Nat /\ accepted[c] \in Nat /\ stmt[c].rows \in Nat
      /\ VectorSize \in Nat \ {0} /\ phase[c] \in Phases
  BY DmlAssumption DEF TypeOK, Statement
<1>i. Told(c)
  BY DEF DmlInv
<1>s. /\ "idle" \in Phases /\ "planned" \in Phases /\ "sinking" \in Phases
      /\ "sending" \in Phases /\ "failed" \in Phases
  BY DEF Phases
<1>u. phase' = phase => status' = status
  BY DEF status
<1>v. stmt' = stmt => rowsOf' = rowsOf
  BY DEF rowsOf
<1>w. autocommit' = autocommit => (Connections \ autocommit)' = Connections \ autocommit
  OBVIOUS
<1>r. \A d \in Connections : rowsOf[d] = stmt[d].rows /\ (rowsOf')[d] = stmt'[d].rows
  BY DEF rowsOf
<1>1. ASSUME Begin(c) \/ End(c) PROVE Report!Switch(c)
  <2>1. status[c] = "rest" /\ UNCHANGED <<status, rowsOf, accepted, result, reported>>
    BY <1>1, <1>u, <1>v, StatusSays DEF Begin, End, progress, outcome
  <2>2. \/ (Connections \ autocommit)' = (Connections \ autocommit) \cup {c}
        \/ (Connections \ autocommit)' = (Connections \ autocommit) \ {c}
    BY <1>1 DEF Begin, End, TypeOK
  <2>3. QED
    BY <2>1, <2>2 DEF Report!Switch, rowsOf
<1>2. ASSUME NEW s \in Statements, Prepare(c, s) \/ Refuse(c, s) PROVE Report!Answer(c)
  <2>1. status[c] = "rest"
    BY <1>2, StatusSays DEF Prepare, Refuse
  <2>2. status' = status
    <3>1. CASE Prepare(c, s)
      <4>1. status' = [status EXCEPT ![c] = "rest"]
        BY <1>s, <3>1, StatusMoves DEF Prepare
      <4>2. QED
        BY <2>1, <4>1 DEF status
    <3>2. CASE Refuse(c, s)
      BY <1>u, <3>2 DEF Refuse
    <3>3. QED
      BY <1>2, <3>1, <3>2
  <2>3. \A d \in Connections \ {c} : (rowsOf')[d] = rowsOf[d]
    BY <1>2, <1>r DEF Prepare, Refuse, TypeOK
  <2>4. /\ result' \in {[result EXCEPT ![c] = x] : x \in {"none", "explicit", "unsupported"}}
        /\ reported' \in {reported, [reported EXCEPT ![c] = 0]}
        /\ UNCHANGED <<autocommit, accepted>>
    BY <1>2 DEF Prepare, Refuse, transaction, progress
  <2>5. QED
    BY <2>1, <2>2, <2>3, <2>4 DEF Report!Answer, Report!Only, rowsOf
<1>3. ASSUME Starting(c), phase[c] \in {"idle", "planned"}, autocommit' = autocommit,
             \A d \in Connections \ {c} : stmt'[d] = stmt[d]
      PROVE  Report!Start(c)
  <2>1. status[c] = "rest"
    BY <1>3, StatusSays
  <2>2. status' = [status EXCEPT ![c] = "running"]
    BY <1>3, <1>s, StatusMoves DEF Starting
  <2>3. \A d \in Connections \ {c} : (rowsOf')[d] = rowsOf[d]
    BY <1>3, <1>r
  <2>4. QED
    BY <1>3, <2>1, <2>2, <2>3 DEF Starting, Report!Start, Report!Only, rowsOf
<1>4. ASSUME NEW s \in Statements, PlanAndRun(c, s) PROVE Report!Start(c)
  BY <1>3, <1>4 DEF PlanAndRun, StartTransaction, TypeOK
<1>5. ASSUME NEW m \in BOOLEAN, Execute(c, m) PROVE Report!Start(c)
  BY <1>3, <1>5 DEF Execute, StartTransaction, transaction, TypeOK
<1>6. ASSUME Sink(c) PROVE UNCHANGED Report!vars
  <2>1. status' = status
    <3>1. status[c] = "running"
      BY <1>6, StatusSays DEF Sink
    <3>2. status' = [status EXCEPT ![c] = "running"]
      BY <1>6, <1>s, StatusMoves DEF Sink
    <3>3. QED
      BY <3>1, <3>2 DEF status
  <2>2. QED
    BY <1>6, <1>v, <2>1 DEF Sink, outcome, Report!vars, rowsOf
<1>7. ASSUME NextRequest(c) \/ ChunkDone(c) PROVE Report!Write(c)
  <2>1. status[c] = "running" /\ status' = status
    <3>1. status[c] = "running"
      BY <1>7, StatusSays DEF NextRequest, ChunkDone
    <3>2. CASE NextRequest(c)
      BY <1>u, <3>1, <3>2 DEF NextRequest
    <3>3. CASE ChunkDone(c)
      <4>1. status' = [status EXCEPT ![c] = "running"]
        BY <1>s, <3>3, StatusMoves DEF ChunkDone
      <4>2. QED
        BY <3>1, <4>1 DEF status
    <3>4. QED
      BY <1>7, <3>1, <3>2, <3>3
  <2>2. \E k \in Nat : /\ accepted' = [accepted EXCEPT ![c] = k]
                       /\ accepted[c] < k /\ k <= accepted[c] + VectorSize /\ k <= stmt[c].rows
    BY <1>7, <1>i, <1>t DEF NextRequest, ChunkDone, RequestEnd, Told, WithinChunk
  <2>3. c \in autocommit
    BY <1>7, <1>i DEF NextRequest, ChunkDone, Told, WithinChunk
  <2>4. Report!MoreWritten(c)
    BY <1>r, <2>2, <2>3 DEF Report!MoreWritten, Report!Only, TypeOK, rowsOf
  <2>5. UNCHANGED <<autocommit, stmt, result, reported>>
    BY <1>7 DEF NextRequest, ChunkDone, transaction, outcome
  <2>6. QED
    BY <2>1, <2>4, <2>5 DEF Report!Write
<1>8. ASSUME SinkFails(c) PROVE Report!Break(c)
  <2>1. status[c] = "running" /\ status' = [status EXCEPT ![c] = "broken"]
    BY <1>8, <1>s, StatusSays, StatusMoves DEF SinkFails
  <2>2. QED
    BY <1>8, <2>1 DEF SinkFails, transaction, progress, outcome, Report!Break
<1>9. ASSUME NEW lost \in BOOLEAN, RequestFails(c, lost) PROVE Report!Break(c)
  <2>1. status[c] = "running" /\ status' = [status EXCEPT ![c] = "broken"]
    BY <1>9, <1>s, StatusSays, StatusMoves DEF RequestFails
  <2>2. Report!MoreWritten(c) \/ accepted' = accepted
    <3>1. CASE lost
      <4>1. /\ accepted' = [accepted EXCEPT ![c] = RequestEnd(c)]
            /\ accepted[c] < RequestEnd(c) /\ RequestEnd(c) <= accepted[c] + VectorSize
            /\ RequestEnd(c) <= stmt[c].rows /\ c \in autocommit
        BY <1>9, <1>i, <1>t, <3>1 DEF RequestFails, RequestEnd, Told, WithinChunk
      <4>2. QED
        BY <1>r, <4>1 DEF Report!MoreWritten, Report!Only, TypeOK, rowsOf
    <3>2. CASE ~lost
      BY <1>9, <3>2 DEF RequestFails
    <3>3. QED
      BY <3>1, <3>2
  <2>3. UNCHANGED <<autocommit, stmt, result, reported>>
    BY <1>9 DEF RequestFails, transaction, outcome
  <2>4. QED
    BY <2>1, <2>2, <2>3 DEF Report!Break
<1>10. ASSUME Finish(c) PROVE Report!Succeed(c)
  <2>1. status[c] = "running" /\ status' = [status EXCEPT ![c] = "rest"]
    BY <1>10, <1>s, StatusSays, StatusMoves DEF Finish
  <2>2. accepted[c] = stmt[c].rows /\ affected_count[c] = stmt[c].rows
    BY <1>10, <1>i, <1>t DEF Finish, Told, BetweenChunks
  <2>3. QED
    BY <1>10, <1>r, <2>1, <2>2 DEF Finish, progress, Report!Succeed, rowsOf
<1>11. ASSUME Rollback(c) PROVE Report!Fail(c)
  <2>1. status[c] = "broken" /\ status' = [status EXCEPT ![c] = "rest"]
    BY <1>11, <1>s, StatusSays, StatusMoves DEF Rollback
  <2>2. \/ accepted[c] <= VectorSize /\ result' = [result EXCEPT ![c] = "error"]
        \/ accepted[c] > 0 /\ result' = [result EXCEPT ![c] = "irrevocable"]
    <3>1. phase[c] = "failed"
      BY <1>11 DEF Rollback
    <3>2. /\ affected_count[c] <= accepted[c] /\ accepted[c] <= affected_count[c] + VectorSize
          /\ c \in has_writes <=> affected_count[c] > 0
      BY <1>i, <3>1 DEF Told, Failed, Running
    <3>3. CASE c \in has_writes
      <4>1. c \in transactions
        BY <3>3 DEF TypeOK
      <4>2. result' = [result EXCEPT ![c] = "irrevocable"]
        BY <1>11, <3>3, <4>1 DEF Rollback
      <4>3. accepted[c] > 0
        BY <1>t, <3>2, <3>3
      <4>4. QED
        BY <4>2, <4>3
    <3>4. CASE c \notin has_writes
      <4>1. result' = [result EXCEPT ![c] = "error"]
        BY <1>11, <3>4 DEF Rollback
      <4>2. accepted[c] <= VectorSize
        BY <1>t, <3>2, <3>4
      <4>3. QED
        BY <4>1, <4>2
    <3>5. QED
      BY <3>3, <3>4
  <2>3. QED
    BY <1>11, <2>1, <2>2 DEF Rollback, progress, Report!Fail
<1>12. QED
  BY <1>1, <1>2, <1>4, <1>5, <1>6, <1>7, <1>8, <1>9, <1>10, <1>11

\* Whatever the plans, chunks, requests and lost answers, the user of a connection
\* sees the statements that WriteReport describes: rust_bridge_dml.cpp, mutation.rs
\* and rust_bridge_transaction_manager.cpp together.
THEOREM Implementation == Spec => ImplementsWriteReport
<1>1. Init => Report!Init
  BY DEF Init, Zero, NoStatement, status, Report!Init
<1>2. TypeOK /\ DmlInv /\ [Next]_vars => [Report!Next]_(Report!vars)
  <2> SUFFICES ASSUME TypeOK, DmlInv, [Next]_vars
               PROVE  Report!Next \/ UNCHANGED Report!vars
    OBVIOUS
  <2>1. CASE UNCHANGED vars
    BY <2>1 DEF vars, transaction, outcome, progress, status, Report!vars
  <2>2. CASE Next
    BY <2>2, StepReports DEF Next, Report!Next
  <2>3. QED
    BY <2>1, <2>2
<1>3. QED
  BY <1>1, <1>2, TypeCorrect, DmlInvariant, PTL DEF Spec, Report!Spec, ImplementsWriteReport
=============================================================================
