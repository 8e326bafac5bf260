---------------------------- MODULE CodaPushdown ----------------------------
(***************************************************************************)
(* What the optimizer takes out of DuckDB's plan and puts into the request *)
(* for rows: an equality filter, and ORDER BY .. LIMIT                     *)
(* (src/cpp/rust_bridge_scan.cpp, src/include/rust_bridge_scan.hpp,        *)
(* build_equality_query in src/mutation.rs).                               *)
(*                                                                         *)
(* A plan is the filters that stay in DuckDB and the scan's bind data.     *)
(* DuckDB may offer its filters more than once and may copy the bind data. *)
(* Its order and limit reach the scan only when no filter is left above it *)
(* (row_limit is invalid otherwise).  DuckDB evaluates what stays in the   *)
(* plan; Coda evaluates what was pushed, and is taken to agree with DuckDB *)
(* on which cells equal a finite constant.                                 *)
(***************************************************************************)
EXTENDS Naturals, Sequences, FiniteSets, SequencesExt

CONSTANTS
    NRows,          \* rows of the table: a bound
    Columns,        \* its columns
    Filterable,     \* columns with RUST_EXT_COLUMN_FILTER_EQUALITY
    Sortable,       \* columns with RUST_EXT_COLUMN_SORT_ASC
    Finite,         \* cell values, and constants that JSON can express
    NonFinite,      \* constants that JSON cannot express: nan, infinity
    Blank,          \* an empty cell, a NULL constant, JSON's null
    MaxFilters,     \* filters of the query: a bound
    NoQuery, NoOrder

Rows == 1..NRows
Cell == Finite \cup {Blank}

\* Conjuncts of the WHERE clause: an equality of a column with a constant, or
\* something else, known by the rows it keeps.
Equality == [column : Columns, constant : Finite \cup NonFinite \cup {Blank}]
Other    == [keeps : SUBSET Rows]
Filter   == Equality \cup Other
Order    == [column : Columns, ascending : BOOLEAN, limit : 1..NRows]
Query    == [column : Columns, literal : Cell]
BindData == [pushed_query : Query \cup {NoQuery}, pushed_sort_by : Columns \cup {NoOrder},
             pushed_limit : 0..NRows]

ASSUME PushdownAssumption ==
    /\ NRows \in Nat /\ MaxFilters \in Nat
    /\ Filterable \subseteq Columns /\ Sortable \subseteq Columns
    /\ Blank \notin Finite \cup NonFinite /\ Finite \cap NonFinite = {}
    /\ NoQuery \notin Query /\ NoOrder \notin Columns

VARIABLES
    table,          \* Coda: the cells of each row
    place,          \* Coda: where each column's order puts each row
    where, order,   \* the query
    filters,        \* the filters in DuckDB's plan
    bind,           \* RustBridgeScanBindData
    answer,         \* the rows the query returns
    phase           \* planning the query, or done

query == <<table, place, where, order>>
vars  == <<query, filters, bind, answer, phase>>

TypeOK ==
    /\ filters \in Seq(Filter) /\ Len(filters) <= MaxFilters
    /\ bind \in BindData
    /\ bind.pushed_limit > 0 <=> bind.pushed_sort_by # NoOrder
    /\ answer \subseteq Rows
    /\ phase \in {"filters", "order", "done"}
-----------------------------------------------------------------------------
(* DuckDB and Coda (external).                                             *)

\* Does DuckDB keep row r?  NULL equals nothing, and no cell is nan or infinite.
Keeps(f, r) ==
    IF f \in Other THEN r \in f.keeps
    ELSE f.constant \in Finite /\ table[r][f.column] = f.constant

Kept(S, fs) == {r \in S : \A i \in DOMAIN fs : Keeps(fs[i], r)}

\* The first n rows of S in an order.
First(S, at, n) == {r \in S : Cardinality({s \in S : at[s] < at[r]}) < n}

\* DuckDB's LIMIT over the rows S.
Limited(S, o) ==
    IF o = NoOrder THEN S
    ELSE IF o.ascending THEN First(S, place[o.column], o.limit)
    ELSE First(S, [r \in Rows |-> NRows - place[o.column][r]], o.limit)

\* Coda's rows for a query; null finds the empty cells.
Found(q) == IF q = NoQuery THEN Rows ELSE {r \in Rows : table[r][q.column] = q.literal}
-----------------------------------------------------------------------------
(* Planning.                                                               *)

Init ==
    /\ table \in [Rows -> [Columns -> Cell]]
    /\ place \in [Columns -> {p \in [Rows -> Rows] : \A r, s \in Rows : p[r] = p[s] => r = s}]
    /\ where \in BoundedSeq(Filter, MaxFilters)
    /\ order \in Order \cup {NoOrder}
    /\ filters = where
    /\ bind = [pushed_query |-> NoQuery, pushed_sort_by |-> NoOrder, pushed_limit |-> 0]
    /\ answer = {}
    /\ phase = "filters"

\* rust_ext_scan_can_filter_equality, and the tests for a constant that is there.
CanPush(f) ==
    /\ f \in Equality
    /\ f.column \in Filterable
    /\ f.constant # Blank

\* build_equality_query: the constant as a JSON literal.
build_equality_query(f) ==
    [column |-> f.column, literal |-> IF f.constant \in NonFinite THEN Blank ELSE f.constant]

\* RustBridgeScanPushdownComplexFilter: the first filter that can be pushed.
PushdownComplexFilter ==
    /\ phase = "filters"
    /\ bind.pushed_query = NoQuery
    /\ \E i \in DOMAIN filters :
        /\ CanPush(filters[i]) /\ \A j \in 1..(i - 1) : ~CanPush(filters[j])
        /\ bind' = [bind EXCEPT !.pushed_query = build_equality_query(filters[i])]
        /\ filters' = RemoveAt(filters, i)
    /\ UNCHANGED <<query, answer, phase>>

\* RustBridgeScanBindData::Copy
\* Mutant forms: a member is forgotten.
Copy_LosesQuery(b) == [b EXCEPT !.pushed_query = NoQuery]
Copy_LosesOrder(b) == [b EXCEPT !.pushed_sort_by = NoOrder]
Copy(b) == b

\* An order that Coda has, too.
CanSort(o) ==
    /\ o # NoOrder /\ o.ascending
    /\ o.column \in Sortable

\* RustBridgeScanSetScanOrder.  That filters = <<>> is no test of the code's: DuckDB's
\* optimizer hands an order and a limit to a scan only when nothing is left above it.
SetScanOrder ==
    /\ phase = "filters"
    /\ bind' = IF filters = <<>> /\ CanSort(order)
               THEN [Copy(bind) EXCEPT !.pushed_sort_by = order.column, !.pushed_limit = order.limit]
               ELSE Copy(bind)
    /\ phase' = "order"
    /\ UNCHANGED <<query, filters, answer>>

\* The rows of the scan: those of the query, in Coda's order for sort_by, up to
\* the limit; 0 is no limit.
Scanned(b) ==
    IF b.pushed_limit = 0 THEN Found(b.pushed_query)
    ELSE First(Found(b.pushed_query),
               IF b.pushed_sort_by = NoOrder THEN [r \in Rows |-> r] ELSE place[b.pushed_sort_by],
               b.pushed_limit)

Execute ==
    /\ phase = "order"
    /\ bind' = Copy(bind)
    /\ answer' = Limited(Kept(Scanned(bind'), filters), order)
    /\ phase' = "done"
    /\ UNCHANGED <<query, filters>>

Next == PushdownComplexFilter \/ SetScanOrder \/ Execute

Spec == Init /\ [][Next]_vars
-----------------------------------------------------------------------------
(* Properties.                                                             *)

\* build_equality_query refuses a NULL constant ("null query value"), but not one
\* that JSON turns into null: the query is then for the empty cells, and the filter
\* that would have removed them is no longer in the plan (mutation.rs:14, 165-186).
AsksForNull == bind.pushed_query # NoQuery /\ bind.pushed_query.literal = Blank

\* What was pushed and what stayed give the rows that the query asks for, unless it
\* compares with nan or infinity: the erased filter is the pushed one, no filter is
\* lost when it is offered again or when the bind data is copied, and a limit ends
\* the scan only where the rows come in the order it is about
\* (rust_bridge_scan.cpp:130-148, 256-278).
AnswerIsRight ==
    phase = "done" /\ ~AsksForNull => answer = Limited(Kept(Rows, where), order)
=============================================================================
