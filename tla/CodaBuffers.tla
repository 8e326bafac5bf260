---------------------------- MODULE CodaBuffers ----------------------------
(***************************************************************************)
(* The arrays that one chunk, or one pushed constant, becomes on its way   *)
(* from DuckDB to Rust: RustBridgeInputValueBuffer::Convert, InsertRows,   *)
(* UpdateRows and DeleteRows (src/include/rust_bridge_client.hpp,          *)
(* src/cpp/rust_bridge_client.cpp).                                        *)
(*                                                                         *)
(* Values and row ids cross the boundary as pointers borrowed from strings *)
(* kept in a vector.  A push beyond the vector's capacity moves its        *)
(* strings: the characters of a short one are inside the string object, so *)
(* a pointer borrowed before is left behind; a long one keeps its          *)
(* characters where they are.  Of the growth of a vector the model assumes *)
(* no more than the standard says: there is room for one element more.     *)
(***************************************************************************)
EXTENDS Naturals, Sequences

CONSTANTS
    MaxRows,        \* rows of a chunk, at most STANDARD_VECTOR_SIZE: a bound
    MaxColumns      \* columns of the table, or assignments of an UPDATE: a bound

ASSUME BuffersAssumption == MaxRows \in Nat /\ MaxColumns \in Nat

VARIABLES
    op,             \* what the chunk is for
    rows, width,    \* rows of the chunk; values of a row
    row_idx,        \* the loop over the rows
    col_idx,        \* the loop over the columns, expr_idx in UpdateRows
    strings,        \* RustBridgeInputValueBuffer::strings
    row_ids,        \* the strings of the row ids
    values,         \* the values pushed: of which row and column each one is
    named,          \* rust_bridge_row_ids: which row each one is the id of
    phase           \* where the call is: at the head of which loop, or past both

vars == <<op, rows, width, row_idx, col_idx, strings, row_ids, values, named, phase>>

\* A vector of strings, from each of which one pointer was borrowed: how many
\* there are, for how many there is room, which ones are short, and from which
\* ones the borrowed pointer dangles.
StringVector == [size : Nat, capacity : Nat, short : SUBSET Nat, stale : SUBSET Nat]
NoStrings    == [size |-> 0, capacity |-> 0, short |-> {}, stale |-> {}]

Ops    == {"none", "insert", "update", "delete", "filter"}
Kinds  == {"plain", "short", "long"}    \* NULL, BOOLEAN and numbers; strings
Phases == {"rows", "columns", "called", "threw"}

TypeOK ==
    /\ op \in Ops
    /\ rows \in Nat /\ width \in Nat
    /\ row_idx \in 0..rows /\ col_idx \in 0..width
    /\ strings \in StringVector
    /\ row_ids \in StringVector
    /\ values \in Seq(Nat \X Nat) /\ named \in Seq(Nat)
    /\ phase \in Phases
    /\ strings.size <= Len(values) /\ row_ids.size <= rows
-----------------------------------------------------------------------------
\* vector::reserve
Reserve(v, count) == [v EXCEPT !.capacity = IF count > @ THEN count ELSE @]

\* push_back of a string, and the pointer borrowed from it afterwards.
PushAndBorrow(v, kind) ==
    [size     |-> v.size + 1,
     capacity |-> IF v.size < v.capacity THEN v.capacity ELSE v.size + 1,
     short    |-> IF kind = "short" THEN v.short \cup {v.size} ELSE v.short,
     stale    |-> IF v.size < v.capacity THEN v.stale ELSE v.short]

\* Convert: every kind but strings is copied into the value itself.
Convert(v, kind) == IF kind = "plain" THEN v ELSE PushAndBorrow(v, kind)

Start(o, n, w) ==
    /\ phase \in {"called", "threw"}
    /\ op' = o /\ rows' = n /\ width' = w
    /\ row_idx' = 0 /\ col_idx' = 0
    /\ values' = <<>> /\ named' = <<>>
    /\ phase' = "rows"

Init ==
    /\ op = "none" /\ rows = 0 /\ width = 0
    /\ row_idx = 0 /\ col_idx = 0
    /\ strings = NoStrings /\ row_ids = NoStrings
    /\ values = <<>> /\ named = <<>>
    /\ phase = "called"

\* Mutant form: room for one string per row.
StartInsert_RoomPerRow(n, w) ==
    /\ Start("insert", n, w)
    /\ strings' = Reserve(NoStrings, n)
    /\ row_ids' = NoStrings
StartInsert(n, w) ==
    /\ Start("insert", n, w)
    /\ strings' = Reserve(NoStrings, n * w)
    /\ row_ids' = NoStrings

StartUpdate(n, w) ==
    /\ Start("update", n, w)
    /\ strings' = Reserve(NoStrings, n * w)
    /\ row_ids' = Reserve(NoStrings, n)

StartDelete(n) ==
    /\ Start("delete", n, 0)
    /\ strings' = NoStrings
    /\ row_ids' = Reserve(NoStrings, n)

\* TryExtractRustBridgeEqualityFilter: one constant, nothing reserved.
StartFilter ==
    /\ Start("filter", 1, 1)
    /\ strings' = NoStrings
    /\ row_ids' = NoStrings

-----------------------------------------------------------------------------
(* The loops over rows and columns.                                        *)

\* Mutant form: the loop runs once too often.
MoreRows_OneMore == row_idx <= rows
MoreRows == row_idx < rows

MoreColumns == col_idx < width

EnterColumns ==
    /\ col_idx' = 0
    /\ phase' = "columns"
    /\ UNCHANGED <<op, rows, width, row_idx, strings, values>>

\* UPDATE and DELETE begin a row with its id.
PushRowId(kind) ==
    /\ phase = "rows" /\ MoreRows /\ op \in {"update", "delete"}
    /\ kind # "plain"
    /\ row_ids' = PushAndBorrow(row_ids, kind)
    /\ named' = Append(named, row_idx)
    /\ EnterColumns

\* INSERT and a filter have none.
BeginRow ==
    /\ phase = "rows" /\ MoreRows /\ op \in {"insert", "filter"}
    /\ UNCHANGED <<row_ids, named>>
    /\ EnterColumns

AtColumn == phase = "columns" /\ MoreColumns

\* values.push_back, and col_idx++ or expr_idx++.
PushNext ==
    /\ values' = Append(values, <<row_idx, col_idx>>)
    /\ col_idx' = col_idx + 1
    /\ UNCHANGED <<op, rows, width, row_idx, row_ids, named, phase>>

PushValue(kind) ==
    /\ AtColumn
    /\ strings' = Convert(strings, kind)
    /\ PushNext

\* Mutant form: a column to be ignored is passed over.
PushUnknownColumn_Continue ==
    /\ AtColumn /\ op = "update"
    /\ col_idx' = col_idx + 1
    /\ UNCHANGED <<op, rows, width, row_idx, strings, row_ids, values, named, phase>>

\* UPDATE of a column that the table does not have: NULL, marked as generated.
PushUnknownColumn ==
    /\ AtColumn /\ op = "update"
    /\ UNCHANGED strings
    /\ PushNext

\* UPDATE with an expression that is neither a column of the chunk nor DEFAULT.
UnsupportedExpression ==
    /\ AtColumn /\ op = "update"
    /\ phase' = "threw"
    /\ UNCHANGED <<op, rows, width, row_idx, col_idx, strings, row_ids, values, named>>

\* row_idx++
EndRow ==
    /\ phase = "columns" /\ ~MoreColumns
    /\ row_idx' = row_idx + 1
    /\ phase' = "rows"
    /\ UNCHANGED <<op, rows, width, col_idx, strings, row_ids, values, named>>

\* The call into Rust.
Call ==
    /\ phase = "rows" /\ ~MoreRows
    /\ phase' = "called"
    /\ UNCHANGED <<op, rows, width, row_idx, col_idx, strings, row_ids, values, named>>

Next ==
    \/ \E n \in 1..MaxRows, w \in 1..MaxColumns : StartInsert(n, w) \/ StartUpdate(n, w)
    \/ \E n \in 1..MaxRows : StartDelete(n)
    \/ StartFilter
    \/ \E kind \in Kinds : PushRowId(kind) \/ PushValue(kind)
    \/ BeginRow \/ PushUnknownColumn \/ UnsupportedExpression \/ EndRow \/ Call

Spec == Init /\ [][Next]_vars
-----------------------------------------------------------------------------
(* Properties.                                                             *)

\* No pointer handed to Rust dangles: all strings of a chunk fit into what was
\* reserved, and the one string of a filter is borrowed after its push
\* (rust_bridge_client.hpp:86-96, rust_bridge_client.cpp:60, 85, 104, 143).
BorrowsHold == strings.stale = {} /\ row_ids.stale = {}

\* The value that Rust takes for column c of row r: slice_from_raw_parts makes the
\* array as long as the counts say, and insert_body and update_rows cut it up.
Taken(r, c) == values[r * width + c + 1]

\* Rust is told the counts of rows and columns, never the length of the arrays
\* (exports.rs:360-361, 391-393), so its own checks of their shapes cannot fail: a
\* push left out or made twice anywhere would give every later cell the value of
\* another one, or have Rust read past the end.  When the loops are through, each
\* cell finds its own value, and each row of an UPDATE or DELETE its own id.
SlicesMatchRows ==
    phase = "called" =>
        /\ Len(values) = rows * width
        /\ \A r \in 0..(rows - 1), c \in 0..(width - 1) : Taken(r, c) = <<r, c>>
        /\ op \in {"update", "delete"} => named = [r \in 1..rows |-> r - 1]
=============================================================================
