------------------------------ MODULE CodaCells ------------------------------
(***************************************************************************)
(* What becomes of a value on its way from DuckDB into a cell of a Coda    *)
(* table and back: RustBridgeClient::InsertRows and UpdateRows with their  *)
(* value buffer, the request bodies of mutation.rs, rows_from_json,        *)
(* scan_value and ScanValueToValue.                                        *)
(*                                                                         *)
(* Coda is outside the repository, and the requests ask it to parse what   *)
(* they write (disable_parsing: Some(false)): it may keep another JSON     *)
(* value than it was sent.  serde_json reads numbers best-effort, without  *)
(* its feature float_roundtrip: a number may come back as its neighbour.   *)
(* Both are choices of the model, and DuckDB's casts from text are a       *)
(* parameter.  A value is its type and its text; DuckDB has cast what a    *)
(* statement writes to the type of the column.  Left out are the system    *)
(* columns, which are read from the row itself, and ids that differ in     *)
(* case only.                                                              *)
(***************************************************************************)
EXTENDS Naturals, Sequences, SequencesExt

CONSTANTS
    NColumns,       \* columns of the table: a bound
    NRows,          \* rows of the chunk: a bound
    MaxWrites,      \* writes after the INSERT: a bound
    Texts,          \* the texts of values and cells
    Numbers,        \* those of them that are JSON numbers
    ColumnKinds,    \* the kinds of columns a table can have: a bound
    Values,         \* the values statements write, for each type: a bound
    UserCells,      \* what users type into cells: a bound
    Parsings,       \* ways for Coda to parse: what it makes of the values it does not keep
    Reread,         \* what serde_json may print for the number, array or object it read
    CastText,       \* casts of text to each type: what they make of the texts they take
    Null            \* DuckDB's NULL

Columns == 1..NColumns
Rows    == 1..NRows

NotSent  == [kind |-> "none", text |-> ""]
JsonNull == [kind |-> "null", text |-> "null"]
Types    == {"VARCHAR", "BOOLEAN", "DOUBLE"}
Kind     == [type : Types, editable : BOOLEAN]
Json     == [kind : {"string", "compound"}, text : Texts]
            \cup [kind : {"bool"}, text : {"false", "true"}]
            \cup [kind : {"number"}, text : Numbers]
            \cup {NotSent, JsonNull}

NonFinite == {"nan", "inf", "-inf"}

ASSUME CellsAssumption ==
    /\ NColumns \in Nat \ {0} /\ NRows \in Nat \ {0} /\ MaxWrites \in Nat
    /\ ColumnKinds \subseteq Kind
    /\ \A type \in Types : Null \in Values[type] /\ Values[type] \subseteq Texts \cup {Null}
    /\ Values["BOOLEAN"] \subseteq {"false", "true", Null}
    /\ Values["DOUBLE"] \subseteq Numbers \cup NonFinite \cup {Null}
    /\ UserCells \subseteq Json
    /\ \A parse \in Parsings : \A j \in DOMAIN parse : parse[j] \in Json
    /\ Numbers \subseteq Texts /\ Numbers \subseteq DOMAIN CastText["DOUBLE"]
    /\ \A n \in Numbers : Reread[n] \subseteq Numbers
    /\ NonFinite \cup {"false", "true"} \subseteq Texts
    /\ Null \notin Texts

VARIABLES
    columns,        \* the table's columns: type and RUST_EXT_COLUMN_EDITABLE
    cells,          \* the rows in Coda, NotSent for a cell never written
    expected,       \* history: what should be in each cell after its last writer
    writes          \* writes since the INSERT

vars == <<columns, cells, expected, writes>>

Init ==
    /\ columns \in [Columns -> ColumnKinds]
    /\ cells = <<>>
    /\ expected = <<>>
    /\ writes = 0
-----------------------------------------------------------------------------
(* From DuckDB to Coda.                                                    *)

\* RustExtWriteColumn: what Rust is told of a column.
WriteColumn(cs, i) == [id |-> i, editable |-> cs[i].editable]

\* Mutant form: the columns that cannot be written are left out, as the name says.
EditableColumns_Only(cs) == SelectSeq([i \in DOMAIN cs |-> WriteColumn(cs, i)],
                                      LAMBDA c : c.editable)

\* EditableColumns: all the table's columns, with their ids and capabilities.
EditableColumns(cs) == [i \in DOMAIN cs |-> WriteColumn(cs, i)]

\* RustBridgeInputValueBuffer::Convert.
Convert(type, v) ==
    IF v = Null THEN [value_type |-> "null", text |-> ""]
    ELSE [value_type |-> CASE type = "BOOLEAN" -> "bool"
                           [] type = "DOUBLE"  -> "double"
                           [] OTHER            -> "string",
          text |-> v]

\* Mutant form: a number that JSON does not have is written all the same.
input_value_json_NaN(v) ==
    IF v.value_type = "null" THEN JsonNull
    ELSE [kind |-> IF v.value_type = "double" THEN "nan" ELSE v.value_type, text |-> v.text]

\* JSON has no number for nan and the infinities: json! makes them null.
input_value_json(v) ==
    IF v.value_type = "null" \/ (v.value_type = "double" /\ v.text \in NonFinite)
    THEN JsonNull
    ELSE [kind |-> IF v.value_type = "double" THEN "number" ELSE v.value_type, text |-> v.text]

Writable(column) == column.editable

\* write_cells: the pairs of zip(columns, values) whose column can be written.
write_cells(cs, values) ==
    {[column |-> cs[i].id, value |-> input_value_json(values[i])] :
        i \in {j \in DOMAIN cs \cap DOMAIN values : Writable(cs[j])}}

\* insert_body: row after row out of one array of values.
insert_body(cs, values, row_count, value_column_count) ==
    [r \in 1..row_count |->
        LET start == (r - 1) * value_column_count
        IN  write_cells(cs, SubSeq(values, start + 1, start + value_column_count))]

\* Coda keeps a value as it is, or what it parses it to.
Parsed(parse, j) == IF j \in DOMAIN parse THEN parse[j] ELSE j

\* A row as Coda keeps it, after it has parsed the cells of a request and put them
\* into the row.
Put(row, sent, parse) ==
    [c \in Columns |->
        IF \E s \in sent : s.column = c
        THEN Parsed(parse[c], (CHOOSE s \in sent : s.column = c).value) ELSE row[c]]

EmptyRow == [c \in Columns |-> NotSent]

\* How Coda parses what one statement writes: as the format of each column says.
Parses == [Columns -> Parsings]

\* The JSON value that stands for a value of a column.
Meant(column, v) ==
    IF v = Null \/ (column.type = "DOUBLE" /\ v \in NonFinite) THEN JsonNull
    ELSE [kind |-> CASE column.type = "BOOLEAN" -> "bool"
                     [] column.type = "DOUBLE"  -> "number"
                     [] OTHER                   -> "string",
          text |-> v]

\* The chunks DuckDB gives to the sink for the columns of a list: every value has
\* the type of its column.
Chunks(list) ==
    [Rows -> {row \in [DOMAIN list -> UNION {Values[t] : t \in Types}] :
                 \A i \in DOMAIN list : row[i] \in Values[columns[list[i]].type]}]

\* InsertRows: the chunk's values are laid out in one array, row by row.
InsertRows ==
    /\ cells = <<>>
    /\ \E chunk \in Chunks([c \in Columns |-> c]), parse \in Parses :
        LET values == FlattenSeq([r \in Rows |->
                          [c \in Columns |-> Convert(columns[c].type, chunk[r][c])]])
            body   == insert_body(EditableColumns(columns), values, NRows, NColumns)
        IN  /\ cells' = [r \in Rows |-> Put(EmptyRow, body[r], parse)]
            /\ expected' = [r \in Rows |-> [c \in Columns |->
                   IF columns[c].editable
                   THEN Parsed(parse[c], Meant(columns[c], chunk[r][c])) ELSE NotSent]]
    /\ UNCHANGED <<columns, writes>>

\* Where a row's values begin in the array that update_rows is given.
RowStart(r, set) == (r - 1) * Len(set)

\* UpdateRows and update_rows: the SET list names columns in any order, and the
\* rows are sent one by one out of one array.
UpdateRows(set) ==
    /\ cells # <<>>
    /\ writes < MaxWrites
    /\ \E chunk \in Chunks(set), parse \in Parses :
        LET update_columns == [i \in DOMAIN set |-> WriteColumn(columns, set[i])]
            values == FlattenSeq([r \in Rows |-> [i \in DOMAIN set |->
                          Convert(columns[set[i]].type, chunk[r][i])]])
            slice(r) == SubSeq(values, RowStart(r, set) + 1, RowStart(r, set) + Len(set))
        IN  /\ cells' = [r \in Rows |->
                   Put(cells[r], write_cells(update_columns, slice(r)), parse)]
            /\ expected' = [r \in Rows |-> [c \in Columns |->
                   IF columns[c].editable /\ \E i \in DOMAIN set : set[i] = c
                   THEN Parsed(parse[c], Meant(columns[c],
                            chunk[r][CHOOSE i \in DOMAIN set : set[i] = c]))
                   ELSE expected[r][c]]]
    /\ writes' = writes + 1
    /\ UNCHANGED columns
-----------------------------------------------------------------------------
(* From Coda to DuckDB.                                                    *)

\* A user of the doc types something into a cell, or a formula does.
UserEdits(r, c, j) ==
    /\ r \in DOMAIN cells
    /\ writes < MaxWrites
    /\ cells' = [cells EXCEPT ![r][c] = j]
    /\ expected' = [expected EXCEPT ![r][c] = j]
    /\ writes' = writes + 1
    /\ UNCHANGED columns

\* Of a cell that was not sent, or whose json_value_type is that of null.
IsNull(j) == j.kind \in {"none", "null"}

\* json_value_string: a string is its text, true and false have one; anything else
\* is printed anew from what serde_json made of it.
json_value_string(j) == IF j.kind \in {"number", "compound"} THEN Reread[j.text] ELSE {j.text}

\* scan_value for a column of Coda's: nothing, or the text and what it parses to.
scan_value(column, j, text) ==
    IF IsNull(j) THEN [is_null |-> TRUE]
    ELSE [is_null |-> FALSE, value_type |-> j.kind, value |-> text,
          bool_value |-> j.kind = "bool" /\ text = "true",
          has_double_value |-> column.type = "DOUBLE" /\ text \in DOMAIN CastText["DOUBLE"]]

\* DefaultCastAs, and the catch around it.
Cast(type, text) == IF text \in DOMAIN CastText[type] THEN CastText[type][text] ELSE Null

ScanValueToValue(s, type) ==
    IF s.is_null THEN Null
    ELSE CASE type = "VARCHAR" -> s.value
           [] type = "BOOLEAN" /\ s.value_type = "bool" -> IF s.bool_value THEN "true" ELSE "false"
           [] type = "DOUBLE" /\ s.has_double_value -> CastText["DOUBLE"][s.value]
           [] OTHER -> Cast(type, s.value)

\* What a scan may deliver for a cell.
ReadCell(column, j) ==
    {ScanValueToValue(scan_value(column, j, text), column.type) : text \in json_value_string(j)}

\* A scan delivers the rows and changes nothing.
Scan == cells # <<>> /\ UNCHANGED vars
-----------------------------------------------------------------------------
\* A SET list names no column twice.
SetLists == {set \in UNION {[1..n -> Columns] : n \in Columns} : IsInjective(set)}

Next ==
    \/ InsertRows
    \/ \E set \in SetLists : UpdateRows(set)
    \/ \E r \in Rows, c \in Columns, j \in UserCells : UserEdits(r, c, j)
    \/ Scan

Spec == Init /\ [][Next]_vars
-----------------------------------------------------------------------------
(* Properties.                                                             *)

TypeOK ==
    /\ columns \in [Columns -> Kind]
    /\ cells = <<>> \/ cells \in [Rows -> [Columns -> Json]]
    /\ expected = <<>> \/ expected \in [Rows -> [Columns -> Json]]
    /\ writes \in 0..MaxWrites

\* A cell that a column of its type can show.
Shown(column, j) ==
    \/ IsNull(j)
    \/ column.type = "VARCHAR"
    \/ column.type = "BOOLEAN" /\ j.kind = "bool"
    \/ column.type = "DOUBLE" /\ j.kind = "number"

\* What a reader of the column may see of such a cell.  A number is not exact: it is
\* what serde_json makes of its text, and so is one inside an array or an object.
Seen(column, j) ==
    IF IsNull(j) THEN {Null}
    ELSE IF j.kind \in {"bool", "string"} THEN {j.text}
    ELSE IF column.type = "DOUBLE" THEN {CastText["DOUBLE"][text] : text \in Reread[j.text]}
    ELSE Reread[j.text]

\* What a scan reads from a cell is what Coda made of the value that the last INSERT,
\* UPDATE or edit put into that cell and into no other: values keep their rows and
\* columns in the arrays between C++ and Rust, over SET lists in any order; a column
\* that cannot be written stays as it was; NULL, nan and the infinities are written
\* as null, and the text 'null' is not.  No more is claimed: that Coda keeps what it
\* is sent, or that a number comes back to its last digit, is not true of this code.
ReadsWhatWasWritten ==
    \A r \in DOMAIN cells, c \in Columns :
        Shown(columns[c], expected[r][c]) =>
            ReadCell(columns[c], cells[r][c]) \subseteq Seen(columns[c], expected[r][c])
=============================================================================
