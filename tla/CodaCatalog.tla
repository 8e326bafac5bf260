----------------------------- MODULE CodaCatalog -----------------------------
(***************************************************************************)
(* ATTACH reads the doc's catalog once: RustBridgeCatalog::LoadCatalog     *)
(* calls load_catalog (src/client.rs), which pages through the tables and, *)
(* for each table of a page, through its columns; append_row_metadata and  *)
(* prepare_columns (src/json.rs) settle the column names, and the schema's *)
(* constructor (rust_bridge_schema.cpp) files the tables under their names.*)
(* Other users edit the doc meanwhile.                                     *)
(*                                                                         *)
(* The Coda server is outside the repository.  It is modelled from how the *)
(* code uses it: a page token continues a listing behind the last item of  *)
(* the page before, and a page is read when it is served.  One request and *)
(* its answer are one step: what is edited between the two could as well   *)
(* be edited before.                                                       *)
(*                                                                         *)
(* Of a name the model keeps what comparing and numbering see: a stem and  *)
(* the numbers "_2", "_3".. behind it.  Capabilities and types are left    *)
(* out, except that a column is Coda's or a system column of the extension.*)
(***************************************************************************)
EXTENDS Naturals, Sequences

CONSTANTS
    NTables,        \* tables the doc can hold while it is read: a bound
    NColumns,       \* columns a table can hold: a bound
    Docs,           \* docs that ATTACH may meet, and the edits to come: a bound
    Lower,          \* the stems, each with its lower-case form
    TableNames,     \* names that edits give to tables: a bound
    ColumnNames,    \* names that edits give to columns: a bound
    IncludeSystem,  \* config.include_system_columns: INCLUDE_ROW_METADATA
    Absent          \* the name of what is not in the doc

Tables  == 1..NTables
Columns == 1..NColumns

Stems == DOMAIN Lower
Name  == [stem : Stems, tail : Seq(Nat)]

Plain(stem) == [stem |-> stem, tail |-> <<>>]

ASSUME CatalogAssumption ==
    /\ NTables \in Nat \ {0} /\ NColumns \in Nat \ {0}
    /\ Lower \in [Stems -> Stems]
    /\ \A s \in Stems : Lower[Lower[s]] = Lower[s]
    /\ {"", "column", "createdAt", "updatedAt"} \subseteq Stems
    /\ TableNames \subseteq Name /\ ColumnNames \subseteq Name
    /\ Docs \subseteq [tables : [Tables -> Name \cup {Absent}],
                       columns : [Tables \X Columns -> Name \cup {Absent}], edits : Nat]
    /\ IncludeSystem \in BOOLEAN
    /\ Absent \notin Name

VARIABLES
    table_name,     \* server: the tables' names, or Absent
    column_name,    \* server: the names of their columns, or Absent
    edits,          \* server: edits to come at most
    held,           \* history: for each table, the names it has had meanwhile
    steady,         \* history: <<table, column>> there all the while, 0 the table
    pending,        \* load_catalog: tables of the page still without columns
    page_token,     \* load_catalog: the last table of the page, 0 for no more
    columns,        \* load_columns: `all`, the columns of the pages so far
    column_token,   \* load_columns: the last column of the page, 0 for none
    catalog_tables, \* load_catalog: the tables that are complete
    entries,        \* RustBridgeSchemaCatalogEntry::entries: name to position
    status          \* how far ATTACH has come

doc     == <<table_name, column_name, edits, held, steady>>
loading == <<pending, page_token, columns, column_token, catalog_tables>>
vars    == <<doc, loading, entries, status>>

Column == [id : 0..NColumns, name : Name, system : BOOLEAN]
Table  == [id : Tables, name : Name, columns : Seq(Column)]
Open   == {"tables", "columns"}
Ended  == {"attached", "failed"}

\* The doc may hold anything when the attach begins.
Init ==
    /\ \E d \in Docs : table_name = d.tables /\ column_name = d.columns /\ edits = d.edits
    /\ held = [t \in Tables |-> {table_name[t]} \ {Absent}]
    /\ steady = {<<t, 0>> : t \in {u \in Tables : table_name[u] # Absent}}
                \cup {p \in Tables \X Columns : column_name[p] # Absent}
    /\ pending = <<>> /\ page_token = 0
    /\ columns = <<>> /\ column_token = 0
    /\ catalog_tables = <<>>
    /\ entries = <<>>
    /\ status = "tables"
-----------------------------------------------------------------------------
(* The doc (external).                                                     *)

\* Another user adds, renames or deletes a table.
EditTable(t, name) ==
    /\ status \in Open
    /\ edits > 0
    /\ name # table_name[t]
    /\ table_name' = [table_name EXCEPT ![t] = name]
    /\ held' = [held EXCEPT ![t] = @ \cup ({name} \ {Absent})]
    /\ steady' = IF name = Absent THEN steady \ {<<t, 0>>} ELSE steady
    /\ edits' = edits - 1
    /\ UNCHANGED <<column_name, loading, entries, status>>

\* Another user adds, renames or deletes a column.
EditColumn(t, c, name) ==
    /\ status \in Open
    /\ edits > 0
    /\ name # column_name[<<t, c>>]
    /\ column_name' = [column_name EXCEPT ![<<t, c>>] = name]
    /\ steady' = IF name = Absent THEN steady \ {<<t, c>>} ELSE steady
    /\ edits' = edits - 1
    /\ UNCHANGED <<table_name, held, loading, entries, status>>

\* The items of one page, in listing order: those behind the token up to upto.
Page(from, upto, existing) ==
    LET page[i \in 0..upto] == IF i <= from THEN <<>>
                               ELSE IF i \in existing THEN Append(page[i - 1], i)
                               ELSE page[i - 1]
    IN  page[upto]

\* The token of a page that ends with item upto of n.
NextToken(upto, n) == IF upto = n THEN 0 ELSE upto
-----------------------------------------------------------------------------
(* Column names (src/json.rs).                                             *)

Fold(name) == [name EXCEPT !.stem = Lower[@]]

\* Mutant form: the letters' case is told apart.
Taken_CaseSensitive(prior, name) == \E i \in DOMAIN prior : prior[i].name = name

\* eq_ignore_ascii_case with the name of any earlier column.
Taken(prior, name) == \E i \in DOMAIN prior : Fold(prior[i].name) = Fold(name)

\* The candidates for a name: itself ("column" for an empty one), then numbered.
Candidate(name, n) ==
    LET base == IF name = Plain("") THEN Plain("column") ELSE name
    IN  IF n = 1 THEN base ELSE [base EXCEPT !.tail = Append(@, n)]

\* The first candidate that no earlier column has.
FreeName(prior, name) ==
    LET n == CHOOSE k \in 1..(Len(prior) + 1) :
                 /\ ~Taken(prior, Candidate(name, k))
                 /\ \A j \in 1..(k - 1) : Taken(prior, Candidate(name, j))
    IN  Candidate(name, n)

\* Every column in turn gets a name that is free.
prepare_columns(all) ==
    LET prepared[i \in 0..Len(all)] ==
            IF i = 0 THEN <<>>
            ELSE Append(prepared[i - 1],
                        [all[i] EXCEPT !.name = FreeName(prepared[i - 1], @)])
    IN  prepared[Len(all)]

append_row_metadata(all) ==
    all \o <<[id |-> 0, name |-> Plain("createdAt"), system |-> TRUE],
             [id |-> 0, name |-> Plain("updatedAt"), system |-> TRUE]>>
-----------------------------------------------------------------------------
(* load_catalog and load_columns (src/client.rs).                          *)

\* A page of tables is requested and answered, possibly an empty one.
ListTables ==
    /\ status = "tables"
    /\ \E upto \in (page_token + 1)..NTables :
        /\ LET ids == Page(page_token, upto, {t \in Tables : table_name[t] # Absent})
           IN  pending' = [i \in DOMAIN ids |-> [id |-> ids[i], name |-> table_name[ids[i]]]]
        /\ page_token' = NextToken(upto, NTables)
    /\ status' = "columns"
    /\ UNCHANGED <<doc, columns, column_token, catalog_tables, entries>>

\* Mutant forms: the columns of the last page replace those before; the system
\* columns come on every page.
Extend_Replace(all, items)  == items
Extend_Metadata(all, items) == IF IncludeSystem THEN append_row_metadata(all \o items)
                               ELSE all \o items

Extend(all, items) == all \o items

\* A page of a pending table's columns; with the last one the table is complete.
ListColumns ==
    /\ status = "columns"
    /\ pending # <<>>
    /\ LET t == Head(pending) IN
       /\ table_name[t.id] # Absent
       /\ \E upto \in (column_token + 1)..NColumns :
           LET ids   == Page(column_token, upto, {c \in Columns : column_name[<<t.id, c>>] # Absent})
               items == [i \in DOMAIN ids |->
                           [id |-> ids[i], name |-> column_name[<<t.id, ids[i]>>], system |-> FALSE]]
               all   == Extend(columns, items)
           IN  /\ column_token' = NextToken(upto, NColumns)
               /\ IF column_token' # 0
                  THEN columns' = all /\ UNCHANGED <<pending, catalog_tables>>
                  ELSE /\ columns' = <<>>
                       /\ pending' = Tail(pending)
                       /\ catalog_tables' = Append(catalog_tables,
                            [id |-> t.id, name |-> t.name,
                             columns |-> prepare_columns(
                                 IF IncludeSystem THEN append_row_metadata(all) ELSE all)])
    /\ UNCHANGED <<doc, page_token, entries, status>>

IsLastPage == page_token = 0

\* The page's tables are complete, and there is another page.
NextTablePage ==
    /\ status = "columns"
    /\ pending = <<>>
    /\ ~IsLastPage
    /\ status' = "tables"
    /\ UNCHANGED <<doc, loading, entries>>
-----------------------------------------------------------------------------
(* The schema (rust_bridge_schema.cpp).                                    *)

\* Mutant form: the first table of a name is kept, the map is case sensitive.
Entries_CaseSensitive(ts) ==
    [n \in {ts[i].name : i \in DOMAIN ts} |->
        CHOOSE i \in DOMAIN ts : ts[i].name = n /\ \A j \in 1..(i - 1) : ts[j].name # n]

\* entries is a case insensitive map: of tables with one name the last stays.
Entries(ts) ==
    [n \in {Fold(ts[i].name) : i \in DOMAIN ts} |->
        CHOOSE i \in DOMAIN ts :
            /\ Fold(ts[i].name) = n
            /\ \A j \in (i + 1)..Len(ts) : Fold(ts[j].name) # n]

\* The last page is done: the schema is built and the doc is attached.
BuildSchema ==
    /\ status = "columns"
    /\ pending = <<>>
    /\ IsLastPage
    /\ entries' = Entries(catalog_tables)
    /\ status' = "attached"
    /\ UNCHANGED <<doc, loading>>

\* LookupEntry: the table a name stands for, as a set of at most one.
LookupEntry(name) ==
    {catalog_tables[entries[n]] : n \in {m \in DOMAIN entries : m = Fold(name)}}

\* A table was deleted after its page had been served: its columns are not found,
\* and the ATTACH fails as a whole.
TableGone ==
    /\ status = "columns"
    /\ pending # <<>>
    /\ table_name[Head(pending).id] = Absent
    /\ status' = "failed"
    /\ UNCHANGED <<doc, loading, entries>>

\* A request fails, and with it the ATTACH.
Fail ==
    /\ status = "tables" \/ (status = "columns" /\ pending # <<>>)
    /\ status' = "failed"
    /\ UNCHANGED <<doc, loading, entries>>
-----------------------------------------------------------------------------
\* An ATTACH that has ended stays ended.
Over == status \in Ended /\ UNCHANGED vars

Next ==
    \/ \E t \in Tables, name \in TableNames \cup {Absent} : EditTable(t, name)
    \/ \E t \in Tables, c \in Columns, name \in ColumnNames \cup {Absent} : EditColumn(t, c, name)
    \/ ListTables
    \/ ListColumns
    \/ NextTablePage
    \/ BuildSchema
    \/ TableGone
    \/ Fail
    \/ Over

Spec == Init /\ [][Next]_vars
-----------------------------------------------------------------------------
(* Properties.                                                             *)

TypeOK ==
    /\ table_name \in [Tables -> Name \cup {Absent}]
    /\ column_name \in [Tables \X Columns -> Name \cup {Absent}]
    /\ edits \in Nat
    /\ held \in [Tables -> SUBSET Name]
    /\ steady \subseteq Tables \X (0..NColumns)
    /\ pending \in Seq([id : Tables, name : Name])
    /\ page_token \in 0..(NTables - 1)
    /\ column_token \in 0..(NColumns - 1)
    /\ columns \in Seq([id : Columns, name : Name, system : {FALSE}])
    /\ catalog_tables \in Seq(Table)
    /\ entries \in [DOMAIN entries -> DOMAIN catalog_tables]
    /\ status \in Open \cup Ended

\* However the pages fall and whatever is edited meanwhile, an attached doc has
\* every table that was there all the while, once, and with it every column that
\* was there all the while, once: load_catalog and load_columns lose and repeat
\* nothing.
CatalogIsComplete ==
    status = "attached" =>
        \A t \in Tables : <<t, 0>> \in steady =>
            \E i \in DOMAIN catalog_tables :
                /\ catalog_tables[i].id = t
                /\ \A j \in DOMAIN catalog_tables : catalog_tables[j].id = t => j = i
                /\ \A c \in Columns : <<t, c>> \in steady =>
                    \E k \in DOMAIN catalog_tables[i].columns :
                        /\ catalog_tables[i].columns[k].id = c
                        /\ \A l \in DOMAIN catalog_tables[i].columns :
                               catalog_tables[i].columns[l].id = c => l = k

\* No two columns of a table have names that DuckDB takes for the same one, even
\* when a number given by prepare_columns makes a name that Coda uses for another
\* column, or when a column is named like a system column.  (CreateTableInfo would
\* refuse such a table, and with it the whole doc.)
ColumnNamesDistinct ==
    \A i \in DOMAIN catalog_tables :
        LET cs == catalog_tables[i].columns
        IN  \A k, l \in DOMAIN cs : Fold(cs[k].name) = Fold(cs[l].name) => k = l

\* A table that was there all the while, and whose names in that time no other
\* table had, is found under one of them, however the doc was edited.
UnambiguousTablesAreFound ==
    status = "attached" =>
        \A t \in Tables :
            /\ <<t, 0>> \in steady
            /\ \A u \in Tables \ {t} :
                   {Fold(n) : n \in held[t]} \cap {Fold(n) : n \in held[u]} = {}
            => \E n \in held[t] : \E table \in LookupEntry(n) : table.id = t

\* What the README says of tables: that those of the doc are exposed.
EveryTableIsExposed ==
    status = "attached" =>
        \A i \in DOMAIN catalog_tables :
            catalog_tables[i] \in UNION {LookupEntry(n) : n \in TableNames}
=============================================================================
