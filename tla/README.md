# A verification project for the DuckDB Coda extension

The extension attaches a Coda doc to DuckDB: tables of the doc become tables of a database, `SELECT` pages through the
rows of the Coda API, `INSERT`, `UPDATE` and `DELETE` send requests to it. The interesting part is that nothing on the
other side stands still or can be undone: other users edit the doc between two pages, there is no snapshot, a request may
be accepted and its answer lost, and what was written stays written. This directory holds TLA+ models of the parts of
the extension that have to cope with that, TLC configurations that check them on small instances, and proofs for every
value of the constants that TLAPS checks. Paths below are relative to the repository root, so `src/client.rs` is the
Rust file and `src/cpp/` the C++ side.

## Inventory

| Component | State it keeps | Operations | What makes it hard |
|---|---|---|---|
| `ScanHandle` (`src/client.rs`) | page token, sync token, `sync_check_done`, `finished` | `request`, `next_batch` | edits between pages; empty and all-deleted pages; a sync check that may repeat rows and answers with a new token |
| `RustBridgeScan` (`src/cpp/rust_bridge_scan.cpp`) | the current batch and `row_offset`, `finished`, `remaining_rows` | one call per output vector, close | page, batch, vector and limit end at different rows; 0 means both "no limit" and "limit used up" |
| Pushdown (`src/cpp/rust_bridge_scan.cpp`, `build_equality_query` in `src/mutation.rs`) | bind data: pushed query, order, limit | pushdown of a filter, of an order with its limit, copy | what is pushed is no longer in the plan; filters are offered twice; a limit below a filter |
| DML sinks (`src/cpp/storage/rust_bridge_dml.cpp`) with `src/mutation.rs` | `affected_count`, the chunk being sent | `Sink`, `GetData`; `insert_rows`, `update_rows`, `delete_rows` | one request per row for `UPDATE`; failure in the middle; lost answers |
| Statements that read what they write | scan and sink of one pipeline | vector by vector: scan, then sink | later pages and the sync check see what earlier vectors wrote |
| Transaction manager (`src/cpp/storage/rust_bridge_transaction_manager.cpp`) | the map `transactions`, `has_writes` of each | start, commit, rollback | writes cannot be rolled back, and `has_writes` is all the rollback knows |
| Catalog loading (`src/client.rs`, `src/json.rs`) | nested page tokens, tables and columns so far | `load_catalog`, `load_columns`, `prepare_columns`, `append_row_metadata` | edits between pages of two nested listings; numbered names that run into other names |
| Catalog, schema, tables (`src/cpp/storage/`) | `main_schema`, the case insensitive map `entries` | build, look up, plan DML, reject DDL | names that are one name to DuckDB; a catalog that is never read again |
| Extension loading and secrets (`src/cpp/rust_bridge_extension.cpp`, `src/exports.rs`) | `SecretConfigs()` of the process, registrations of each instance | LOAD, CREATE SECRET | instances that load at once, a LOAD that fails half-way, a function that can be called before its LOAD ends |
| ATTACH (`src/attach.rs`, `src/cpp/rust_bridge_storage.cpp`) | attach config | resolve options, two secret lookups | order of fallbacks, errors of the host, scopes that are prefixes of one another |
| Value conversions (`src/scan.rs`, `src/mutation.rs`, `ScanValueToValue`, `RustBridgeInputValueBuffer`) | none; one array of values per chunk | both directions, equality queries | array layout, JSON has fewer values than DuckDB, Coda parses what it is sent |
| FFI: ownership (`src/include/rust_bridge_client.hpp`, `src/exports.rs`) | four classes that own Rust allocations; pointers borrowed from them | adopt, move, assign, reset, destroy | exceptions in constructors, handles that keep pointers |
| FFI: buffers (same files, `src/cpp/rust_bridge_client.cpp`) | vectors of strings and values of a chunk | reserve, push, borrow, call | pointers borrowed from a vector that may grow; slices by counts given apart |

They interact by calls only. DuckDB calls the C++ side (pull: one vector at a time from the scan; push: one chunk at a
time into a sink), C++ calls Rust over the C ABI, Rust sends one blocking HTTP request at a time. A scan has one thread
(`MaxThreads` is 1) and sinks are not parallel. The concurrency is between connections, which share the transaction
manager and the secrets; between instances, which share the secret configuration; and with the users of the doc, who
share the rows and the catalog.

What makes each correct: a scan delivers only rows that were there, loses none that stayed, ends, and honours its limit;
a pushed filter or limit does not change the answer; a statement tells its user the truth about what Coda accepted, and
ends also when it reads its own writes; the manager holds a transaction only while there is one; the catalog has every
table and column that stayed, once, under names DuckDB can tell apart; the credential of an ATTACH is one for its doc; a
value goes into its own cell and is read from there; what Rust hands over has one owner and no borrowed pointer outlives
its string.
`PROJECT.json` lists under "hazards" where in the code each of these can go wrong.

## Modules

| Module | Models | Checked by | Proved in |
|---|---|---|---|
| `RowStream` | the promise of a scan, without pages, tokens, batches or vectors | through `CodaScan` | |
| `CodaScan` | `ScanHandle` and `RustBridgeScan` against a doc being edited | `scan_limit`, `statement` | `CodaScanProofs` |
| `CodaStatement` | `CodaScan` feeding a sink that writes the same table | `statement` | `CodaScanProofs` |
| `WriteReport` | the promise of a statement that writes, without plans, chunks, requests and transactions | through `CodaDml` | |
| `CodaDml` | planner checks, sinks, requests and the transaction manager | `dml`, `dml_quiet_rollback`, `dml_text_refused` | `CodaDmlProofs` |
| `CodaCatalog` | reading the catalog at ATTACH and the names it ends up with | `catalog`, `catalog_hidden_table` | `CodaCatalogProofs` |
| `CodaCells` | values on their way into cells and back | `cells` | `CodaCellsProofs` |
| `CodaLoad` | LOAD and CREATE SECRET in the instances of a process | `attach`, through `CodaAttach` | `CodaAttachProofs` |
| `CodaAttach` | `resolve_attach` and its secret lookups, over `CodaLoad` | `attach` | `CodaAttachProofs` |
| `CodaPushdown` | what moves from DuckDB's plan into the request | `pushdown` | `CodaPushdownProofs` |
| `CodaOwnership` | who frees what, from ATTACH to DETACH | `ownership` | `CodaOwnershipProofs` |
| `CodaBuffers` | the arrays of a chunk and the pointers into them | `buffers` | `CodaBuffersProofs` |

`CodaStatement` extends `CodaScan`, `CodaAttach` extends `CodaLoad`: the composed module adds its own variables and steps
to those of the other. `CodaScanProofs` is about both scan and statement, for the proofs of the second
rest on the first, see below. The `MC*` modules only hold
the sets that the `.cfg` files name. Operators with a suffix such as `IsLast_ShortPage` are mutant forms: a plausible bug
in the operator that follows them. No specification uses them; `PROJECT.json` pairs each with the property that notices it.

### CodaScan

The server is external: a request with neither token starts a listing, a page token continues it, a sync token asks for
what changed since. `Serve` picks how far a page reaches and whether it shows tombstones; an empty page is possible, and
only progress is required. `Change` is another user's insert, edit or delete, at any moment. A row is a number (its place
in the listing) and a version (the server's clock at its last change).

`SendRequest` is `ScanHandle::request`, `HandleResponse` the body of the loop in `next_batch` (both tokens are replaced,
`finished` decided, deleted rows dropped, and the loop goes round while there is nothing to show). `ScanCall`, `EmitRow`
and `ReturnChunk` are `RustBridgeScan`, one row at a time; `rows` are the rows of the batch from `row_offset` on. `EmitRow`
keeps a detail of the code: once `remaining_rows` reaches 0, `finished` is set but the rest of the batch is still emitted
by the calls that follow. `Close` is the query dropping the scan early.

`Init` is a scan that `RustBridgeScanInitGlobal` did not refuse; in an explicit transaction it does, and nothing is opened.

`exposed`, `stable`, `synced` and `out` are history variables. `SyncFromListing` and `OffersSync` are constants because
the code does not say whether a sync token dates from the first page of a listing or from the page it came with, nor
whether every response has one. The runs take both readings.

`RowStream` is refined under the mapping `outcome`; the other variables of the abstract module are history variables of
the detailed one.

### CodaStatement

`UPDATE t`, `DELETE FROM t` and `INSERT INTO t SELECT .. FROM t` have no operator between scan and sink that would
collect rows first. `Source` is the scan's own steps, which DuckDB takes only when the sink has the vectors before it;
`Write` is the next request of the sink, for one row (`UPDATE`) or for the vector. Coda accepts a write and applies it at
any later moment (`Apply`), also after the statement has ended, or never; what it applies is a `Change` to the scan. The
statement has no condition that its own writes could make false. Whether a request was accepted when it failed, and what
the user is told, is in `CodaDml`.

### CodaDml

A connection goes from `idle` through `sinking` and `sending`, once per chunk, back to `idle`, or to `failed` and
`Rollback`. `Prepare` and `Execute` split planning from running, with `Begin` and `End` in between. A request is accepted
and answered (`NextRequest`, `ChunkDone`), or it fails (`RequestFails`), with or without having been accepted. `accepted`
is a history variable: what Coda has. Rows of a statement are numbered in the order they reach the sink.

`WriteReport` is refined under the mapping `status`, which takes `sinking` and `sending` for one, with `accepted` as what is
written and a vector as the batch. It adds to the invariants what only steps can show: a row is written while its statement
runs and not after it failed, never inside an explicit transaction, and at most a batch at a time; what one
statement has written does not get less; and a statement that ran is reported on once, at its end.

### CodaCatalog

`ListTables` and `ListColumns` each stand for one request and its answer; between any two of them users add, rename and
delete tables and columns. A name is a stem and the numbers behind it: `Task_2` is `[stem |-> "Task", tail |-> <<2>>]`,
which is all that `eq_ignore_ascii_case` and `format!("{base}_{suffix}")` see. `Entries` is the case insensitive map the
schema fills by assignment.

One consequence of the naming rules is worth knowing. In a table with a user column `createdAt`, the metadata column
becomes `createdAt_2`: `append_row_metadata` comes after the user's columns, and `prepare_columns` numbers what comes
later. The names stay distinct (`ColumnNamesDistinct`), but the one the README gives to the metadata is the user's.

### CodaCells

`InsertRows` and `UpdateRows` lay the values of a chunk out in one array, as the C++ client does, and slice and zip it
with the columns, as `insert_body`, `update_rows` and `write_cells` do. `ReadCell` is `scan_value` and
`ScanValueToValue`. `expected` is a history variable: what should be in each cell after its last writer, row by row and
column by column and without arrays.

Two things stand between a written value and the one read later, and the model promises neither away. The requests ask Coda
to parse what they write (`disable_parsing: Some(false)`, `src/mutation.rs:98` and `:134`): `Parsings` are ways for it to
make another JSON value of what it is sent, and every INSERT and UPDATE picks one for each column. And `serde_json` reads
numbers without its feature `float_roundtrip` (`src/Cargo.toml:11`), so that a finite number may come back as its neighbour:
`Reread` says as what a number may be printed after `rows_from_json` has read it, and a scan of the cell may deliver any of
these. So `ReadsWhatWasWritten` does not say that a DOUBLE comes back to its last digit, or a text as it was sent. It
says that what is read from a cell is what Coda made of the value last written to that very cell; that a column which
cannot be written stays as it was; that NULL, nan and the infinities arrive as null, and that the text `null` does not.

### CodaLoad and CodaAttach

A LOAD is five steps (`SetDescription`, `StoreConfig`, `RegisterSecretType`, `RegisterFunction`,
`RegisterStorageExtension`), each of which but `StoreConfig` can end it and leave what came before. `secret_configs` is the one variable
that all instances share. `CreateConfigSecret` may run as soon as the function is registered. ATTACH is `StartAttach`, which
is `resolve_attach` up to the first lookup with its early returns in the code's order (`AfterOptions`), then
`LookupPrimary` and `LookupFallback`; `LookupFails` is an exception of the host. Both lookups use the ATTACH's system
catalog transaction, which is one snapshot (`src/cpp/rust_bridge_storage.cpp:49`). The model allows more, each lookup sees
the secrets of its own moment, and the properties hold all the same. A
scope is a sequence of letters behind `Prefix`, so that one doc id can be a prefix of another: DuckDB matches scopes by
prefix, and a secret for `coda:a` covers `coda:ab`. DuckDB's choice among equally long scopes is left open. `seen` and
`steady` are history variables: the secrets the instance held at some moment, and at every moment, of the ATTACH.

### CodaPushdown

`where` and `order` are the query, `filters` what stays in DuckDB's plan, `bind` the bind data.
`PushdownComplexFilter` may happen any number of times before `SetScanOrder`; `Copy` is `RustBridgeScanBindData::Copy`.
DuckDB's own order and limit stay in the plan, as they do in the code; the pushed limit only ends the scan early. That
`SetScanOrder` pushes nothing while a filter is left is DuckDB's doing: its optimizer hands a limit to a scan only then,
and `RustBridgeScanSetScanOrder` has no test of its own. Coda is
taken to agree with DuckDB on which cells equal a constant that JSON can express.

For the others the model shows what is asked, not what is answered: `x = 'nan'::DOUBLE` is pushed as the query for `null`
(`AsksForNull`), because `build_equality_query` refuses a NULL constant but not one that `value_json` turns into `null`.
The filter is then gone from the plan, so that whatever Coda finds for `null` is the answer, where DuckDB would have
returned no row. `AnswerIsRight` excludes these queries.

### CodaOwnership

The state is a heap (`held`: what each owning C++ object holds, `alive`: what Rust handed over and has not got back). `Adopt`, `Reset`,
`MoveConstruct`, `MoveAssign` and `Destroy` are the members of the four owning classes; an action composes them in the
order in which C++ runs them, temporaries and unwinding included (`ListTablesFails` and `SchemaFails` are exceptions inside
the catalog's constructor, where no destructor of the catalog runs but those of its members do). Addresses are used again
after they are freed. `entries` and `used` are the borrowed pointers.

Calls into Rust that fail leak. `resolve_attach` has allocated strings at each of its early returns
(`src/attach.rs:26`, `:31`, `:49`, `:54`, `:57`), `load_catalog` the tables it has read when a `load_columns` fails
(`src/client.rs:69`), `rows_from_json` the rows before one without an id (`src/json.rs:172`). `ResolveFails`,
`ListTablesFails` and `NextBatchFails` put such allocations into `lost`, from where nothing takes them away
(`LosesSome`). `OneOwner` and `NothingLeft` are about what was handed over to C++, and say nothing of these.

### CodaBuffers

A vector of strings is its size, its capacity, which of its strings are short (kept inside the string object) and from
which ones the borrowed pointer dangles. `PushAndBorrow` beyond the capacity makes all earlier short ones stale. The loops
of `InsertRows`, `UpdateRows` and `DeleteRows` have their own indices, `row_idx` and `col_idx`, which the pushes do not
depend on: `BeginRow` and `PushRowId` enter the inner loop, `PushValue` and `PushUnknownColumn` are its iterations, `EndRow`
leaves it. `values` and `named` record for which cell and which row each push was made, so that what Rust takes for a cell
(`Taken`) can be compared with what was pushed for it. A push left out or made twice shows there: the mutant
`PushUnknownColumn_Continue` passes over a column that the table does not have.

## Runs

| Run | Bounds | Shows |
|---|---|---|
| `scan_limit` | 4 rows, 2 changes, limit 3, pages and vectors of 2, tokens dated per page, sometimes absent | overshoot below one page; the right rows for the limit; no version of a row twice; `RowStream` is implemented; every scan ends |
| `statement` | 3 rows, 1 edit by others besides the statement's writes, pages and vectors of 2, UPDATE, DELETE and INSERT .. SELECT, tokens dated from the listing, always there | delivered rows were live; none that stayed is lost; the sync check brings the changes, copies only of changed rows; a row deleted once is counted once; no own writes within one vector; every row is written; UPDATE and DELETE end |
| `dml` | 2 connections, statements of 0, 1 and 3 rows, chunks of 2 | count and outcome agree with what Coda accepted; `WriteReport` is implemented; no transaction left over; no write inside an explicit transaction |
| `catalog` | 2 tables of 3 columns with 2 edits and pages of any size; every table of up to 4 columns over 6 awkward names; system columns on | nothing that stayed is lost or repeated; a table with a name of its own is found by it; settled column names are distinct |
| `cells` | 2 rows, 2 columns of 4 kinds, an INSERT and 2 further writes, 2 ways for Coda to parse, a number with a neighbour | a scan reads what Coda made of the value last written to that cell |
| `attach` | 1 instance, 2 secret names, 2 tokens, 4 CREATE or DROP, 1 ATTACH of one of 3 paths | no CREATE SECRET misses its configuration; the credential is one for the doc; the doc's secret wins; a secret without a scope is enough |
| `pushdown` | 2 rows, 2 columns, up to 2 filters and an order | every query gets the rows it asks for |
| `ownership` | 2 queries, 8 addresses, 1 allocation lost in a failing call | one owner for each allocation handed over, valid borrowed pointers, all of it given back |
| `buffers` | chunks of up to 3 rows and 2 columns | no dangling pointer; Rust finds the value of each cell and the id of each row in its place |

Why the bounds are enough for the cases of interest: with pages of 2 and 3 or 4 rows there are full, short, empty and
all-deleted pages and a boundary inside the table; vectors of 2 make pages, batches and vectors end together and apart;
a limit of 3 falls inside a page and a vector; two changes can hit one row twice or a row in front of and one behind the
listing's place. In `statement` a table of 3 rows is a full vector and a short one, and of fewer rows a vector before and
after the sync check; `MaxChanges` is 7, so that no write is held back by the bound. Statements of 3 rows in `dml` have a
full chunk and a short one, and every request of both can fail. In `catalog` a table can be renamed or deleted before,
between and after its pages, and four columns suffice for a number given to one column to be taken by a second and met by
a third. In `attach` four changes of secrets can create and replace both names, and drop one, around the two lookups; one
instance is enough for ATTACH, and that instances do not disturb each other's LOAD is proved. Three rows and two columns
exceed a reservation for one row, for one column and for one string less than all. Eight addresses are one more than the
owners of ATTACH and two queries can fill; that one can be lost shows that losses and owners do not meet. All properties of these runs that are not
liveness are proved without these bounds.

Three runs end in a violation, each of a sentence that the repository says about itself:

- `dml_quiet_rollback`: `has_writes` is set only when the client call for a chunk has returned. A statement that fails
  within its first chunk, after some requests were accepted or after an answer was lost, is rolled back without a word.
  The message in `src/exports.rs` says that Coda writes cannot be rolled back after they are sent. What does hold is
  `QuietRollbackLeavesOneChunk`: at most one chunk is left that way.
- `dml_text_refused`: the check for explicit transactions also searches the query text, so an autocommit `INSERT` of a
  text containing "commit" is refused, with the advice to use autocommit.
- `catalog_hidden_table`: of two tables whose names DuckDB takes for one, the later replaces the earlier in `entries`.

Deadlock is not checked in `attach` and `pushdown`: there everything stops when the statements a bound allows are made, or
the one plan is executed. The other modules have a step for what has ended, or go on for ever.

## Fairness

`scan_limit` uses `FairSpec`, weak fairness of the scan's own steps; `statement` uses `FairStatement`, weak fairness of
`Source \/ Write`. DuckDB's executor pulls until the source is exhausted, hands every vector to the sink, and a blocking
HTTP request is answered or fails. Nobody is forced to edit the doc, no request is forced to fail, no query is forced to
stop early, and Coda is not forced to apply a write. The one assumption about the server is that each page is further
along than the one before; without it no client could end. `StatementEnds` leaves `INSERT .. SELECT` out: what it inserts
behind its listing's place it reads again, and only the table's bound would stop it.

## Proofs

The proof modules hold for every value of the constants that meets the `ASSUME`s of the modules. These say no more than
that bounds are natural numbers, positive where the code divides work by them, that values standing for "nothing" are not
among the others, of which kind a set of inputs is, and for `CodaCells` that the text of a BOOLEAN is `true` or `false`,
that of a finite DOUBLE a JSON number, and that a JSON number is read as one and parses as a DOUBLE. Each theorem is `Spec => []P`; where `P` is not inductive, the
invariant behind it is a theorem, too.

**CodaScanProofs.** `TypeCorrect` is inductive by itself once `TypeOK` has the ranges of tokens. `NoLostRow` and
`EmittedWasLive` are not: they speak of the output only, while a row travels from the table through a response and a
batch. `ScanInv` says at each station what is needed: what is in the table, in the response, in the batch and in the
output is exposed (`TableExposed`, `StreamExposed`); a request in flight means the handle is not finished
(`FetchingIsOpen`, `DoneIsFinished`); `remaining_rows` and `out` add up to the limit until it is reached
(`RemainingCounts`); and every stable row is behind the page token, or in the response, the batch or the output
(`NonePassedOver`). From it follow `OnlyLiveRows`, `NothingLost`, and `Implementation`, that every step of the scan is a
step or a stutter of `RowStream`.

*The order of delivery.* That no row comes too often needs the order of delivery. `OrderInv` says that the first `n` rows
of the output come from the listing and the others from the sync check, each part ascending (`Ordered`), that what is in
the batch or still to be asked for lies behind what is delivered (`Ahead`) and is not older (`Newer`), and, when tokens
date from their page, that the sync check starts after everything the listing delivered (`Behind`). Hence
`CopiesAreOfChanged`, `NothingTwice` and, with `NonePassedOver`, `LimitedAnswerIsRight`. `OvershootIsBounded` needs only
that a response and a batch have no more rows than one page (`LimitInv`). `FreshWhenDone` rests on `FreshInv`: during the
listing every row not changed since the token's date is delivered, on its way or still to be listed (`Listing`), and during
the sync check the same holds of every row last changed before it began (`Checking`).

*Statements.* `StatementScans` shows that `StatementSpec` implements `CodaScan`'s `Spec`: a statement's writes
are changes to its scan like any other. All theorems about scans hold for it at once, which gives the first five. The others
need `SinkInv`: only written rows have writes pending, what was there, was left alone and was not written is still there
(`UnwrittenStays`), an empty vector is begun only with the sink in step, and a `DELETE` makes no new versions. From these
follow `AllRowsWritten` and `DeletesCountOnce`; `OwnWritesUnread` needs an invariant of its own, that until the first write
the table is as it was, and after it the scan is finished.

**CodaDmlProofs.** `DmlInv` ties progress, acceptance and count together in each phase (a chunk in `sinking` has accepted
exactly `next_row` rows and counted them; a marked transaction has a finished chunk) and says what the user was told in
`idle`. From it follow `SuccessIsComplete`, `QuietRollbackIsBounded`, `ManagerIsClean`, that each step is a step of
`WriteReport` or a stutter (`StepReports`, `Implementation`), and the action
property `ExplicitTransactionsWriteNothing`.

**CodaAttachProofs.** `AttachInv` adds to the types that a function registered anywhere implies the configuration
(`ConfigFirst`), that between the lookups `steady` is part of what the instance holds and that part of `seen`, and that an
ATTACH at its second lookup had no usable secret of its own at some moment (`OwnMissed`). The four properties follow.

**CodaPushdownProofs.** `NoFilterLost` says that the pushed query and the filters left keep the rows of the query, which is
disturbed by the one step that removes a filter and restored by what it pushes; `LimitBelongs` that a limit is pushed only
with its order and below no filter. `PushdownIsRight` then needs that the first `n` of the first `n` rows are the first `n`.

**CodaOwnershipProofs.** Each operation on the heap keeps `Good` (every allocation handed over has one owner) if the owner
it fills is empty; the invariant says which owners are empty at each stage of ATTACH and of a query.

**CodaBuffersProofs.** `Room` (what is reserved covers all that the loops have yet to push) and `Pushed` (the values
pushed are those of the rows before `row_idx` and, in the inner loop, of the columns before `col_idx`, each in its place)
are inductive together with `BorrowsHold`.

**CodaCatalogProofs.** The two nested listings are followed by the same argument at two levels. `TablesListed` and
`ColumnsListed` say that what was there all the while (`StillThere`: it is still in the doc) is among what is taken or lies
behind the page token, and `TablesInOrder` that what is taken comes in the order of its ids, so that nothing comes twice.
A table is `Whole` when its last column page is in, and stays so; `NothingLeftOver` says that no page of one table's columns
is carried over to the next table. From these follows `CatalogComplete`. `TablesFound` needs what the tables were called:
an entry of the case insensitive map is the last table of its name (`EntriesFindTheLast`), and every name taken was the
table's at some moment (`NamesWereHeld`).

`NamesDistinct` is about one step, `prepare_columns`, and its loop over numbers. Candidates `base`, `base_2`, `base_3` and so
on differ from each other under `Fold`, so of as many as there are columns and one more, one is not taken
(`FreeNameIsFree`). A column takes the first such, so its name differs from all before it, which by induction over the
columns makes all of them differ (`PreparedColumns`).

**CodaCellsProofs.** `CellIsMeant` and `CellIsSeen` are about one cell: `Convert` and `input_value_json` send the JSON value
that stands for a value of the column, and `scan_value` and `ScanValueToValue` read from a JSON value what `Seen` says.
`SlicesAreRows` is about the array: rows of one width, laid one behind the other, are where `insert_body` and `update_rows`
slice them out. `PutCells` puts what Coda makes of them into their columns. The property is not inductive, since a reader
cannot tell all cells apart; `CellsInv` says instead that each cell is what its last writer was to leave there.

The proof modules of the catalog and of the cells contain induction over numbers. The library states it for an operator,
which the provers cannot instantiate; `SetInduction` states it for a set of numbers, from the library's
`NatLessThanWellFounded`, and `Recursion` has for recursive functions what follows: one that meets its equations exists.
`PageRecursion`, `PrepareRecursion` and `FlattenRecursion` apply it to a page, to `prepare_columns` and to `FlattenSeq`.

Only model-checked: the liveness properties `Terminates` and `StatementEnds`, since fairness and `ENABLED` are out of the
prover's reach, and that the three sentences of the runs that end in a violation are violated. Every other property of every
run is a theorem.

## What is not modelled

- What Coda takes for equal, how it sorts, and when it applies an accepted write. The first two are a parameter and an
  assumption of `CodaPushdown`, the third is left open in `CodaStatement`. The scan is modelled over the rows that match,
  in listing order.
- Types and capabilities of columns beyond the sets that `CodaPushdown`, `CodaDml` and `CodaCells` take as constants; the
  values of system columns, which are read from the row itself; columns whose ids differ in case only.
- The catalog as it ages: it is read at ATTACH and never again. Ids, not names, go into requests, so nothing is addressed
  wrongly; new columns are invisible and deleted ones fail in the request.
- DDL: every operation is rejected and changes nothing. Storage information, EXPLAIN output and virtual columns are
  constant or keep no state. Endpoint normalisation in `src/attach.rs`, and HTTP status texts, are formatting.
- Allocations that begin and end inside one call into Rust. What a failing call leaks is in `CodaOwnership`, but not how
  many single strings it is.
- The refusal of a scan in an explicit transaction (`RustBridgeScanInitGlobal`): such a scan never begins.
- Which error wins when several things fail in one step; the models say that a step failed and what it left behind.

What would come next, were the models to grow: system columns in `CodaCells`, and the values of a chunk in `CodaDml`.
