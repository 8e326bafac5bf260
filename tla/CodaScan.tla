------------------------------ MODULE CodaScan ------------------------------
(***************************************************************************)
(* A scan of one attached Coda table: DuckDB's pull loop (RustBridgeScan   *)
(* in src/cpp/rust_bridge_scan.cpp) over the Rust ScanHandle               *)
(* (src/client.rs), against a doc that other users edit meanwhile.         *)
(*                                                                         *)
(* The Coda server is outside the repository.  It is modelled from how the *)
(* code uses it: a request with neither token starts a listing, a page     *)
(* token continues one, a sync token starts a listing of what changed (and *)
(* what was deleted) since the token was issued.  A page is read when it   *)
(* is served; there is no snapshot across pages.                           *)
(*                                                                         *)
(* Rows are numbered in listing order.  A row's version is the value of    *)
(* the server's clock at its last change; cells carry nothing else that a  *)
(* property tells apart.  A filter pushed into the request only restricts  *)
(* Rows to the rows that match it.                                         *)
(***************************************************************************)
EXTENDS Naturals, Sequences, FiniteSets

CONSTANTS
    NRows,          \* rows the table can hold over the scan: a bound
    MaxChanges,     \* changes other users make during the scan: a bound
    PageCap,        \* most rows one request asks for: 500 in the code
    VectorSize,     \* rows of one output vector: STANDARD_VECTOR_SIZE
    PushedLimit,    \* bind_data.pushed_limit: 0 when no limit was pushed
    SyncFromListing,\* does a sync token date from the listing's first page?
    OffersSync,     \* may / must a response carry a sync token?
    NoToken         \* an empty page token or sync token

Rows == 1..NRows

ASSUME ScanAssumption ==
    /\ NRows \in Nat \ {0}
    /\ MaxChanges \in Nat
    /\ PageCap \in Nat \ {0}
    /\ VectorSize \in Nat \ {0}
    /\ PushedLimit \in Nat
    /\ SyncFromListing \in BOOLEAN
    /\ OffersSync \subseteq BOOLEAN /\ OffersSync # {}

ASSUME NoTokenAssumption ==
    /\ NoToken \notin Nat
    /\ NoToken \notin [kind : {"list", "delta"}, after : Nat, since : Nat]

VARIABLES
    live,           \* server: is the row in the table?
    stamp,          \* server: clock value of the row's last change
    clock,          \* server: changes so far
    exposed,        \* history: row versions in the table since the scan opened
    stable,         \* history: rows in the table during the whole scan so far
    synced,         \* history: clock when the changes listing began, or NoToken
    next_page_token, next_sync_token, sync_check_done, finished, \* ScanHandle
    request,        \* the request in flight
    response,       \* its response
    rows,           \* the batch's rows from row_offset on
    scan_finished,  \* RustBridgeScanGlobalState::finished
    remaining_rows, \* RustBridgeScanGlobalState::remaining_rows
    out_row,        \* rows in the output vector being filled
    out,            \* history: the versions put into output vectors, in order
    phase           \* where the scan is

server  == <<live, stamp, clock, exposed, stable>>
handle  == <<next_page_token, next_sync_token, sync_check_done, finished>>
wire    == <<request, response, synced>>
vectors == <<rows, scan_finished, remaining_rows, out_row, out>>
vars    == <<server, handle, wire, vectors, phase>>

Version   == [id : Rows, stamp : Nat]
PageToken == [kind : {"list", "delta"}, after : 0..NRows, since : Nat]
Request   == [page : PageToken \cup {NoToken}, sync : Nat \cup {NoToken}]
Response  == [entries : SUBSET [id : Rows, stamp : Nat, deleted : BOOLEAN],
              page : PageToken \cup {NoToken}, sync : Nat \cup {NoToken}]
Ended     == {"done", "failed", "closed"}
Phases    == {"idle", "filling", "requesting", "sent", "served"} \cup Ended

NoRequest  == [page |-> NoToken, sync |-> NoToken]
NoResponse == [entries |-> {}, page |-> NoToken, sync |-> NoToken]

\* The page size of every request: computed when the scan is opened and capped
\* again by ScanHandle::new.
PageLimit == IF PushedLimit = 0 \/ PushedLimit > PageCap THEN PageCap ELSE PushedLimit

Delivered == {out[i].id : i \in DOMAIN out}

LimitReached == PushedLimit > 0 /\ Len(out) >= PushedLimit
-----------------------------------------------------------------------------
(* The scan is opened on whatever the table holds at that moment.  In an   *)
(* explicit transaction it is refused and never opened                     *)
(* (rust_bridge_scan.cpp:58-60); no property is about that, and it is left *)
(* out.                                                                    *)
Init ==
    /\ live \in [Rows -> BOOLEAN]
    /\ stamp = [r \in Rows |-> 0]
    /\ clock = 0
    /\ exposed = {v \in [id : Rows, stamp : {0}] : live[v.id]}
    /\ stable = {r \in Rows : live[r]}
    /\ synced = NoToken
    /\ next_page_token = NoToken
    /\ next_sync_token = NoToken
    /\ sync_check_done = FALSE
    /\ finished = FALSE
    /\ request = NoRequest
    /\ response = NoResponse
    /\ rows = {}
    /\ scan_finished = FALSE
    /\ remaining_rows = PushedLimit
    /\ out_row = 0
    /\ out = <<>>
    /\ phase = "idle"
-----------------------------------------------------------------------------
(* The server (external).                                                  *)

\* Another user inserts or edits a row (alive) or deletes one.
Change(r, alive) ==
    /\ phase \notin Ended
    /\ clock < MaxChanges
    /\ live[r] \/ alive
    /\ clock' = clock + 1
    /\ live' = [live EXCEPT ![r] = alive]
    /\ stamp' = [stamp EXCEPT ![r] = clock + 1]
    /\ exposed' = IF alive THEN exposed \cup {[id |-> r, stamp |-> clock + 1]} ELSE exposed
    /\ stable' = IF alive THEN stable ELSE stable \ {r}
    /\ UNCHANGED <<handle, wire, vectors, phase>>

\* The position a request starts from.
Position(q) ==
    IF q.page # NoToken THEN q.page
    ELSE IF q.sync # NoToken THEN [kind |-> "delta", after |-> 0, since |-> q.sync]
    ELSE [kind |-> "list", after |-> 0, since |-> clock]

\* The rows from a position up to and including row upto: in a listing the
\* table's rows, with or without those already deleted; in a listing of
\* changes every row changed since the token, deleted ones included.
Page(t, upto, tombstones) ==
    {r \in Rows : /\ t.after < r /\ r <= upto
                  /\ IF t.kind = "list" THEN live[r] \/ (tombstones /\ stamp[r] > 0)
                                        ELSE stamp[r] > t.since}

Entry(r) == [id |-> r, stamp |-> stamp[r], deleted |-> ~live[r]]

SyncToken(t) == IF t.kind = "list" /\ SyncFromListing THEN t.since ELSE clock

\* One page is served: at most the requested number of rows, possibly none,
\* and always further along than the page before.
Serve ==
    LET t == Position(request) IN
    /\ phase = "sent"
    /\ \E upto \in (t.after + 1)..(NRows + 1), tombstones \in BOOLEAN, offered \in OffersSync :
        /\ Cardinality(Page(t, upto, tombstones)) <= PageLimit
        /\ response' = [entries |-> {Entry(r) : r \in Page(t, upto, tombstones)},
                        page |-> IF upto > NRows THEN NoToken ELSE [t EXCEPT !.after = upto],
                        sync |-> IF offered THEN SyncToken(t) ELSE NoToken]
    /\ synced' = IF t.kind = "delta" /\ t.after = 0 THEN clock ELSE synced
    /\ phase' = "served"
    /\ UNCHANGED <<server, handle, request, vectors>>

\* No usable answer: transport error, unexpected status, body that does not
\* parse.  The error reaches DuckDB as an exception and the query fails.
Fail ==
    /\ phase = "sent"
    /\ phase' = "failed"
    /\ UNCHANGED <<server, handle, wire, vectors>>
-----------------------------------------------------------------------------
(* ScanHandle (Rust).                                                      *)

AsksSync ==
    /\ next_page_token = NoToken
    /\ next_sync_token # NoToken
    /\ ~sync_check_done

\* RustBridgeScan needs a row and has none: NextScanBatch.
NeedsBatch ==
    /\ phase = "filling"
    /\ out_row < VectorSize
    /\ rows = {}
    /\ ~scan_finished

\* ScanHandle::request, from NextScanBatch or from next_batch's own loop.
SendRequest ==
    /\ NeedsBatch \/ phase = "requesting"
    /\ request' = [page |-> next_page_token,
                   sync |-> IF AsksSync THEN next_sync_token ELSE NoToken]
    /\ sync_check_done' = (sync_check_done \/ AsksSync)
    /\ phase' = "sent"
    /\ UNCHANGED <<server, next_page_token, next_sync_token, finished, response, synced, vectors>>

\* Mutant forms of IsLast: the sync check is forgotten; a fresh sync token keeps
\* the scan alive after the check; a page that is not full is taken for the last.
IsLast_Unsynced(r)  == r.page = NoToken
IsLast_Resync(r)    == r.page = NoToken /\ r.sync = NoToken
IsLast_ShortPage(r) == Cardinality(r.entries) < PageLimit

\* The listing is over, and there is no sync check left to do.
IsLast(r) == r.page = NoToken /\ (r.sync = NoToken \/ sync_check_done)

\* Mutant form of Visible: deleted rows are not dropped.
Visible_Deleted(entries) == {[id |-> e.id, stamp |-> e.stamp] : e \in entries}

Visible(entries) ==
    {[id |-> e.id, stamp |-> e.stamp] : e \in {d \in entries : ~d.deleted}}

\* next_batch after list_rows: take over both tokens, decide whether this was
\* the last response, drop deleted rows; go on asking while there is nothing to
\* show and more to come, else hand the batch to RustBridgeScan.
HandleResponse ==
    /\ phase = "served"
    /\ next_page_token' = response.page
    /\ next_sync_token' = response.sync
    /\ finished' = IsLast(response)
    /\ IF Visible(response.entries) # {} \/ finished'
       THEN /\ rows' = Visible(response.entries)
            /\ scan_finished' = finished'
            /\ phase' = "filling"
       ELSE /\ phase' = "requesting"
            /\ UNCHANGED <<rows, scan_finished>>
    /\ response' = NoResponse
    /\ UNCHANGED <<server, sync_check_done, request, synced, remaining_rows, out_row, out>>
-----------------------------------------------------------------------------
(* RustBridgeScan (C++).                                                   *)

\* DuckDB asks for the next vector.
ScanCall ==
    /\ phase = "idle"
    /\ phase' = IF scan_finished /\ rows = {} THEN "done" ELSE "filling"
    /\ out_row' = 0
    /\ UNCHANGED <<server, handle, wire, rows, scan_finished, remaining_rows, out>>

\* Mutant forms of HitsLimit: without the test that a limit was pushed at all;
\* with the counter compared before it is decremented.
HitsLimit_Unset == remaining_rows <= 1
HitsLimit_Late  == remaining_rows > 0 /\ remaining_rows = 0

\* Was this row the last one the pushed limit asked for?
HitsLimit == remaining_rows = 1

\* Mutant form of Countdown: without the test, the counter passes below zero.
Countdown_Wraps == remaining_rows - 1

Countdown == IF remaining_rows > 0 THEN remaining_rows - 1 ELSE 0

\* Whatever was asked for, the rest of the batch stays in state.rows: only an
\* empty batch makes the next call return at once.
EmitRow ==
    /\ phase = "filling"
    /\ out_row < VectorSize
    /\ \E v \in rows :
        /\ \A w \in rows : v.id <= w.id
        /\ rows' = rows \ {v}
        /\ out' = Append(out, v)
    /\ out_row' = out_row + 1
    /\ remaining_rows' = Countdown
    /\ scan_finished' = (scan_finished \/ HitsLimit)
    /\ phase' = IF HitsLimit THEN "idle" ELSE "filling"
    /\ UNCHANGED <<server, handle, wire>>

\* Mutant form: each batch is returned as a vector of its own.
ReturnChunk_PerBatch ==
    /\ phase = "filling"
    /\ out_row = VectorSize \/ (rows = {} /\ (scan_finished \/ out_row > 0))
    /\ phase' = IF out_row = 0 THEN "done" ELSE "idle"
    /\ UNCHANGED <<server, handle, wire, vectors>>

\* The vector is full, or there are no more rows.  DuckDB takes an empty vector
\* as the end of the scan.
ReturnChunk ==
    /\ phase = "filling"
    /\ out_row = VectorSize \/ (rows = {} /\ scan_finished)
    /\ phase' = IF out_row = 0 THEN "done" ELSE "idle"
    /\ UNCHANGED <<server, handle, wire, vectors>>

\* The query above needs no more rows and drops the scan: rust_ext_scan_close.
Close ==
    /\ phase = "idle"
    /\ phase' = "closed"
    /\ UNCHANGED <<server, handle, wire, vectors>>
-----------------------------------------------------------------------------
Scan == ScanCall \/ EmitRow \/ ReturnChunk \/ SendRequest \/ Serve \/ HandleResponse

\* A scan that has ended stays ended.
Over == phase \in Ended /\ UNCHANGED vars

Next ==
    \/ \E r \in Rows, alive \in BOOLEAN : Change(r, alive)
    \/ Scan
    \/ Fail
    \/ Close
    \/ Over

Spec == Init /\ [][Next]_vars

\* DuckDB's executor keeps pulling until the source is exhausted, and every
\* request is answered; nothing forces other users to edit, a request to fail
\* or the query to stop early.
FairSpec == Spec /\ WF_vars(Scan)
-----------------------------------------------------------------------------
(* Properties.                                                             *)

TypeOK ==
    /\ live \in [Rows -> BOOLEAN]
    /\ stamp \in [Rows -> Nat]
    /\ clock \in Nat
    /\ exposed \subseteq Version
    /\ stable \subseteq Rows
    /\ synced \in Nat \cup {NoToken}
    /\ next_page_token \in PageToken \cup {NoToken}
    /\ next_sync_token \in Nat \cup {NoToken}
    /\ sync_check_done \in BOOLEAN
    /\ finished \in BOOLEAN
    /\ request \in Request
    /\ response \in Response
    /\ rows \subseteq Version
    /\ scan_finished \in BOOLEAN
    /\ remaining_rows \in Nat
    /\ out_row \in 0..VectorSize
    /\ out \in Seq(Version)
    /\ phase \in Phases

\* Every version the scan delivers was in the table at some moment since the scan
\* opened, whatever pages, tombstones and changes came between (next_batch drops
\* deleted rows from listings and from the sync check alike).
EmittedWasLive == \A i \in DOMAIN out : out[i] \in exposed

\* A scan that ends normally has delivered every row that stayed in the table
\* while it ran, unless it delivered as many rows as the pushed limit asked for:
\* no page is skipped, no empty or all-deleted page ends the scan, no batch is
\* dropped between the Rust handle and the output vectors.
NoLostRow == phase = "done" => stable \subseteq Delivered \/ LimitReached

\* The sync check does what it is for: when every response carries a sync token
\* that dates from the listing's first page, a scan that ends normally (and not
\* by its limit) has made the check and has delivered the current version of
\* every row last changed before the check began, however the listing's pages
\* interleaved with the changes.
FreshAtSync ==
    phase = "done" /\ ~LimitReached /\ SyncFromListing /\ OffersSync = {TRUE} =>
        /\ synced # NoToken
        /\ \A r \in Rows : live[r] /\ stamp[r] <= synced =>
               \E i \in DOMAIN out : out[i] = [id |-> r, stamp |-> stamp[r]]

\* The sync check repeats rows, but only rows changed since the scan opened, at
\* most once each, and never an older version after a newer one: also when the
\* rows change because the statement that scans them writes them (client.rs:155-191).
CopiesOnlyOfChanged ==
    \A i, j \in DOMAIN out : i < j /\ out[i].id = out[j].id =>
        /\ out[j].stamp > 0
        /\ out[i].stamp <= out[j].stamp
        /\ \A k \in DOMAIN out : out[k].id = out[i].id => k \in {i, j}

\* When the sync token dates from the page it came with, the check never
\* delivers the same version of a row a second time.
NoVersionTwice ==
    ~SyncFromListing => \A i, j \in DOMAIN out : out[i] = out[j] => i = j

\* The pushed limit bounds the scan, though not exactly: RustBridgeScan goes on to
\* emit what is left of the batch in which remaining_rows reached zero, and the
\* excess is always less than one page.
BoundedOvershoot == PushedLimit > 0 => Len(out) < PushedLimit + PageLimit

\* A query that pushed a limit gets the right rows: if nobody edits the table, a
\* scan that ends normally has delivered a prefix of the table in listing order,
\* with as many rows as were asked for or else the whole table.
LimitedAnswer ==
    phase = "done" /\ clock = 0 =>
        /\ \A r \in stable, d \in Delivered : r < d => r \in Delivered
        /\ LimitReached \/ Delivered = stable

\* Every scan ends, if requests are answered and DuckDB keeps pulling: no
\* sequence of empty pages, sync tokens and vector boundaries makes it go round.
Terminates == <>(phase \in Ended)

\* The scan implements the promise of RowStream.
outcome == IF phase = "done" THEN "done"
           ELSE IF phase \in Ended THEN "stopped" ELSE "open"

Stream == INSTANCE RowStream WITH
    Rows <- Rows, PushedLimit <- PushedLimit,
    exposed <- exposed, stable <- stable, out <- out, outcome <- outcome

\* Pages, tokens, sync check, batches and vectors together keep the promise that
\* RowStream states without any of them.
ImplementsRowStream == Stream!Spec
=============================================================================
