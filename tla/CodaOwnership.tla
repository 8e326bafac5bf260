--------------------------- MODULE CodaOwnership ---------------------------
(***************************************************************************)
(* Who frees what: allocations made in Rust (an attach config, a catalog,  *)
(* a scan handle, a batch of rows), the four C++ classes that own them     *)
(* (src/include/rust_bridge_client.hpp) and the pointers borrowed from     *)
(* them, from ATTACH through the scans of several queries to DETACH.       *)
(*                                                                         *)
(* The owners are C++ objects: locals, temporaries and members.  They hold *)
(* an allocation or nothing; moving and destroying them are operators on   *)
(* the heap, composed in the order in which C++ runs them.  An address     *)
(* that was freed may be given out again, so a second free may hit another *)
(* allocation: the properties look at who holds what, not for a fault.     *)
(*                                                                         *)
(* What a call into Rust makes and does not hand over because it fails is  *)
(* lost: the string allocations of resolve_attach and the tables of        *)
(* load_catalog are raw pointers, which an early return does not free.     *)
(* C++ never learns of them; the properties are about what it was given.   *)
(*                                                                         *)
(* DuckDB (external) destroys a catalog only when no query uses it.        *)
(***************************************************************************)
EXTENDS Naturals, FiniteSets

CONSTANTS
    Addresses,      \* where Rust may allocate: a bound
    Queries,        \* queries that scan the attached database
    MaxLost,        \* allocations lost in calls that fail: a bound
    Null            \* no allocation

ASSUME OwnershipAssumption ==
    Null \notin Addresses /\ Null \notin Queries /\ MaxLost \in Nat

\* The owners: those of ATTACH and the database, and those of each query.
Owners == ({"config", "attach_config_p", "attach_config", "response", "catalog_info"} \X {Null})
          \cup ({"opened", "scan", "next", "rows"} \X Queries)

config          == <<"config", Null>>
attach_config_p == <<"attach_config_p", Null>>
attach_config   == <<"attach_config", Null>>
response        == <<"response", Null>>
catalog_info    == <<"catalog_info", Null>>

VARIABLES
    held,           \* what each owner holds
    alive,          \* allocations handed over to C++ that Rust has not got back
    lost,           \* allocations of calls that failed: neither handed over nor freed
    attach,         \* where ATTACH is
    query,          \* what each query is doing
    entries,        \* borrowed: the catalog the table entries point into
    used            \* borrowed: config and catalog that each query points into

vars == <<held, alive, lost, attach, query, entries, used>>

Attaches == {"detached", "resolved", "constructing", "loaded", "attached"}
Places   == {"none", "open"}

TypeOK ==
    /\ held \in [Owners -> Addresses \cup {Null}]
    /\ alive \subseteq Addresses /\ lost \subseteq Addresses
    /\ attach \in Attaches
    /\ query \in [Queries -> Places]
    /\ entries \in Addresses \cup {Null}
    /\ held[config] # Null => attach = "resolved"
    /\ used \in [Queries -> (Addresses \cup {Null}) \X (Addresses \cup {Null})]

Init ==
    /\ held = [w \in Owners |-> Null]
    /\ alive = {} /\ lost = {}
    /\ attach = "detached"
    /\ query = [q \in Queries |-> "none"]
    /\ entries = Null
    /\ used = [q \in Queries |-> <<Null, Null>>]

\* Where Rust may allocate.
Free == Addresses \ (alive \cup lost)

\* A call into Rust fails: some of what it has made so far, or nothing, is lost.
LosesSome ==
    \E made \in SUBSET Free :
        /\ Cardinality(lost \cup made) <= MaxLost
        /\ lost' = lost \cup made
-----------------------------------------------------------------------------
(* The operations of the owning classes, on a heap [held, alive].          *)

Heap == [held |-> held, alive |-> alive]
Becomes(heap) == held' = heap.held /\ alive' = heap.alive

\* explicit RustBridgeX(x): what Rust just allocated gets its owner.
Adopt(heap, w, a) ==
    [held |-> [heap.held EXCEPT ![w] = a], alive |-> heap.alive \cup {a}]

\* Reset: the free functions of Rust take an empty struct, too.
Reset(heap, w) ==
    [held |-> [heap.held EXCEPT ![w] = Null], alive |-> heap.alive \ {heap.held[w]}]

\* RustBridgeX(RustBridgeX &&other)
\* Mutant form: other keeps what it gave away.
MoveConstruct_Keeps(heap, w, other) == [heap EXCEPT !.held = [@ EXCEPT ![w] = heap.held[other]]]
MoveConstruct(heap, w, other) ==
    [heap EXCEPT !.held = [@ EXCEPT ![w] = heap.held[other], ![other] = Null]]

\* operator=(RustBridgeX &&other), of two objects.
\* Mutant form: what the object owned is forgotten, not freed.
MoveAssign_NoReset(heap, w, other) == MoveConstruct(heap, w, other)
MoveAssign(heap, w, other) == MoveConstruct(Reset(heap, w), w, other)

\* ~RustBridgeX: Reset, and the object is gone.
Destroy(heap, w) == Reset(heap, w)
-----------------------------------------------------------------------------
(* ATTACH: ResolveAttachConfig, the constructor of RustBridgeCatalog, and   *)
(* what unwinding destroys when it throws.                                 *)

Resolve ==
    /\ attach = "detached"
    /\ \E a \in Free : Becomes(Adopt(Heap, config, a))
    /\ attach' = "resolved"
    /\ UNCHANGED <<lost, query, entries, used>>

\* No doc id, an option that is no boolean, a failing lookup or no credential: the
\* strings of the options and of the result stay.
ResolveFails ==
    /\ attach = "detached"
    /\ LosesSome
    /\ UNCHANGED <<held, alive, attach, query, entries, used>>

\* std::move(config) into the parameter, and from there into the member.
StartCatalog ==
    /\ attach = "resolved"
    /\ Becomes(MoveConstruct(MoveConstruct(Heap, attach_config_p, config),
                             attach_config, attach_config_p))
    /\ attach' = "constructing"
    /\ UNCHANGED <<lost, query, entries, used>>

\* Mutant form: the config is a plain struct in the catalog, freed by ~RustBridgeCatalog.
Unwound_PlainConfig(heap) ==
    Destroy(Destroy(Destroy(heap, catalog_info), attach_config_p), config)
Unwound(heap) ==
    Destroy(Destroy(Destroy(Destroy(heap, catalog_info), attach_config),
                    attach_config_p), config)

\* ListTables throws, after load_catalog has lost the tables of the pages it had
\* read: the members built so far and the locals are destroyed.
ListTablesFails ==
    /\ attach = "constructing"
    /\ LosesSome
    /\ Becomes(Unwound(Heap))
    /\ attach' = "detached"
    /\ UNCHANGED <<query, entries, used>>

\* catalog_info = client.ListTables(..)
ListTables ==
    /\ attach = "constructing"
    /\ \E a \in Free :
        Becomes(Destroy(MoveAssign(Adopt(Heap, response, a), catalog_info, response),
                        response))
    /\ attach' = "loaded"
    /\ UNCHANGED <<lost, query, entries, used>>

\* RustBridgeSchemaCatalogEntry throws while it makes the table entries.
SchemaFails ==
    /\ attach = "loaded"
    /\ Becomes(Unwound(Heap))
    /\ attach' = "detached"
    /\ UNCHANGED <<lost, query, entries, used>>

\* The entries borrow from catalog_info; the parameter and the local go.
Schema ==
    /\ attach = "loaded"
    /\ entries' = held[catalog_info]
    /\ Becomes(Destroy(Destroy(Heap, attach_config_p), config))
    /\ attach' = "attached"
    /\ UNCHANGED <<lost, query, used>>

\* ~RustBridgeCatalog: the schema and its entries, the catalog, the config.
Detach ==
    /\ attach = "attached"
    /\ \A q \in Queries : query[q] = "none"
    /\ entries' = Null
    /\ Becomes(Destroy(Destroy(Heap, catalog_info), attach_config))
    /\ attach' = "detached"
    /\ UNCHANGED <<lost, query, used>>
-----------------------------------------------------------------------------
(* A query: RustBridgeScanGlobalState, from its constructor to destruction. *)

\* The client copies the config's pointers, the scan handle keeps them, and the
\* table info points into the catalog.
\* scan = client.OpenScan(..)
\* Mutant form: each scan loads the catalog anew first, to see later columns.
OpenScan_Reloads(q) ==
    /\ attach = "attached" /\ query[q] = "none"
    /\ \E a, b \in Free :
        /\ a # b
        /\ entries' = b
        /\ Becomes(MoveAssign(Adopt(MoveAssign(Adopt(Heap, response, b), catalog_info, response),
                                    <<"opened", q>>, a), <<"scan", q>>, <<"opened", q>>))
        /\ used' = [used EXCEPT ![q] = <<held[attach_config], b>>]
    /\ query' = [query EXCEPT ![q] = "open"]
    /\ UNCHANGED <<lost, attach>>
OpenScan(q) ==
    /\ attach = "attached" /\ query[q] = "none"
    /\ \E a \in Free :
        Becomes(Destroy(MoveAssign(Adopt(Heap, <<"opened", q>>, a), <<"scan", q>>, <<"opened", q>>),
                        <<"opened", q>>))
    /\ used' = [used EXCEPT ![q] = <<held[attach_config], entries>>]
    /\ query' = [query EXCEPT ![q] = "open"]
    /\ UNCHANGED <<lost, attach, entries>>

\* auto response = NextScanBatch(..); rows = std::move(response)
NextBatch(q) ==
    /\ query[q] = "open"
    /\ \E a \in Free :
        Becomes(Destroy(MoveAssign(Adopt(Heap, <<"next", q>>, a), <<"rows", q>>, <<"next", q>>),
                        <<"next", q>>))
    /\ UNCHANGED <<lost, attach, query, entries, used>>

\* rust_ext_scan_next fails: a row without an id loses the rows before it; what the
\* query held it still holds.
NextBatchFails(q) ==
    /\ query[q] = "open"
    /\ LosesSome
    /\ UNCHANGED <<held, alive, attach, query, entries, used>>

\* The state is destroyed at the end of the query, and also when a call of it
\* has thrown: rows first, then scan.
CloseScan(q) ==
    /\ query[q] = "open"
    /\ Becomes(Destroy(Destroy(Heap, <<"rows", q>>), <<"scan", q>>))
    /\ used' = [used EXCEPT ![q] = <<Null, Null>>]
    /\ query' = [query EXCEPT ![q] = "none"]
    /\ UNCHANGED <<lost, attach, entries>>

Next ==
    \/ Resolve \/ ResolveFails \/ StartCatalog
    \/ ListTables \/ ListTablesFails \/ Schema \/ SchemaFails \/ Detach
    \/ \E q \in Queries : OpenScan(q) \/ NextBatch(q) \/ NextBatchFails(q) \/ CloseScan(q)

Spec == Init /\ [][Next]_vars
-----------------------------------------------------------------------------
(* Properties.                                                             *)

\* What Rust has handed over to C++ has exactly one owner: none of it leaks, and
\* none is freed twice or while another still holds it, however objects are moved
\* and whichever call throws (rust_bridge_client.hpp:106-282).  It says nothing of
\* what a failing call makes and keeps to itself: that does leak.
OneOwner ==
    /\ alive = {held[w] : w \in Owners} \ {Null}
    /\ \A v, w \in Owners : held[v] = held[w] /\ held[v] # Null => v = w

\* A query's pointers into the config and the catalog point at what the database
\* still owns, for as long as the query runs; scan handles keep the config's
\* pointers, not copies (client.rs:118-137, rust_bridge_scan.cpp:24-39).
BorrowsAreValid ==
    \A q \in Queries : query[q] = "open" =>
        /\ used[q] = <<held[attach_config], held[catalog_info]>>
        /\ Null \notin {held[attach_config], held[catalog_info]}

\* After DETACH, or an ATTACH that failed in any of its steps, Rust has back all
\* that it handed over to C++ for the database and its queries.  What stays
\* allocated was lost inside a call that failed (attach.rs:26, 31, 49, 54, 57,
\* client.rs:69, json.rs:172).
NothingLeft == attach = "detached" => alive = {}
=============================================================================
