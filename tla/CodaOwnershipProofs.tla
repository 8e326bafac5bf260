------------------------- MODULE CodaOwnershipProofs -------------------------
(***************************************************************************)
(* Proofs about CodaOwnership, for any addresses and any queries: the      *)
(* operations of the owning classes keep a heap in which every allocation  *)
(* has one owner, and with it every step of ATTACH, of a query and of      *)
(* DETACH does.                                                            *)
(***************************************************************************)
EXTENDS CodaOwnership, TLAPS

(* The operations on a heap.                                               *)

HeapType == [held : [Owners -> Addresses \cup {Null}], alive : SUBSET Addresses]

\* OneOwner, of a heap.
Good(heap) ==
    /\ heap \in HeapType
    /\ \A w \in Owners : heap.held[w] # Null => heap.held[w] \in heap.alive
    /\ \A a \in heap.alive : \E w \in Owners : heap.held[w] = a
    /\ \A v, w \in Owners : heap.held[v] = heap.held[w] /\ heap.held[v] # Null => v = w

\* The heap after an operation holds x where it says so, and is otherwise unchanged.
Put(before, after, w, x) ==
    after = [v \in Owners |-> IF v = w THEN x ELSE before[v]]

LEMMA AdoptGood ==
    ASSUME NEW heap, Good(heap), NEW w \in Owners, NEW a \in Addresses \ heap.alive,
           heap.held[w] = Null
    PROVE  /\ Good(Adopt(heap, w, a))
           /\ Put(heap.held, Adopt(heap, w, a).held, w, a)
<1> DEFINE after == Adopt(heap, w, a)
<1>1. after.held = [heap.held EXCEPT ![w] = a] /\ after.alive = heap.alive \cup {a}
  BY DEF Adopt
<1>2. after \in HeapType
  BY <1>1 DEF Adopt, Good, HeapType
<1>3. Put(heap.held, after.held, w, a)
  BY <1>1 DEF Put, Good, HeapType
<1>4. \A v \in Owners : after.held[v] = IF v = w THEN a ELSE heap.held[v]
  BY <1>3 DEF Put
<1>5. \A v \in Owners : v # w /\ heap.held[v] # Null => heap.held[v] # a
  BY DEF Good
<1>6. a # Null
  BY OwnershipAssumption
<1>7. \A b \in after.alive : \E v \in Owners : after.held[v] = b
  <2> SUFFICES ASSUME NEW b \in after.alive PROVE \E v \in Owners : after.held[v] = b
    OBVIOUS
  <2>1. CASE b = a
    BY <1>4, <2>1
  <2>2. CASE b # a
    <3>1. PICK v \in Owners : heap.held[v] = b
      BY <1>1, <2>2 DEF Good
    <3>2. v # w
      BY <3>1, <1>1, <2>2, OwnershipAssumption DEF Good, HeapType
    <3>3. QED
      BY <1>4, <3>1, <3>2
  <2>3. QED
    BY <2>1, <2>2
<1>8. QED
  BY <1>1, <1>2, <1>3, <1>4, <1>5, <1>6, <1>7 DEF Good

LEMMA ResetGood ==
    ASSUME NEW heap, Good(heap), NEW w \in Owners
    PROVE  /\ Good(Reset(heap, w))
           /\ Put(heap.held, Reset(heap, w).held, w, Null)
<1> DEFINE after == Reset(heap, w)
<1>1. after.held = [heap.held EXCEPT ![w] = Null] /\ after.alive = heap.alive \ {heap.held[w]}
  BY DEF Reset
<1>2. after \in HeapType
  BY <1>1 DEF Reset, Good, HeapType
<1>3. Put(heap.held, after.held, w, Null)
  BY <1>1 DEF Put, Good, HeapType
<1>4. \A v \in Owners : after.held[v] = IF v = w THEN Null ELSE heap.held[v]
  BY <1>3 DEF Put
<1>5. \A v \in Owners : after.held[v] # Null => after.held[v] \in after.alive
  BY <1>1, <1>4 DEF Good
<1>6. \A b \in after.alive : \E v \in Owners : after.held[v] = b
  BY <1>1, <1>4 DEF Good
<1>7. QED
  BY <1>2, <1>3, <1>4, <1>5, <1>6 DEF Good

LEMMA MoveConstructGood ==
    ASSUME NEW heap, Good(heap), NEW w \in Owners, NEW other \in Owners, w # other,
           heap.held[w] = Null
    PROVE  /\ Good(MoveConstruct(heap, w, other))
           /\ MoveConstruct(heap, w, other).held =
                [v \in Owners |-> IF v = w THEN heap.held[other]
                                  ELSE IF v = other THEN Null ELSE heap.held[v]]
<1> DEFINE after == MoveConstruct(heap, w, other)
<1>1. /\ after.held = [heap.held EXCEPT ![w] = heap.held[other], ![other] = Null]
      /\ after.alive = heap.alive
  BY DEF MoveConstruct, Good, HeapType
<1>2. after \in HeapType
  BY DEF MoveConstruct, Good, HeapType
<1>3. after.held = [v \in Owners |-> IF v = w THEN heap.held[other]
                                     ELSE IF v = other THEN Null ELSE heap.held[v]]
  BY <1>1 DEF Good, HeapType
<1>4. \A b \in after.alive : \E v \in Owners : after.held[v] = b
  <2> SUFFICES ASSUME NEW b \in after.alive PROVE \E v \in Owners : after.held[v] = b
    OBVIOUS
  <2>1. PICK v \in Owners : heap.held[v] = b
    BY <1>1 DEF Good
  <2>2. b # Null
    BY <1>1, OwnershipAssumption DEF Good, HeapType
  <2>3. CASE v = other
    BY <1>3, <2>1, <2>3
  <2>4. CASE v # other
    BY <1>3, <2>1, <2>2, <2>4
  <2>5. QED
    BY <2>3, <2>4
<1>5. \A v \in Owners : after.held[v] # Null => after.held[v] \in after.alive
  BY <1>1, <1>3 DEF Good
<1>6. \A u, v \in Owners : after.held[u] = after.held[v] /\ after.held[u] # Null => u = v
  BY <1>3 DEF Good
<1>7. QED
  BY <1>2, <1>3, <1>4, <1>5, <1>6 DEF Good

LEMMA MoveAssignGood ==
    ASSUME NEW heap, Good(heap), NEW w \in Owners, NEW other \in Owners, w # other
    PROVE  /\ Good(MoveAssign(heap, w, other))
           /\ MoveAssign(heap, w, other).held =
                [v \in Owners |-> IF v = w THEN heap.held[other]
                                  ELSE IF v = other THEN Null ELSE heap.held[v]]
<1> DEFINE mid == Reset(heap, w)
<1>1. Good(mid) /\ Put(heap.held, mid.held, w, Null)
  BY ResetGood
<1>2. /\ mid.held[w] = Null /\ mid.held[other] = heap.held[other]
      /\ \A v \in Owners : v # w => mid.held[v] = heap.held[v]
  BY <1>1 DEF Put
<1> HIDE DEF mid
<1>3. /\ Good(MoveConstruct(mid, w, other))
      /\ MoveConstruct(mid, w, other).held =
           [v \in Owners |-> IF v = w THEN mid.held[other]
                             ELSE IF v = other THEN Null ELSE mid.held[v]]
  BY <1>1, <1>2, MoveConstructGood
<1>4. MoveAssign(heap, w, other) = MoveConstruct(mid, w, other)
  BY DEF MoveAssign, mid
<1>5. QED
  BY <1>2, <1>3, <1>4
\* How catalog, scan handle and batch arrive: a temporary adopts what Rust returns,
\* a member is assigned from it, and the temporary is destroyed.
Fetched(heap, w, other, a) == Destroy(MoveAssign(Adopt(heap, other, a), w, other), other)

LEMMA FetchedGood ==
    ASSUME NEW heap, Good(heap), NEW w \in Owners, NEW other \in Owners, w # other,
           NEW a \in Addresses \ heap.alive, heap.held[other] = Null
    PROVE  Good(Fetched(heap, w, other, a)) /\ Put(heap.held, Fetched(heap, w, other, a).held, w, a)
<1> DEFINE h1 == Adopt(heap, other, a)
           h2 == MoveAssign(h1, w, other)
           h3 == Reset(h2, other)
<1>1. Good(h1) /\ Put(heap.held, h1.held, other, a)
  BY AdoptGood
<1>2. Fetched(heap, w, other, a) = h3
  BY DEF Fetched, Destroy
<1> HIDE DEF h1
<1>3. /\ Good(h2)
      /\ h2.held = [v \in Owners |-> IF v = w THEN h1.held[other]
                                     ELSE IF v = other THEN Null ELSE h1.held[v]]
  BY <1>1, MoveAssignGood
<1> HIDE DEF h2
<1>4. Good(h3) /\ Put(h2.held, h3.held, other, Null)
  BY <1>3, ResetGood
<1> HIDE DEF h3
<1>5. h3.held = [v \in Owners |-> IF v = w THEN a ELSE heap.held[v]]
  <2>1. h3.held = [v \in Owners |-> IF v = other THEN Null ELSE h2.held[v]]
    BY <1>4 DEF Put
  <2>2. \A v \in Owners : h3.held[v] = IF v = w THEN a ELSE heap.held[v]
    BY <1>1, <1>3, <2>1 DEF Put
  <2>3. QED
    BY <2>1, <2>2
<1>6. QED
  BY <1>2, <1>4, <1>5 DEF Put

-----------------------------------------------------------------------------
(* The inductive invariant: besides OneOwner, which owners hold something   *)
(* at which stage of ATTACH and of a query, and what is borrowed.           *)

Scan(q) == <<"scan", q>>
Rows(q) == <<"rows", q>>

DatabaseHolds ==
    /\ held[attach_config_p] = Null /\ held[response] = Null
    /\ held[config] # Null <=> attach = "resolved"
    /\ held[attach_config] # Null <=> attach \in {"constructing", "loaded", "attached"}
    /\ held[catalog_info] # Null <=> attach \in {"loaded", "attached"}
    /\ attach = "attached" => entries = held[catalog_info]

QueryHolds(q) ==
    /\ held[<<"opened", q>>] = Null /\ held[<<"next", q>>] = Null
    /\ query[q] = "none" => held[Scan(q)] = Null /\ held[Rows(q)] = Null
    /\ query[q] = "open" => attach = "attached" /\ used[q] = <<held[attach_config], entries>>

Typed ==
    /\ lost \subseteq Addresses
    /\ attach \in Attaches
    /\ query \in [Queries -> Places]
    /\ entries \in Addresses \cup {Null}
    /\ used \in [Queries -> (Addresses \cup {Null}) \X (Addresses \cup {Null})]

OwnershipInv == Good(Heap) /\ Typed /\ DatabaseHolds /\ \A q \in Queries : QueryHolds(q)

\* A step that ends in a good heap leaves the program's heap good.
LEMMA BecomesGood ==
    ASSUME NEW heap, Good(heap), Becomes(heap)
    PROVE  Good(Heap)' /\ held' = heap.held /\ alive' = heap.alive
<1>1. heap = [held |-> heap.held, alive |-> heap.alive]
  BY DEF Good, HeapType
<1>2. Heap' = heap
  BY <1>1 DEF Becomes, Heap
<1>3. QED
  BY <1>2 DEF Becomes, Good

DatabaseOwners == {config, attach_config_p, attach_config, response, catalog_info}
QueryOwners(q) == {<<"opened", q>>, <<"next", q>>, Scan(q), Rows(q)}

\* The owners are distinct objects.
LEMMA OwnersDiffer ==
    /\ DatabaseOwners \subseteq Owners
    /\ \A q \in Queries : QueryOwners(q) \subseteq Owners
    /\ \A w \in Owners : w \in DatabaseOwners \/ \E q \in Queries : w \in QueryOwners(q)
BY DEF DatabaseOwners, QueryOwners, Owners, config, attach_config_p, attach_config, response,
       catalog_info, Scan, Rows

LEMMA OwnersApart ==
    /\ config # attach_config_p /\ config # attach_config /\ config # response
    /\ config # catalog_info /\ attach_config_p # attach_config /\ attach_config_p # response
    /\ attach_config_p # catalog_info /\ attach_config # response
    /\ attach_config # catalog_info /\ response # catalog_info
    /\ \A q \in Queries :
        /\ <<"opened", q>> # <<"next", q>> /\ <<"opened", q>> # Scan(q) /\ <<"opened", q>> # Rows(q)
        /\ <<"next", q>> # Scan(q) /\ <<"next", q>> # Rows(q) /\ Scan(q) # Rows(q)
        /\ \A w \in DatabaseOwners : w \notin QueryOwners(q)
        /\ \A p \in Queries \ {q} : \A w \in QueryOwners(p) : w \notin QueryOwners(q)
BY DEF DatabaseOwners, QueryOwners, config, attach_config_p, attach_config, response,
       catalog_info, Scan, Rows

LEMMA InitOwnership == Init => OwnershipInv
<1> SUFFICES ASSUME Init PROVE OwnershipInv
  OBVIOUS
<1>1. Good(Heap)
  BY DEF Init, Heap, Good, HeapType
<1>2. Typed
  BY DEF Init, Typed, Attaches, Places
<1>3. DatabaseHolds
  BY OwnersDiffer DEF Init, DatabaseHolds, DatabaseOwners
<1>4. \A q \in Queries : QueryHolds(q)
  BY OwnersDiffer DEF Init, QueryHolds, QueryOwners
<1>5. QED
  BY <1>1, <1>2, <1>3, <1>4 DEF OwnershipInv

\* What an exception in the constructor of the catalog leaves: nothing of ATTACH.
LEMMA UnwoundHolds ==
    ASSUME OwnershipInv, attach \in {"constructing", "loaded"}
    PROVE  /\ Good(Unwound(Heap))
           /\ Unwound(Heap).held = [v \in Owners |->
                IF v \in {catalog_info, attach_config, attach_config_p, config}
                THEN Null ELSE held[v]]
<1> DEFINE h1 == Reset(Heap, catalog_info)
           h2 == Reset(h1, attach_config)
           h3 == Reset(h2, attach_config_p)
           h4 == Reset(h3, config)
<1>1. Good(h1) /\ Put(held, h1.held, catalog_info, Null)
  BY ResetGood, OwnersDiffer DEF OwnershipInv, Heap, DatabaseOwners
<1>2. Unwound(Heap) = h4
  BY DEF Unwound, Destroy
<1> HIDE DEF h1
<1>3. Good(h2) /\ Put(h1.held, h2.held, attach_config, Null)
  BY <1>1, ResetGood, OwnersDiffer DEF DatabaseOwners
<1> HIDE DEF h2
<1>4. Good(h3) /\ Put(h2.held, h3.held, attach_config_p, Null)
  BY <1>3, ResetGood, OwnersDiffer DEF DatabaseOwners
<1> HIDE DEF h3
<1>5. Good(h4) /\ Put(h3.held, h4.held, config, Null)
  BY <1>4, ResetGood, OwnersDiffer DEF DatabaseOwners
<1> HIDE DEF h4
<1>6. QED
  BY <1>1, <1>2, <1>3, <1>4, <1>5, OwnersDiffer DEF Put

-----------------------------------------------------------------------------
(* The steps of ATTACH and DETACH.                                         *)

\* They leave the queries' owners alone; there is an open query only in an
\* attached database.
LEMMA QueriesKept ==
    ASSUME OwnershipInv, UNCHANGED <<query, used>>, attach # "attached",
           \A q \in Queries : \A w \in QueryOwners(q) : held'[w] = held[w]
    PROVE  \A q \in Queries : QueryHolds(q)'
<1> TAKE q \in Queries
<1>1. QueryHolds(q) /\ query[q] = "none"
  BY DEF OwnershipInv, Typed, QueryHolds, Places
<1>2. \A w \in QueryOwners(q) : held'[w] = held[w]
  OBVIOUS
<1>3. QED
  BY <1>1, <1>2 DEF QueryHolds, QueryOwners, Scan, Rows

LEMMA ResolveOwnership == OwnershipInv /\ Resolve => OwnershipInv'
<1> SUFFICES ASSUME OwnershipInv, Resolve PROVE OwnershipInv'
  OBVIOUS
<1>1. PICK a \in Addresses \ alive : Becomes(Adopt(Heap, config, a))
  BY DEF Resolve, Free
<1>2. Good(Heap) /\ held[config] = Null /\ Heap.held = held /\ Heap.alive = alive
  BY DEF OwnershipInv, DatabaseHolds, Resolve, Heap
<1>3. Good(Adopt(Heap, config, a)) /\ Put(held, Adopt(Heap, config, a).held, config, a)
  BY <1>2, AdoptGood, OwnersDiffer DEF DatabaseOwners
<1>4. Good(Heap)' /\ Put(held, held', config, a)
  BY <1>1, <1>3, BecomesGood
<1>5. held'[config] = a /\ \A w \in Owners : w # config => held'[w] = held[w]
  BY <1>4, OwnersDiffer DEF Put, DatabaseOwners
<1>6. \A q \in Queries : QueryHolds(q)'
  BY <1>5, OwnersDiffer, OwnersApart, QueriesKept DEF Resolve, DatabaseOwners
<1>7. DatabaseHolds'
  BY <1>5, OwnersDiffer, OwnersApart, OwnershipAssumption
     DEF OwnershipInv, DatabaseHolds, Resolve, DatabaseOwners
<1>8. Typed'
  BY DEF OwnershipInv, Typed, Resolve, Attaches
<1>9. QED
  BY <1>4, <1>6, <1>7, <1>8 DEF OwnershipInv

\* What a failing call loses was free before.
LEMMA LostAreAddresses == LosesSome /\ lost \subseteq Addresses => lost' \subseteq Addresses
BY DEF LosesSome, Free

\* A call that fails on the side of Rust changes nothing that C++ holds.
LEMMA LosingOwnership ==
    ASSUME OwnershipInv, ResolveFails \/ \E q \in Queries : NextBatchFails(q)
    PROVE  OwnershipInv'
<1>1. LosesSome /\ UNCHANGED <<held, alive, attach, query, entries, used>>
  BY DEF ResolveFails, NextBatchFails
<1>2. lost' \subseteq Addresses
  BY <1>1, LostAreAddresses DEF OwnershipInv, Typed
<1>3. Typed'
  BY <1>1, <1>2 DEF OwnershipInv, Typed
<1>4. Good(Heap)'
  BY <1>1 DEF OwnershipInv, Good, Heap
<1>5. DatabaseHolds' /\ \A q \in Queries : QueryHolds(q)'
  BY <1>1 DEF OwnershipInv, DatabaseHolds, QueryHolds
<1>6. QED
  BY <1>3, <1>4, <1>5 DEF OwnershipInv

LEMMA StartCatalogOwnership == OwnershipInv /\ StartCatalog => OwnershipInv'
<1> SUFFICES ASSUME OwnershipInv, StartCatalog PROVE OwnershipInv'
  OBVIOUS
<1> DEFINE h1 == MoveConstruct(Heap, attach_config_p, config)
           h2 == MoveConstruct(h1, attach_config, attach_config_p)
<1>1. Good(Heap) /\ Heap.held = held /\ held[attach_config_p] = Null /\ held[attach_config] = Null
  BY DEF OwnershipInv, DatabaseHolds, StartCatalog, Heap
<1>2. /\ Good(h1)
      /\ h1.held = [v \in Owners |-> IF v = attach_config_p THEN held[config]
                                     ELSE IF v = config THEN Null ELSE held[v]]
  BY <1>1, MoveConstructGood, OwnersDiffer, OwnersApart DEF DatabaseOwners
<1>3. Becomes(h2)
  BY DEF StartCatalog
<1> HIDE DEF h1
<1>4. h1.held[attach_config] = Null
  BY <1>1, <1>2, OwnersDiffer, OwnersApart DEF DatabaseOwners
<1>5. /\ Good(h2)
      /\ h2.held = [v \in Owners |-> IF v = attach_config THEN h1.held[attach_config_p]
                                     ELSE IF v = attach_config_p THEN Null ELSE h1.held[v]]
  <2>1. /\ attach_config \in Owners /\ attach_config_p \in Owners
        /\ attach_config # attach_config_p
    BY OwnersDiffer, OwnersApart DEF DatabaseOwners
  <2>2. Good(h1)
    BY <1>2
  <2>3. QED
    BY <1>4, <2>1, <2>2, MoveConstructGood
<1> HIDE DEF h2
<1>6. Good(Heap)' /\ held' = h2.held
  BY <1>3, <1>5, BecomesGood
<1>7. /\ held'[attach_config] = held[config]
      /\ held'[attach_config_p] = Null /\ held'[config] = Null
      /\ \A w \in Owners : w \notin {attach_config, attach_config_p, config} => held'[w] = held[w]
  BY <1>2, <1>5, <1>6, OwnersDiffer, OwnersApart DEF DatabaseOwners
<1>8. \A q \in Queries : QueryHolds(q)'
  BY <1>7, OwnersDiffer, OwnersApart, QueriesKept DEF StartCatalog, DatabaseOwners
<1>9. DatabaseHolds'
  BY <1>7, OwnersDiffer, OwnersApart
     DEF OwnershipInv, DatabaseHolds, StartCatalog, DatabaseOwners
<1>10. Typed'
  BY DEF OwnershipInv, Typed, StartCatalog, Attaches
<1>11. QED
  BY <1>6, <1>8, <1>9, <1>10 DEF OwnershipInv

LEMMA FailsOwnership == OwnershipInv /\ (ListTablesFails \/ SchemaFails) => OwnershipInv'
<1> SUFFICES ASSUME OwnershipInv, ListTablesFails \/ SchemaFails PROVE OwnershipInv'
  OBVIOUS
<1>1. /\ attach \in {"constructing", "loaded"} /\ attach' = "detached"
      /\ Becomes(Unwound(Heap)) /\ UNCHANGED <<query, entries, used>>
  BY DEF ListTablesFails, SchemaFails
<1>2. /\ Good(Unwound(Heap))
      /\ Unwound(Heap).held = [v \in Owners |->
           IF v \in {catalog_info, attach_config, attach_config_p, config}
           THEN Null ELSE held[v]]
  BY <1>1, UnwoundHolds
<1>3. Good(Heap)' /\ held' = Unwound(Heap).held
  BY <1>1, <1>2, BecomesGood
<1>4. /\ \A w \in {catalog_info, attach_config, attach_config_p, config} : held'[w] = Null
      /\ \A w \in Owners : w \notin {catalog_info, attach_config, attach_config_p, config}
                              => held'[w] = held[w]
  BY <1>2, <1>3, OwnersDiffer DEF DatabaseOwners
<1>5. \A q \in Queries : QueryHolds(q)'
  <2>1. \A q \in Queries : \A w \in QueryOwners(q) : held'[w] = held[w]
    BY <1>4, OwnersDiffer, OwnersApart DEF DatabaseOwners
  <2>2. QED
    BY <1>1, <2>1, QueriesKept
<1>6. DatabaseHolds'
  BY <1>1, <1>4, OwnersDiffer, OwnersApart DEF OwnershipInv, DatabaseHolds, DatabaseOwners
<1>7. lost' \subseteq Addresses
  BY LostAreAddresses DEF ListTablesFails, SchemaFails, OwnershipInv, Typed
<1>8. Typed'
  BY <1>1, <1>7 DEF OwnershipInv, Typed, Attaches
<1>9. QED
  BY <1>3, <1>5, <1>6, <1>8 DEF OwnershipInv

LEMMA ListTablesOwnership == OwnershipInv /\ ListTables => OwnershipInv'
<1> SUFFICES ASSUME OwnershipInv, ListTables PROVE OwnershipInv'
  OBVIOUS
<1>1. PICK a \in Addresses \ alive : Becomes(Fetched(Heap, catalog_info, response, a))
  BY DEF ListTables, Fetched, Free
<1>2. Good(Heap) /\ Heap.held = held /\ Heap.alive = alive /\ held[response] = Null
  BY DEF OwnershipInv, DatabaseHolds, Heap
<1>3. catalog_info \in Owners /\ response \in Owners /\ catalog_info # response
  BY OwnersDiffer, OwnersApart DEF DatabaseOwners
<1>4. Good(Fetched(Heap, catalog_info, response, a))
      /\ Put(held, Fetched(Heap, catalog_info, response, a).held, catalog_info, a)
  BY <1>2, <1>3, FetchedGood
<1>5. Good(Heap)' /\ Put(held, held', catalog_info, a)
  BY <1>1, <1>4, BecomesGood
<1>6. held'[catalog_info] = a /\ \A w \in Owners : w # catalog_info => held'[w] = held[w]
  BY <1>3, <1>5 DEF Put
<1>7. \A q \in Queries : QueryHolds(q)'
  <2>1. \A q \in Queries : \A w \in QueryOwners(q) : held'[w] = held[w]
    BY <1>6, OwnersDiffer, OwnersApart DEF DatabaseOwners
  <2>2. QED
    BY <2>1, QueriesKept DEF ListTables
<1>8. DatabaseHolds'
  <2>1. \A w \in {config, attach_config, attach_config_p, response} : held'[w] = held[w]
    BY <1>6, OwnersDiffer, OwnersApart DEF DatabaseOwners
  <2>2. QED
    BY <1>6, <2>1, OwnershipAssumption DEF OwnershipInv, DatabaseHolds, ListTables
<1>9. Typed'
  BY DEF OwnershipInv, Typed, ListTables, Attaches
<1>10. QED
  BY <1>5, <1>7, <1>8, <1>9 DEF OwnershipInv

LEMMA SchemaOwnership == OwnershipInv /\ Schema => OwnershipInv'
<1> SUFFICES ASSUME OwnershipInv, Schema PROVE OwnershipInv'
  OBVIOUS
<1> DEFINE h1 == Reset(Heap, attach_config_p)
           h2 == Reset(h1, config)
<1>1. Good(Heap) /\ Heap.held = held
  BY DEF OwnershipInv, Heap
<1>2. /\ config \in Owners /\ attach_config_p \in Owners /\ catalog_info \in Owners
      /\ config # catalog_info /\ attach_config_p # catalog_info
  BY OwnersDiffer, OwnersApart DEF DatabaseOwners
<1>3. Good(h1) /\ Put(held, h1.held, attach_config_p, Null)
  BY <1>1, <1>2, ResetGood
<1>4. Becomes(h2)
  BY DEF Schema, Destroy
<1> HIDE DEF h1
<1>5. Good(h2) /\ Put(h1.held, h2.held, config, Null)
  BY <1>2, <1>3, ResetGood
<1> HIDE DEF h2
<1>6. Good(Heap)' /\ held' = h2.held
  BY <1>4, <1>5, BecomesGood
<1>7. /\ held'[config] = Null /\ held'[attach_config_p] = Null
      /\ \A w \in Owners : w \notin {config, attach_config_p} => held'[w] = held[w]
  BY <1>2, <1>3, <1>5, <1>6 DEF Put
<1>8. \A q \in Queries : QueryHolds(q)'
  <2>1. \A q \in Queries : \A w \in QueryOwners(q) : held'[w] = held[w]
    BY <1>7, OwnersDiffer, OwnersApart DEF DatabaseOwners
  <2>2. QED
    BY <2>1, QueriesKept DEF Schema
<1>9. DatabaseHolds'
  <2>1. /\ held'[response] = held[response] /\ held'[attach_config] = held[attach_config]
        /\ held'[catalog_info] = held[catalog_info]
    BY <1>7, OwnersDiffer, OwnersApart DEF DatabaseOwners
  <2>2. QED
    BY <1>7, <2>1 DEF OwnershipInv, DatabaseHolds, Schema
<1>10. Typed'
  <2>1. entries' \in Addresses \cup {Null}
    BY <1>1, <1>2 DEF Schema, Good, HeapType
  <2>2. QED
    BY <2>1 DEF OwnershipInv, Typed, Schema, Attaches
<1>11. QED
  BY <1>6, <1>8, <1>9, <1>10 DEF OwnershipInv

LEMMA DetachOwnership == OwnershipInv /\ Detach => OwnershipInv'
<1> SUFFICES ASSUME OwnershipInv, Detach PROVE OwnershipInv'
  OBVIOUS
<1> DEFINE h1 == Reset(Heap, catalog_info)
           h2 == Reset(h1, attach_config)
<1>1. Good(Heap) /\ Heap.held = held
  BY DEF OwnershipInv, Heap
<1>2. catalog_info \in Owners /\ attach_config \in Owners
  BY OwnersDiffer DEF DatabaseOwners
<1>3. Good(h1) /\ Put(held, h1.held, catalog_info, Null)
  BY <1>1, <1>2, ResetGood
<1>4. Becomes(h2)
  BY DEF Detach, Destroy
<1> HIDE DEF h1
<1>5. Good(h2) /\ Put(h1.held, h2.held, attach_config, Null)
  BY <1>2, <1>3, ResetGood
<1> HIDE DEF h2
<1>6. Good(Heap)' /\ held' = h2.held
  BY <1>4, <1>5, BecomesGood
<1>7. /\ held'[catalog_info] = Null /\ held'[attach_config] = Null
      /\ \A w \in Owners : w \notin {catalog_info, attach_config} => held'[w] = held[w]
  BY <1>2, <1>3, <1>5, <1>6 DEF Put
<1>8. \A q \in Queries : QueryHolds(q)'
  <2> TAKE q \in Queries
  <2>1. \A w \in QueryOwners(q) : held'[w] = held[w]
    BY <1>7, OwnersDiffer, OwnersApart DEF DatabaseOwners
  <2>2. QueryHolds(q) /\ query[q] = "none" /\ query' = query
    BY DEF OwnershipInv, Detach
  <2>3. QED
    BY <2>1, <2>2 DEF QueryHolds, QueryOwners, Scan, Rows
<1>9. DatabaseHolds'
  <2>1. /\ held'[response] = held[response] /\ held'[config] = held[config]
        /\ held'[attach_config_p] = held[attach_config_p]
    BY <1>7, OwnersDiffer, OwnersApart DEF DatabaseOwners
  <2>2. QED
    BY <1>7, <2>1 DEF OwnershipInv, DatabaseHolds, Detach
<1>10. Typed'
  BY DEF OwnershipInv, Typed, Detach, Attaches
<1>11. QED
  BY <1>6, <1>8, <1>9, <1>10 DEF OwnershipInv

-----------------------------------------------------------------------------
(* The steps of a query.                                                   *)

\* They leave the owners of the database, and of the other queries, alone.
LEMMA OthersKept ==
    ASSUME OwnershipInv, UNCHANGED <<attach, entries>>, NEW q \in Queries,
           \A w \in Owners : w \notin QueryOwners(q) => held'[w] = held[w],
           \A p \in Queries \ {q} : query'[p] = query[p] /\ used'[p] = used[p]
    PROVE  DatabaseHolds' /\ \A p \in Queries \ {q} : QueryHolds(p)'
<1>1. \A w \in DatabaseOwners : held'[w] = held[w]
  BY OwnersDiffer, OwnersApart
<1>2. DatabaseHolds'
  BY <1>1 DEF OwnershipInv, DatabaseHolds, DatabaseOwners
<1>3. ASSUME NEW p \in Queries \ {q} PROVE QueryHolds(p)'
  <2>1. \A w \in QueryOwners(p) : held'[w] = held[w]
    BY OwnersDiffer, OwnersApart
  <2>2. QueryHolds(p)
    BY DEF OwnershipInv
  <2>3. held'[attach_config] = held[attach_config]
    BY <1>1 DEF DatabaseOwners
  <2>4. QED
    BY <2>1, <2>2, <2>3 DEF QueryHolds, QueryOwners, Scan, Rows
<1>4. QED
  BY <1>2, <1>3

LEMMA OpenScanOwnership ==
    ASSUME OwnershipInv, NEW q \in Queries, OpenScan(q)
    PROVE  OwnershipInv'
<1> DEFINE opened == <<"opened", q>>
<1>1. PICK a \in Addresses \ alive : Becomes(Fetched(Heap, Scan(q), opened, a))
  BY DEF OpenScan, Fetched, Scan, Free
<1>2. /\ Good(Heap) /\ Heap.held = held /\ Heap.alive = alive
      /\ held[opened] = Null /\ held[<<"next", q>>] = Null /\ held[Rows(q)] = Null
  BY DEF OwnershipInv, QueryHolds, Heap, OpenScan
<1>3. /\ {opened, <<"next", q>>, Scan(q), Rows(q)} \subseteq Owners
      /\ Scan(q) \notin {opened, <<"next", q>>, Rows(q)} /\ attach_config \in Owners
      /\ attach_config # Scan(q)
  BY OwnersDiffer, OwnersApart DEF QueryOwners, DatabaseOwners
<1>4. Good(Fetched(Heap, Scan(q), opened, a))
      /\ Put(held, Fetched(Heap, Scan(q), opened, a).held, Scan(q), a)
  BY <1>2, <1>3, FetchedGood
<1>5. Good(Heap)' /\ Put(held, held', Scan(q), a)
  BY <1>1, <1>4, BecomesGood
<1>6. held'[Scan(q)] = a /\ \A w \in Owners : w # Scan(q) => held'[w] = held[w]
  BY <1>3, <1>5 DEF Put
<1>7. /\ attach = "attached" /\ UNCHANGED <<lost, attach, entries>>
      /\ query' = [query EXCEPT ![q] = "open"]
      /\ used' = [used EXCEPT ![q] = <<held[attach_config], entries>>]
  BY DEF OpenScan
<1>8. /\ query \in [Queries -> Places]
      /\ used \in [Queries -> (Addresses \cup {Null}) \X (Addresses \cup {Null})]
  BY DEF OwnershipInv, Typed
<1>9. DatabaseHolds' /\ \A p \in Queries \ {q} : QueryHolds(p)'
  <2>1. \A w \in Owners : w \notin QueryOwners(q) => held'[w] = held[w]
    BY <1>6 DEF QueryOwners
  <2>2. \A p \in Queries \ {q} : query'[p] = query[p] /\ used'[p] = used[p]
    BY <1>7, <1>8
  <2>3. QED
    BY <1>7, <2>1, <2>2, OthersKept
<1>10. QueryHolds(q)'
  <2>1. query'[q] = "open" /\ used'[q] = <<held[attach_config], entries>>
    BY <1>7, <1>8
  <2>2. held'[attach_config] = held[attach_config]
    BY <1>3, <1>6
  <2>3. held'[opened] = Null /\ held'[<<"next", q>>] = Null
    BY <1>2, <1>3, <1>6
  <2>4. QED
    BY <1>7, <2>1, <2>2, <2>3 DEF QueryHolds
<1>11. Typed'
  <2>1. held[attach_config] \in Addresses \cup {Null} /\ entries \in Addresses \cup {Null}
    BY <1>2, <1>3 DEF OwnershipInv, Typed, Good, HeapType
  <2>2. QED
    BY <1>7, <1>8, <2>1 DEF OwnershipInv, Typed, Places
<1>12. QED
  BY <1>5, <1>9, <1>10, <1>11 DEF OwnershipInv

LEMMA NextBatchOwnership ==
    ASSUME OwnershipInv, NEW q \in Queries, NextBatch(q)
    PROVE  OwnershipInv'
<1> DEFINE next == <<"next", q>>
<1>1. PICK a \in Addresses \ alive : Becomes(Fetched(Heap, Rows(q), next, a))
  BY DEF NextBatch, Fetched, Rows, Free
<1>2. /\ Good(Heap) /\ Heap.held = held /\ Heap.alive = alive /\ held[next] = Null
  BY DEF OwnershipInv, QueryHolds, Heap
<1>3. /\ {<<"opened", q>>, next, Scan(q), Rows(q)} \subseteq Owners
      /\ Rows(q) \notin {<<"opened", q>>, next, Scan(q)}
      /\ attach_config \in Owners /\ attach_config # Rows(q)
  BY OwnersDiffer, OwnersApart DEF QueryOwners, DatabaseOwners
<1>4. Good(Fetched(Heap, Rows(q), next, a))
      /\ Put(held, Fetched(Heap, Rows(q), next, a).held, Rows(q), a)
  BY <1>2, <1>3, FetchedGood
<1>5. Good(Heap)' /\ Put(held, held', Rows(q), a)
  BY <1>1, <1>4, BecomesGood
<1>6. \A w \in Owners : w # Rows(q) => held'[w] = held[w]
  BY <1>3, <1>5 DEF Put
<1>7. query[q] = "open" /\ UNCHANGED <<lost, attach, query, entries, used>>
  BY DEF NextBatch
<1>8. DatabaseHolds' /\ \A p \in Queries \ {q} : QueryHolds(p)'
  <2>1. \A w \in Owners : w \notin QueryOwners(q) => held'[w] = held[w]
    BY <1>6 DEF QueryOwners
  <2>2. QED
    BY <1>7, <2>1, OthersKept
<1>9. QueryHolds(q)'
  BY <1>3, <1>6, <1>7 DEF OwnershipInv, QueryHolds
<1>10. Typed'
  BY <1>7 DEF OwnershipInv, Typed
<1>11. QED
  BY <1>5, <1>8, <1>9, <1>10 DEF OwnershipInv

LEMMA CloseScanOwnership ==
    ASSUME OwnershipInv, NEW q \in Queries, CloseScan(q)
    PROVE  OwnershipInv'
<1> DEFINE h1 == Reset(Heap, Rows(q))
           h2 == Reset(h1, Scan(q))
<1>1. Good(Heap) /\ Heap.held = held
  BY DEF OwnershipInv, Heap
<1>2. Scan(q) \in Owners /\ Rows(q) \in Owners
      /\ {<<"opened", q>>, <<"next", q>>} \subseteq Owners \ {Scan(q), Rows(q)}
  BY OwnersDiffer, OwnersApart DEF QueryOwners
<1>3. Good(h1) /\ Put(held, h1.held, Rows(q), Null)
  BY <1>1, <1>2, ResetGood
<1>4. Becomes(h2)
  BY DEF CloseScan, Destroy, Scan, Rows
<1> HIDE DEF h1
<1>5. Good(h2) /\ Put(h1.held, h2.held, Scan(q), Null)
  BY <1>2, <1>3, ResetGood
<1> HIDE DEF h2
<1>6. Good(Heap)' /\ held' = h2.held
  BY <1>4, <1>5, BecomesGood
<1>7. /\ held'[Scan(q)] = Null /\ held'[Rows(q)] = Null
      /\ \A w \in Owners : w \notin {Scan(q), Rows(q)} => held'[w] = held[w]
  BY <1>2, <1>3, <1>5, <1>6 DEF Put
<1>8. /\ UNCHANGED <<lost, attach, entries>> /\ query' = [query EXCEPT ![q] = "none"]
      /\ used' = [used EXCEPT ![q] = <<Null, Null>>]
  BY DEF CloseScan
<1>9. /\ query \in [Queries -> Places]
      /\ used \in [Queries -> (Addresses \cup {Null}) \X (Addresses \cup {Null})]
  BY DEF OwnershipInv, Typed
<1>10. DatabaseHolds' /\ \A p \in Queries \ {q} : QueryHolds(p)'
  <2>1. \A w \in Owners : w \notin QueryOwners(q) => held'[w] = held[w]
    BY <1>7 DEF QueryOwners
  <2>2. \A p \in Queries \ {q} : query'[p] = query[p] /\ used'[p] = used[p]
    BY <1>8, <1>9
  <2>3. QED
    BY <1>8, <2>1, <2>2, OthersKept
<1>11. QueryHolds(q)'
  <2>1. query'[q] = "none"
    BY <1>8, <1>9
  <2>2. held[<<"opened", q>>] = Null /\ held[<<"next", q>>] = Null
    BY DEF OwnershipInv, QueryHolds
  <2>3. held'[<<"opened", q>>] = Null /\ held'[<<"next", q>>] = Null
    BY <1>2, <1>7, <2>2
  <2>4. QED
    BY <1>7, <2>1, <2>3 DEF QueryHolds
<1>12. Typed'
  BY <1>8, <1>9 DEF OwnershipInv, Typed, Places
<1>13. QED
  BY <1>6, <1>10, <1>11, <1>12 DEF OwnershipInv
-----------------------------------------------------------------------------
(* The theorems.                                                           *)

\* Every reachable heap is good, and who holds what follows from where ATTACH and
\* the queries are: the four classes of rust_bridge_client.hpp, as the code uses them.
THEOREM OwnershipInvariant == Spec => []OwnershipInv
<1>1. OwnershipInv /\ [Next]_vars => OwnershipInv'
  <2> SUFFICES ASSUME OwnershipInv, [Next]_vars PROVE OwnershipInv'
    OBVIOUS
  <2>1. CASE Resolve
    BY <2>1, ResolveOwnership
  <2>2. CASE StartCatalog
    BY <2>2, StartCatalogOwnership
  <2>3. CASE ListTables
    BY <2>3, ListTablesOwnership
  <2>4. CASE ListTablesFails \/ SchemaFails
    BY <2>4, FailsOwnership
  <2>5. CASE Schema
    BY <2>5, SchemaOwnership
  <2>6. CASE Detach
    BY <2>6, DetachOwnership
  <2>7. CASE \E q \in Queries : OpenScan(q)
    BY <2>7, OpenScanOwnership
  <2>8. CASE \E q \in Queries : NextBatch(q)
    BY <2>8, NextBatchOwnership
  <2>9. CASE \E q \in Queries : CloseScan(q)
    BY <2>9, CloseScanOwnership
  <2>10. CASE UNCHANGED vars
    BY <2>10 DEF vars, OwnershipInv, Good, Heap, Typed, DatabaseHolds, QueryHolds
  <2>11. CASE ResolveFails \/ \E q \in Queries : NextBatchFails(q)
    BY <2>11, LosingOwnership
  <2>12. QED
    BY <2>1, <2>2, <2>3, <2>4, <2>5, <2>6, <2>7, <2>8, <2>9, <2>10, <2>11 DEF Next
<1>2. QED
  BY InitOwnership, <1>1, PTL DEF Spec

\* The variables keep their types, and the local config is empty from the moment
\* the catalog is constructed.
THEOREM TypeCorrect == Spec => []TypeOK
<1>1. OwnershipInv => TypeOK
  BY DEF OwnershipInv, Good, HeapType, Heap, Typed, DatabaseHolds, TypeOK
<1>2. QED
  BY OwnershipInvariant, <1>1, PTL

\* What was handed over to C++ has exactly one owner, at every moment and however
\* ATTACH, the queries and exceptions interleave: no leak and no double free on
\* that side of the interface.
THEOREM AlwaysOneOwner == Spec => []OneOwner
<1>1. OwnershipInv => OneOwner
  <2> SUFFICES ASSUME OwnershipInv PROVE OneOwner
    OBVIOUS
  <2>1. /\ alive \subseteq Addresses
        /\ \A w \in Owners : held[w] # Null => held[w] \in alive
        /\ \A a \in alive : \E w \in Owners : held[w] = a
        /\ \A v, w \in Owners : held[v] = held[w] /\ held[v] # Null => v = w
    BY DEF OwnershipInv, Good, HeapType, Heap
  <2>2. alive = {held[w] : w \in Owners} \ {Null}
    BY <2>1, OwnershipAssumption
  <2>3. QED
    BY <2>1, <2>2 DEF OneOwner
<1>2. QED
  BY OwnershipInvariant, <1>1, PTL

\* What a running query borrowed from the config and the catalog is still there.
THEOREM BorrowsStayValid == Spec => []BorrowsAreValid
<1>1. OwnershipInv => BorrowsAreValid
  BY DEF OwnershipInv, DatabaseHolds, QueryHolds, BorrowsAreValid
<1>2. QED
  BY OwnershipInvariant, <1>1, PTL

\* After DETACH, or after an ATTACH that failed in any step, C++ has given back all
\* that was handed over to it.  It is no statement about what Rust made in a call
\* that failed: the model loses that for good.
THEOREM NothingStays == Spec => []NothingLeft
<1>1. OwnershipInv => NothingLeft
  <2> SUFFICES ASSUME OwnershipInv, attach = "detached" PROVE alive = {}
    BY DEF NothingLeft
  <2>1. \A w \in DatabaseOwners : held[w] = Null
    BY DEF OwnershipInv, DatabaseHolds, DatabaseOwners
  <2>2. \A q \in Queries : \A w \in QueryOwners(q) : held[w] = Null
    <3> TAKE q \in Queries
    <3>1. QueryHolds(q) /\ query[q] = "none"
      BY DEF OwnershipInv, QueryHolds, Typed, Places
    <3>2. QED
      BY <3>1 DEF QueryHolds, QueryOwners
  <2>3. \A w \in Owners : held[w] = Null
    BY <2>1, <2>2, OwnersDiffer
  <2>4. \A a \in alive : a # Null /\ \E w \in Owners : held[w] = a
    BY OwnershipAssumption DEF OwnershipInv, Good, HeapType, Heap
  <2>5. QED
    BY <2>3, <2>4
<1>2. QED
  BY OwnershipInvariant, <1>1, PTL
=============================================================================
