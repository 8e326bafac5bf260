-------------------------- MODULE CodaPushdownProofs --------------------------
(***************************************************************************)
(* Theorems about CodaPushdown, for every table, query and set of columns  *)
(* that can be filtered or sorted by.                                      *)
(***************************************************************************)
EXTENDS CodaPushdown, FiniteSetTheorems, TLAPS

\* A row that a filter pushed to Coda keeps is one that DuckDB would have kept.
KeptBy(fs, r) == \A i \in DOMAIN fs : Keeps(fs[i], r)

\* What was pushed and what stayed keep the rows that the query is about.
NoFilterLost ==
    ~AsksForNull => \A r \in Rows :
        r \in Found(bind.pushed_query) /\ KeptBy(filters, r) <=> KeptBy(where, r)

\* A limit is in the scan only when nothing above it removes or sorts rows.
LimitBelongs ==
    bind.pushed_limit > 0 =>
        /\ filters = <<>> /\ CanSort(order)
        /\ bind.pushed_limit = order.limit /\ bind.pushed_sort_by = order.column

QueryType ==
    /\ where \in Seq(Filter)
    /\ order \in Order \cup {NoOrder}
    /\ place \in [Columns -> [Rows -> Rows]]
    /\ MaxFilters \in Nat

PushInv ==
    /\ TypeOK /\ QueryType /\ NoFilterLost /\ LimitBelongs
    /\ phase = "filters" => bind.pushed_limit = 0
    /\ AnswerIsRight
-----------------------------------------------------------------------------
(* Sequences of filters.                                                   *)

\* Taking one element out of a sequence leaves the others.
LEMMA Removed ==
    ASSUME NEW S, NEW s \in Seq(S), NEW i \in DOMAIN s
    PROVE  /\ RemoveAt(s, i) \in Seq(S)
           /\ Len(RemoveAt(s, i)) = Len(s) - 1
           /\ \A j \in 1..(i - 1) : RemoveAt(s, i)[j] = s[j]
           /\ \A j \in i..(Len(s) - 1) : RemoveAt(s, i)[j] = s[j + 1]
<1>1. i \in 1..Len(s) /\ Len(s) \in Nat
  OBVIOUS
<1>2. /\ SubSeq(s, 1, i - 1) \in Seq(S) /\ Len(SubSeq(s, 1, i - 1)) = i - 1
      /\ \A j \in 1..(i - 1) : SubSeq(s, 1, i - 1)[j] = s[j]
  BY <1>1
<1>3. /\ SubSeq(s, i + 1, Len(s)) \in Seq(S) /\ Len(SubSeq(s, i + 1, Len(s))) = Len(s) - i
      /\ \A j \in 1..(Len(s) - i) : SubSeq(s, i + 1, Len(s))[j] = s[i + j]
  BY <1>1
<1> DEFINE front == SubSeq(s, 1, i - 1)
           back  == SubSeq(s, i + 1, Len(s))
<1>4. RemoveAt(s, i) = front \o back
  BY DEF RemoveAt
<1> HIDE DEF front, back
<1>5. /\ front \in Seq(S) /\ Len(front) = i - 1 /\ \A j \in 1..(i - 1) : front[j] = s[j]
      /\ back \in Seq(S) /\ Len(back) = Len(s) - i /\ \A j \in 1..(Len(s) - i) : back[j] = s[i + j]
  BY <1>2, <1>3 DEF front, back
<1>6. front \o back \in Seq(S) /\ Len(front \o back) = Len(s) - 1
  BY <1>1, <1>5
<1>7. \A j \in 1..(i - 1) : (front \o back)[j] = s[j]
  BY <1>1, <1>5
<1>8. ASSUME NEW j \in i..(Len(s) - 1) PROVE (front \o back)[j] = s[j + 1]
  <2>1. (front \o back)[j] = back[j - (i - 1)]
    <3>1. /\ Len(front) = i - 1 /\ Len(back) = Len(s) - i
          /\ front \in Seq(S) /\ back \in Seq(S)
      BY <1>5
    <3>2. j \in (Len(front) + 1)..(Len(front) + Len(back))
      BY <1>1, <1>8, <3>1
    <3>3. (front \o back)[j] = back[j - Len(front)]
      BY ONLY <3>1, <3>2
    <3>4. QED
      BY <3>1, <3>3
  <2>2. j - (i - 1) \in 1..(Len(s) - i) /\ i + (j - (i - 1)) = j + 1
    BY <1>1, <1>8
  <2>3. QED
    BY <2>1, <2>2, <1>5
<1>9. QED
  BY <1>4, <1>6, <1>7, <1>8

\* A filter and the others keep the rows that all of them keep.
LEMMA KeptWithout ==
    ASSUME NEW fs \in Seq(Filter), NEW i \in DOMAIN fs, NEW r
    PROVE  KeptBy(fs, r) <=> Keeps(fs[i], r) /\ KeptBy(RemoveAt(fs, i), r)
<1> DEFINE rest == RemoveAt(fs, i)
<1>1. /\ rest \in Seq(Filter) /\ Len(rest) = Len(fs) - 1
      /\ \A j \in 1..(i - 1) : rest[j] = fs[j]
      /\ \A j \in i..(Len(fs) - 1) : rest[j] = fs[j + 1]
  BY Removed
<1> HIDE DEF rest
<1>2. Len(fs) \in Nat /\ i \in 1..Len(fs) /\ DOMAIN fs = 1..Len(fs) /\ DOMAIN rest = 1..(Len(fs) - 1)
  BY <1>1
<1>3. ASSUME KeptBy(fs, r) PROVE KeptBy(rest, r)
  <2>1. ASSUME NEW j \in DOMAIN rest PROVE \E k \in DOMAIN fs : rest[j] = fs[k]
    BY <1>1, <1>2, <2>1
  <2>2. QED
    BY <1>3, <2>1 DEF KeptBy
<1>4. ASSUME KeptBy(rest, r), Keeps(fs[i], r) PROVE KeptBy(fs, r)
  <2>1. ASSUME NEW k \in DOMAIN fs, k # i PROVE \E j \in DOMAIN rest : rest[j] = fs[k]
    <3>1. CASE k < i
      BY <1>1, <1>2, <3>1
    <3>2. CASE k > i
      <4>1. k - 1 \in i..(Len(fs) - 1) /\ (k - 1) + 1 = k /\ k - 1 \in DOMAIN rest
        BY <1>2, <3>2
      <4>2. QED
        BY <1>1, <4>1
    <3>3. QED
      BY <1>2, <2>1, <3>1, <3>2
  <2>2. QED
    BY <1>4, <2>1 DEF KeptBy
<1>5. QED
  BY <1>2, <1>3, <1>4 DEF KeptBy, rest

\* A pushed equality means to Coda what it meant to DuckDB, unless JSON turned its
\* constant into null.
LEMMA PushedMeansTheSame ==
    ASSUME NEW f \in Filter, CanPush(f), build_equality_query(f).literal # Blank, NEW r \in Rows
    PROVE  /\ build_equality_query(f) \in Query
           /\ r \in Found(build_equality_query(f)) <=> Keeps(f, r)
<1>1. f \in Equality /\ f.constant # Blank /\ f.column \in Columns
  BY DEF CanPush, Equality
<1>2. f.constant \in Finite
  BY <1>1 DEF build_equality_query, Equality
<1>3. f.constant \notin NonFinite
  BY <1>2, PushdownAssumption
<1>4. f \notin Other
  BY <1>1 DEF Equality, Other
<1>5. build_equality_query(f) = [column |-> f.column, literal |-> f.constant]
  BY <1>3 DEF build_equality_query
<1>6. build_equality_query(f) \in Query
  BY <1>1, <1>2, <1>5 DEF Query, Cell
<1>7. build_equality_query(f) # NoQuery
  BY <1>6, PushdownAssumption
<1>8. QED
  BY <1>2, <1>4, <1>5, <1>6, <1>7 DEF Found, Keeps
-----------------------------------------------------------------------------
(* The limit.                                                              *)

LEMMA LimitedIsPart ==
    ASSUME NEW S, NEW o
    PROVE  Limited(S, o) \subseteq S
BY DEF Limited, First

\* The first n of the first n are the first n.
LEMMA FirstTwice ==
    ASSUME NEW S \in SUBSET Rows, NEW at, NEW n \in Nat
    PROVE  First(First(S, at, n), at, n) = First(S, at, n)
<1> DEFINE below(T, r) == {s \in T : at[s] < at[r]}
<1>1. SUFFICES ASSUME NEW r \in First(S, at, n)
               PROVE  Cardinality(below(First(S, at, n), r)) < n
  BY DEF First
<1>2. IsFiniteSet(Rows)
  BY PushdownAssumption, FS_Interval DEF Rows
<1>3. IsFiniteSet(below(S, r)) /\ Cardinality(below(S, r)) \in Nat
  <2>1. below(S, r) \in SUBSET Rows
    OBVIOUS
  <2>2. QED
    BY <1>2, <2>1, FS_Subset, FS_CardinalityType
<1>4. below(First(S, at, n), r) \in SUBSET below(S, r)
  BY DEF First
<1>5. /\ Cardinality(below(First(S, at, n), r)) <= Cardinality(below(S, r))
      /\ Cardinality(below(First(S, at, n), r)) \in Nat
  BY <1>3, <1>4, FS_Subset, FS_CardinalityType
<1>6. Cardinality(below(S, r)) < n
  BY <1>1 DEF First
<1>7. QED
  BY <1>3, <1>5, <1>6

-----------------------------------------------------------------------------
(* The steps.                                                              *)

LEMMA InitPushes == Init => PushInv
<1> SUFFICES ASSUME Init PROVE PushInv
  OBVIOUS
<1>1. where \in Seq(Filter) /\ Len(where) <= MaxFilters
  <2>1. PICK m \in 0..MaxFilters : where \in [1..m -> Filter]
    BY DEF Init, BoundedSeq, SeqOf
  <2>2. m \in Nat /\ m <= MaxFilters
    BY <2>1, PushdownAssumption
  <2>3. QED
    BY <2>1, <2>2
<1>2. bind = [pushed_query |-> NoQuery, pushed_sort_by |-> NoOrder, pushed_limit |-> 0]
  BY DEF Init
<1>3. bind \in BindData /\ bind.pushed_limit = 0 /\ bind.pushed_sort_by = NoOrder
      /\ bind.pushed_query = NoQuery
  BY <1>2, PushdownAssumption DEF BindData
<1>4. TypeOK
  BY <1>1, <1>3 DEF Init, TypeOK
<1>5. QueryType
  BY <1>1, PushdownAssumption DEF Init, QueryType
<1>6. NoFilterLost
  BY <1>3 DEF Init, NoFilterLost, Found
<1>7. QED
  BY <1>3, <1>4, <1>5, <1>6 DEF Init, PushInv, LimitBelongs, AnswerIsRight

LEMMA FilterPushes == PushInv /\ PushdownComplexFilter => PushInv'
<1> SUFFICES ASSUME PushInv, PushdownComplexFilter PROVE PushInv'
  OBVIOUS
<1>1. PICK i \in DOMAIN filters :
        /\ CanPush(filters[i])
        /\ bind' = [bind EXCEPT !.pushed_query = build_equality_query(filters[i])]
        /\ filters' = RemoveAt(filters, i)
  BY DEF PushdownComplexFilter
<1> DEFINE f == filters[i]
<1>2. /\ filters \in Seq(Filter) /\ Len(filters) <= MaxFilters /\ f \in Filter
      /\ bind \in BindData /\ bind.pushed_limit = 0 /\ bind.pushed_query = NoQuery
      /\ phase = "filters" /\ phase' = phase /\ answer' = answer
      /\ table' = table /\ where' = where /\ order' = order /\ place' = place
  BY DEF PushInv, TypeOK, PushdownComplexFilter, query
<1>3. build_equality_query(f) \in Query
  <2>1. f \in Equality /\ f.constant # Blank /\ f.column \in Columns
    BY <1>1 DEF CanPush, Equality
  <2>2. f.constant \notin NonFinite => f.constant \in Finite
    BY <2>1 DEF Equality
  <2>3. QED
    BY <2>1, <2>2 DEF build_equality_query, Query, Cell
<1>4. /\ bind' \in BindData /\ bind'.pushed_query = build_equality_query(f)
      /\ bind'.pushed_limit = bind.pushed_limit /\ bind'.pushed_sort_by = bind.pushed_sort_by
  <2> HIDE DEF f
  <2>1. bind' = [bind EXCEPT !.pushed_query = build_equality_query(f)]
    BY <1>1 DEF f
  <2>2. QED
    BY <1>2, <1>3, <2>1 DEF BindData
<1>5. filters' \in Seq(Filter) /\ Len(filters') <= MaxFilters
  <2>1. filters' \in Seq(Filter) /\ Len(filters') = Len(filters) - 1
    BY <1>1, <1>2, Removed
  <2>2. Len(filters) \in Nat /\ MaxFilters \in Nat
    BY <1>2, PushdownAssumption
  <2>3. QED
    BY <1>2, <2>1, <2>2
<1>6. TypeOK'
  BY <1>2, <1>4, <1>5 DEF PushInv, TypeOK
<1>7. NoFilterLost'
  <2>1. SUFFICES ASSUME ~AsksForNull', NEW r \in Rows
                 PROVE  (r \in Found(bind.pushed_query))' /\ KeptBy(filters, r)'
                          <=> KeptBy(where, r)'
    BY DEF NoFilterLost
  <2>2. build_equality_query(f).literal # Blank
    BY <2>1, <1>3, <1>4, PushdownAssumption DEF AsksForNull
  <2>3. r \in Found(build_equality_query(f)) <=> Keeps(f, r)
    BY <1>1, <1>2, <2>2, PushedMeansTheSame
  <2>4. KeptBy(filters, r) <=> Keeps(f, r) /\ KeptBy(RemoveAt(filters, i), r)
    BY <1>2, KeptWithout
  <2>5. KeptBy(filters, r) <=> KeptBy(where, r)
    BY <1>2 DEF PushInv, NoFilterLost, AsksForNull, Found
  <2>6. /\ (r \in Found(bind.pushed_query))' <=> r \in Found(build_equality_query(f))
        /\ KeptBy(filters, r)' <=> KeptBy(RemoveAt(filters, i), r)
        /\ KeptBy(where, r)' <=> KeptBy(where, r)
    BY <1>1, <1>2, <1>4 DEF Found, KeptBy, Keeps
  <2>7. QED
    BY <2>3, <2>4, <2>5, <2>6
<1>8. QueryType'
  BY <1>2 DEF PushInv, QueryType
<1>9. LimitBelongs'
  BY <1>2, <1>4 DEF LimitBelongs
<1>10. AnswerIsRight'
  BY <1>2 DEF AnswerIsRight
<1>11. QED
  BY <1>2, <1>4, <1>6, <1>7, <1>8, <1>9, <1>10 DEF PushInv

LEMMA OrderPushes == PushInv /\ SetScanOrder => PushInv'
<1> SUFFICES ASSUME PushInv, SetScanOrder PROVE PushInv'
  OBVIOUS
<1>1. /\ filters' = filters /\ phase' = "order" /\ answer' = answer
      /\ table' = table /\ where' = where /\ order' = order /\ place' = place
      /\ bind \in BindData /\ bind.pushed_limit = 0 /\ bind.pushed_sort_by = NoOrder
      /\ order \in Order \cup {NoOrder} /\ bind.pushed_limit \in Nat
  BY PushdownAssumption DEF PushInv, TypeOK, QueryType, SetScanOrder, query, BindData
<1>2. /\ bind' \in BindData /\ bind'.pushed_query = bind.pushed_query
      /\ bind'.pushed_limit > 0 <=> bind'.pushed_sort_by # NoOrder
      /\ LimitBelongs'
  <2>1. CASE filters = <<>> /\ CanSort(order)
    <3>1. bind' = [bind EXCEPT !.pushed_sort_by = order.column, !.pushed_limit = order.limit]
      BY <2>1 DEF SetScanOrder, Copy
    <3>2. order.column \in Columns /\ order.limit \in 1..NRows /\ order.column # NoOrder
      BY <1>1, <2>1, PushdownAssumption DEF CanSort, Order
    <3>3. order.limit \in 0..NRows /\ order.limit > 0
      BY <3>2, PushdownAssumption
    <3>4. /\ bind' \in BindData /\ bind'.pushed_query = bind.pushed_query
          /\ bind'.pushed_limit = order.limit /\ bind'.pushed_sort_by = order.column
      BY <1>1, <3>1, <3>2, <3>3 DEF BindData
    <3>5. CanSort(order)' <=> CanSort(order)
      BY <1>1 DEF CanSort
    <3>6. QED
      BY <1>1, <2>1, <3>2, <3>3, <3>4, <3>5 DEF LimitBelongs
  <2>2. CASE ~(filters = <<>> /\ CanSort(order))
    <3>1. bind' = bind
      BY <2>2 DEF SetScanOrder, Copy
    <3>2. QED
      BY <1>1, <3>1 DEF LimitBelongs
  <2>3. QED
    BY <2>1, <2>2
<1>3. TypeOK'
  BY <1>1, <1>2 DEF PushInv, TypeOK
<1>4. NoFilterLost'
  BY <1>1, <1>2 DEF PushInv, NoFilterLost, AsksForNull, Found, KeptBy, Keeps
<1>5. QueryType'
  BY <1>1 DEF PushInv, QueryType
<1>6. AnswerIsRight'
  BY <1>1 DEF AnswerIsRight
<1>7. QED
  BY <1>1, <1>2, <1>3, <1>4, <1>5, <1>6 DEF PushInv

\* What the scan finds and DuckDB leaves of it, in either case of a limit.
LEMMA RightAnswer ==
    ASSUME PushInv, ~AsksForNull
    PROVE  Limited(Kept(Scanned(bind), filters), order) = Limited(Kept(Rows, where), order)
<1> DEFINE found == Found(bind.pushed_query)
<1>1. found \in SUBSET Rows
  BY DEF Found
<1>2. Kept(found, filters) = Kept(Rows, where)
  <2>1. \A r \in Rows : r \in found /\ KeptBy(filters, r) <=> KeptBy(where, r)
    BY DEF PushInv, NoFilterLost
  <2>2. \A S, fs : Kept(S, fs) = {r \in S : KeptBy(fs, r)}
    BY DEF Kept, KeptBy
  <2> HIDE DEF found
  <2>3. Kept(found, filters) = {r \in found : KeptBy(filters, r)}
        /\ Kept(Rows, where) = {r \in Rows : KeptBy(where, r)}
    BY <2>2
  <2>4. QED
    BY <1>1, <2>1, <2>3
<1>3. CASE bind.pushed_limit = 0
  BY <1>2, <1>3 DEF Scanned
<1>4. CASE bind.pushed_limit > 0
  <2>1. /\ filters = <<>> /\ order # NoOrder /\ order.ascending
        /\ bind.pushed_limit = order.limit /\ bind.pushed_sort_by = order.column
        /\ bind.pushed_sort_by # NoOrder /\ order \in Order
    BY <1>4 DEF PushInv, LimitBelongs, CanSort, TypeOK, QueryType
  <2>2. order.limit \in Nat /\ order.limit # 0
    BY <1>4, <2>1, PushdownAssumption DEF Order
  <2> DEFINE at == place[order.column]
  <2>3. Scanned(bind) = First(found, at, order.limit)
    BY <2>1, <2>2 DEF Scanned
  <2>4. \A S : Kept(S, filters) = S
    BY <2>1 DEF Kept
  <2>5. \A S : Limited(S, order) = First(S, at, order.limit)
    BY <2>1 DEF Limited
  <2>6. First(First(found, at, order.limit), at, order.limit) = First(found, at, order.limit)
    BY <1>1, <2>2, FirstTwice
  <2> HIDE DEF at, found
  <2>7. Kept(found, filters) = found
    BY <2>4
  <2>8. QED
    BY <1>2, <2>3, <2>4, <2>5, <2>6, <2>7
<1>5. bind.pushed_limit \in Nat
  BY PushdownAssumption DEF PushInv, TypeOK, BindData
<1>6. QED
  BY <1>3, <1>4, <1>5

LEMMA ExecutePushes == PushInv /\ Execute => PushInv'
<1> SUFFICES ASSUME PushInv, Execute PROVE PushInv'
  OBVIOUS
<1>1. /\ filters' = filters /\ phase' = "done" /\ bind' = bind
      /\ table' = table /\ where' = where /\ order' = order /\ place' = place
  BY DEF Execute, Copy, query
<1>2. answer' = Limited(Kept(Scanned(bind), filters), order)
  BY <1>1 DEF Execute
<1>3. answer' \subseteq Rows
  <2>1. Scanned(bind) \subseteq Rows
    BY DEF Scanned, Found, First
  <2>2. Kept(Scanned(bind), filters) \subseteq Rows
    BY <2>1 DEF Kept
  <2>3. QED
    BY <1>2, <2>2, LimitedIsPart
<1>4. TypeOK'
  BY <1>1, <1>3 DEF PushInv, TypeOK
<1>5. NoFilterLost'
  BY <1>1 DEF PushInv, NoFilterLost, AsksForNull, Found, KeptBy, Keeps
<1>6. QueryType' /\ LimitBelongs'
  BY <1>1 DEF PushInv, QueryType, LimitBelongs, CanSort
<1>7. AnswerIsRight'
  <2>1. SUFFICES ASSUME ~AsksForNull' PROVE answer' = Limited(Kept(Rows, where), order)'
    BY DEF AnswerIsRight
  <2>2. ~AsksForNull
    BY <1>1, <2>1 DEF AsksForNull
  <2>3. answer' = Limited(Kept(Rows, where), order)
    BY <1>2, <2>2, RightAnswer
  <2>4. Limited(Kept(Rows, where), order)' = Limited(Kept(Rows, where), order)
    BY <1>1 DEF Limited, Kept, Keeps, First
  <2>5. QED
    BY <2>3, <2>4
<1>8. QED
  BY <1>1, <1>4, <1>5, <1>6, <1>7 DEF PushInv

\* The invariant behind both theorems: no filter is lost between the plan and the
\* request, and a limit is in the request only where it may be.
THEOREM PushdownInvariant == Spec => []PushInv
<1>1. PushInv /\ UNCHANGED vars => PushInv'
  <2> SUFFICES ASSUME PushInv, UNCHANGED vars PROVE PushInv'
    OBVIOUS
  <2>1. /\ table' = table /\ place' = place /\ where' = where /\ order' = order
        /\ filters' = filters /\ bind' = bind /\ answer' = answer /\ phase' = phase
    BY DEF vars, query
  <2>2. TypeOK' /\ QueryType' /\ LimitBelongs'
    BY <2>1 DEF PushInv, TypeOK, QueryType, LimitBelongs, CanSort
  <2>3. NoFilterLost'
    BY <2>1 DEF PushInv, NoFilterLost, AsksForNull, Found, KeptBy, Keeps
  <2>4. AnswerIsRight'
    <3>1. Limited(Kept(Rows, where), order)' = Limited(Kept(Rows, where), order)
      BY <2>1 DEF Limited, Kept, Keeps, First
    <3>2. QED
      BY <2>1, <3>1 DEF PushInv, AnswerIsRight, AsksForNull
  <2>5. QED
    BY <2>1, <2>2, <2>3, <2>4 DEF PushInv
<1>2. PushInv /\ [Next]_vars => PushInv'
  BY <1>1, FilterPushes, OrderPushes, ExecutePushes DEF Next
<1>3. QED
  BY <1>2, InitPushes, PTL DEF Spec

\* A limit is in the bind data exactly when an order is (rust_bridge_scan.cpp:256-278).
THEOREM PushdownTypeCorrect == Spec => []TypeOK
<1>1. PushInv => TypeOK
  BY DEF PushInv
<1>2. QED
  BY <1>1, PushdownInvariant, PTL

\* What was pushed and what stayed give the rows the query asks for, whatever the
\* table, the filters, their number and the order.
THEOREM PushdownIsRight == Spec => []AnswerIsRight
<1>1. PushInv => AnswerIsRight
  BY DEF PushInv
<1>2. QED
  BY <1>1, PushdownInvariant, PTL
=============================================================================
