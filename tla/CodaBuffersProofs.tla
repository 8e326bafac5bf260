-------------------------- MODULE CodaBuffersProofs --------------------------
(***************************************************************************)
(* Proofs about CodaBuffers, for chunks of any size: what is reserved is   *)
(* enough, so no pointer into the buffers dangles, and the loops put every *)
(* value where Rust looks for it.                                          *)
(***************************************************************************)
EXTENDS CodaBuffers, Integers, TLAPS

\* What was reserved for the chunk being filled.
Room ==
    /\ phase \in {"rows", "columns"} => op # "none"
    /\ op \in {"insert", "update"} => strings.capacity >= rows * width
    /\ op \in {"update", "delete"} => row_ids.capacity >= rows
    /\ op = "filter" => rows = 1 /\ width = 1
    /\ op = "delete" => width = 0
    /\ strings.size = 0 => strings.short = {}

\* Where the value of column c of row r is, in an array of n values of w columns.
At(r, c, w)   == r * w + c
Filled(n)     == Len(values) = n
InPlace       == \A r \in Nat, c \in 0..(width - 1) :
                     At(r, c, width) < Len(values) => values[At(r, c, width) + 1] = <<r, c>>
Named(n)      == named = [r \in 1..n |-> r - 1]
NamedIfAny(n) == op \in {"update", "delete"} => row_ids.size = n /\ Named(n)

\* What the loops have pushed when they are at row_idx and col_idx.
Pushed ==
    /\ InPlace
    /\ phase = "rows"    => Filled(At(row_idx, 0, width)) /\ NamedIfAny(row_idx)
    /\ phase = "columns" => /\ row_idx < rows
                            /\ Filled(At(row_idx, col_idx, width)) /\ NamedIfAny(row_idx + 1)
    /\ phase = "called"  => row_idx = rows /\ Filled(At(rows, 0, width)) /\ NamedIfAny(rows)

BuffersInv == TypeOK /\ Room /\ BorrowsHold /\ Pushed

(* Arithmetic of the arrays.                                               *)

LEMMA NextSlice ==
    ASSUME NEW a \in Nat, NEW b \in Nat, NEW w \in Nat, a < b
    PROVE  a * w + w <= b * w
<1>1. PICK c \in Nat : b = a + 1 + c
  <2>1. b - a - 1 \in Nat /\ b = a + 1 + (b - a - 1)
    OBVIOUS
  <2>2. QED
    BY <2>1
<1>2. b * w = a * w + w + c * w
  BY <1>1
<1>3. c * w >= 0 /\ c * w \in Int /\ a * w \in Int
  OBVIOUS
<1>4. QED
  BY <1>2, <1>3

LEMMA AtColumnOf ==
    ASSUME NEW r \in Nat, NEW c \in Nat, NEW w \in Nat
    PROVE  At(r, c, w) \in Nat /\ At(r, c, w) = At(r, 0, w) + c
BY DEF At

LEMMA AtRow ==
    ASSUME NEW r \in Nat, NEW w \in Nat
    PROVE  /\ At(r, 0, w) \in Nat /\ At(r, w, w) = At(r, 0, w) + w
           /\ At(r + 1, 0, w) = At(r, w, w) /\ At(0, 0, w) = 0
           /\ r * w = At(r, 0, w)
BY DEF At

\* Rows follow one another, and what is in a row is before the next one.
LEMMA RowBefore ==
    ASSUME NEW r \in Nat, NEW s \in Nat, NEW w \in Nat, r < s
    PROVE  At(r, w, w) <= At(s, 0, w)
BY NextSlice DEF At

\* No two values have the same place.
LEMMA OnePlace ==
    ASSUME NEW w \in Nat, NEW r \in Nat, NEW s \in Nat,
           NEW c \in 0..(w - 1), NEW d \in 0..(w - 1), At(r, c, w) = At(s, d, w)
    PROVE  r = s /\ c = d
<1>1. At(r, c, w) = At(r, 0, w) + c /\ At(r, 0, w) \in Nat /\ At(r, w, w) = At(r, 0, w) + w
  BY AtColumnOf, AtRow
<1>2. At(s, d, w) = At(s, 0, w) + d /\ At(s, 0, w) \in Nat /\ At(s, w, w) = At(s, 0, w) + w
  BY AtColumnOf, AtRow
<1> DEFINE x == At(r, 0, w)
           y == At(s, 0, w)
<1>3. x \in Nat /\ y \in Nat /\ x + c = y + d
  BY <1>1, <1>2
<1>4. r < s => x + w <= y
  BY <1>1, RowBefore
<1>5. s < r => y + w <= x
  BY <1>2, RowBefore
<1>6. r = s => x = y
  OBVIOUS
<1> HIDE DEF x, y
<1>7. r = s
  BY <1>3, <1>4, <1>5
<1>8. QED
  BY <1>3, <1>6, <1>7

-----------------------------------------------------------------------------
(* The vectors of strings.                                                 *)

LEMMA ReserveRoom ==
    ASSUME NEW n \in Nat
    PROVE  /\ Reserve(NoStrings, n) \in StringVector
           /\ Reserve(NoStrings, n).capacity >= n
           /\ Reserve(NoStrings, n).size = 0
           /\ Reserve(NoStrings, n).short = {} /\ Reserve(NoStrings, n).stale = {}
BY DEF Reserve, NoStrings, StringVector

LEMMA NoStringsType == NoStrings \in StringVector
BY DEF NoStrings, StringVector

\* A push within the reserved room, or the first of all, moves no string that a
\* pointer was borrowed from.
LEMMA PushKeepsBorrows ==
    ASSUME NEW v \in StringVector, NEW kind, v.stale = {},
           v.size < v.capacity \/ v.short = {}
    PROVE  /\ PushAndBorrow(v, kind) \in StringVector
           /\ PushAndBorrow(v, kind).size = v.size + 1
           /\ PushAndBorrow(v, kind).capacity >= v.capacity
           /\ PushAndBorrow(v, kind).stale = {}
BY DEF PushAndBorrow, StringVector

LEMMA InitBuffers == Init => BuffersInv
<1> SUFFICES ASSUME Init PROVE BuffersInv
  OBVIOUS
<1>1. TypeOK /\ Room /\ BorrowsHold
  BY NoStringsType DEF Init, TypeOK, Room, BorrowsHold, Ops, Phases, NoStrings
<1>2. Pushed
  BY DEF Init, Pushed, InPlace, Filled, NamedIfAny, At
<1>3. QED
  BY <1>1, <1>2 DEF BuffersInv

\* At the start of a chunk nothing has been pushed.
LEMMA StartPushed ==
    ASSUME NEW o, NEW n \in Nat, NEW w \in Nat, Start(o, n, w), row_ids'.size = 0
    PROVE  /\ Pushed' /\ rows' = n /\ width' = w /\ op' = o /\ phase' = "rows"
           /\ (row_idx \in 0..rows)' /\ (col_idx \in 0..width)'
           /\ (values \in Seq(Nat \X Nat))' /\ (named \in Seq(Nat))' /\ Len(values') = 0
<1>1. /\ rows' = n /\ width' = w /\ op' = o /\ phase' = "rows" /\ row_idx' = 0 /\ col_idx' = 0
      /\ values' = <<>> /\ named' = <<>>
  BY DEF Start
<1>2. Len(values') = 0 /\ At(0, 0, w) = 0
  BY <1>1, AtColumnOf, AtRow
<1>3. InPlace'
  <2> SUFFICES ASSUME NEW r \in Nat, NEW c \in 0..(w - 1), At(r, c, w) < 0 PROVE FALSE
    BY <1>1, <1>2 DEF InPlace
  <2>1. At(r, c, w) \in Nat
    BY AtColumnOf, AtRow
  <2>2. QED
    BY <2>1
<1>4. Filled(At(row_idx, 0, width))' /\ NamedIfAny(row_idx)'
  <2>1. named' = [r \in 1..0 |-> r - 1]
    BY <1>1
  <2>2. QED
    BY <1>1, <1>2, <2>1 DEF Filled, NamedIfAny, Named
<1>5. Pushed'
  BY <1>1, <1>3, <1>4 DEF Pushed
<1>6. QED
  BY <1>1, <1>2, <1>5

LEMMA StartBuffers ==
    ASSUME BuffersInv,
           \/ \E n \in 1..MaxRows, w \in 1..MaxColumns : StartInsert(n, w) \/ StartUpdate(n, w)
           \/ \E n \in 1..MaxRows : StartDelete(n)
           \/ StartFilter
    PROVE  BuffersInv'
<1>1. ASSUME NEW n \in Nat, NEW w \in Nat \ {0}, StartInsert(n, w) PROVE BuffersInv'
  <2>1. n * w \in Nat
    OBVIOUS
  <2>2. Start("insert", n, w) /\ strings' = Reserve(NoStrings, n * w) /\ row_ids' = NoStrings
    BY <1>1 DEF StartInsert
  <2>3. NoStrings.size = 0 /\ NoStrings.stale = {}
    BY DEF NoStrings
  <2>4. QED
    BY <2>1, <2>2, <2>3, StartPushed, ReserveRoom, NoStringsType
       DEF BuffersInv, TypeOK, Room, BorrowsHold, Ops, Phases
<1>2. ASSUME NEW n \in Nat, NEW w \in Nat \ {0}, StartUpdate(n, w) PROVE BuffersInv'
  <2>1. n * w \in Nat
    OBVIOUS
  <2>2. /\ Start("update", n, w) /\ strings' = Reserve(NoStrings, n * w)
        /\ row_ids' = Reserve(NoStrings, n)
    BY <1>2 DEF StartUpdate
  <2>3. /\ strings' \in StringVector /\ strings'.capacity >= n * w /\ strings'.size = 0
        /\ strings'.short = {} /\ strings'.stale = {}
    BY <2>1, <2>2, ReserveRoom
  <2>4. /\ row_ids' \in StringVector /\ row_ids'.capacity >= n /\ row_ids'.size = 0
        /\ row_ids'.stale = {}
    BY <2>2, ReserveRoom
  <2>5. /\ Pushed' /\ rows' = n /\ width' = w /\ op' = "update" /\ phase' = "rows"
        /\ (row_idx \in 0..rows)' /\ (col_idx \in 0..width)'
        /\ (values \in Seq(Nat \X Nat))' /\ (named \in Seq(Nat))' /\ Len(values') = 0
    BY <2>2, <2>4, StartPushed
  <2>6. QED
    BY <2>3, <2>4, <2>5 DEF BuffersInv, TypeOK, Room, BorrowsHold, Ops, Phases
<1>3. ASSUME NEW n \in Nat, StartDelete(n) PROVE BuffersInv'
  <2>1. Start("delete", n, 0) /\ strings' = NoStrings /\ row_ids' = Reserve(NoStrings, n)
    BY <1>3 DEF StartDelete
  <2>2. NoStrings.size = 0 /\ NoStrings.stale = {} /\ NoStrings.short = {}
    BY DEF NoStrings
  <2>3. QED
    BY <2>1, <2>2, StartPushed, ReserveRoom, NoStringsType
       DEF BuffersInv, TypeOK, Room, BorrowsHold, Ops, Phases
<1>4. ASSUME StartFilter PROVE BuffersInv'
  <2>1. Start("filter", 1, 1) /\ strings' = NoStrings /\ row_ids' = NoStrings
    BY <1>4 DEF StartFilter
  <2>2. NoStrings.size = 0 /\ NoStrings.stale = {} /\ NoStrings.short = {}
    BY DEF NoStrings
  <2>3. QED
    BY <2>1, <2>2, StartPushed, NoStringsType
       DEF BuffersInv, TypeOK, Room, BorrowsHold, Ops, Phases
<1>5. QED
  BY <1>1, <1>2, <1>3, <1>4

\* Into the loop over the columns, with the ids of all rows up to this one.
LEMMA EnterPushed ==
    ASSUME BuffersInv, phase = "rows", MoreRows, EnterColumns, NamedIfAny(row_idx + 1)'
    PROVE  Pushed' /\ (col_idx \in 0..width)'
<1>1. /\ phase' = "columns" /\ col_idx' = 0 /\ row_idx' = row_idx /\ values' = values
      /\ rows' = rows /\ width' = width /\ width \in Nat /\ row_idx < rows
  BY DEF EnterColumns, MoreRows, BuffersInv, TypeOK
<1>2. InPlace' /\ Filled(At(row_idx, col_idx, width))'
  BY <1>1 DEF BuffersInv, Pushed, InPlace, Filled
<1>3. QED
  BY <1>1, <1>2 DEF Pushed

LEMMA PushRowIdBuffers ==
    ASSUME BuffersInv, NEW kind \in Kinds, PushRowId(kind)
    PROVE  BuffersInv'
<1>1. /\ phase = "rows" /\ MoreRows /\ op \in {"update", "delete"} /\ EnterColumns
      /\ row_ids' = PushAndBorrow(row_ids, kind) /\ named' = Append(named, row_idx)
      /\ UNCHANGED <<op, rows, width, row_idx, strings, values>> /\ phase' = "columns"
  BY DEF PushRowId, EnterColumns
<1>2. /\ row_ids \in StringVector /\ row_ids.stale = {} /\ row_ids.capacity >= rows
      /\ rows \in Nat /\ row_ids.size \in Nat /\ row_ids.capacity \in Nat
      /\ row_idx \in Nat /\ row_idx < rows /\ row_ids.size = row_idx /\ Named(row_idx)
  BY <1>1 DEF BuffersInv, TypeOK, Room, BorrowsHold, Pushed, NamedIfAny, MoreRows, StringVector
<1>3. /\ row_ids' \in StringVector /\ row_ids'.size = row_ids.size + 1
      /\ row_ids'.capacity >= row_ids.capacity /\ row_ids'.stale = {}
  BY <1>1, <1>2, PushKeepsBorrows
<1>4. row_ids'.capacity >= rows /\ row_ids'.size <= rows
  BY <1>2, <1>3 DEF StringVector
<1>5. Named(row_idx + 1)'
  <2>1. named' = Append([r \in 1..row_idx |-> r - 1], row_idx)
    BY <1>1, <1>2 DEF Named
  <2>2. Append([r \in 1..row_idx |-> r - 1], row_idx) = [r \in 1..(row_idx + 1) |-> r - 1]
    BY <1>2
  <2>3. row_idx' = row_idx
    BY <1>1
  <2>4. QED
    BY <2>1, <2>2, <2>3 DEF Named
<1>6. NamedIfAny(row_idx + 1)'
  BY <1>1, <1>2, <1>3, <1>5 DEF NamedIfAny
<1>7. Pushed' /\ (col_idx \in 0..width)'
  BY <1>1, <1>6, EnterPushed
<1>8. named' \in Seq(Nat)
  BY <1>1, <1>2 DEF BuffersInv, TypeOK
<1>9. TypeOK'
  BY <1>1, <1>3, <1>4, <1>7, <1>8 DEF BuffersInv, TypeOK, Phases
<1>10. Room' /\ BorrowsHold'
  BY <1>1, <1>3, <1>4 DEF BuffersInv, Room, BorrowsHold
<1>11. QED
  BY <1>7, <1>9, <1>10 DEF BuffersInv

LEMMA BeginRowBuffers == BuffersInv /\ BeginRow => BuffersInv'
<1> SUFFICES ASSUME BuffersInv, BeginRow PROVE BuffersInv'
  OBVIOUS
<1>1. /\ phase = "rows" /\ MoreRows /\ op \in {"insert", "filter"} /\ EnterColumns
      /\ UNCHANGED <<op, rows, width, row_idx, strings, values, row_ids, named>>
      /\ phase' = "columns"
  BY DEF BeginRow, EnterColumns
<1>2. NamedIfAny(row_idx + 1)'
  BY <1>1 DEF NamedIfAny
<1>3. Pushed' /\ (col_idx \in 0..width)'
  BY <1>1, <1>2, EnterPushed
<1>4. TypeOK'
  BY <1>1, <1>3 DEF BuffersInv, TypeOK, Phases
<1>5. Room' /\ BorrowsHold'
  BY <1>1 DEF BuffersInv, Room, BorrowsHold
<1>6. QED
  BY <1>3, <1>4, <1>5 DEF BuffersInv

\* How many values there are when the next one is pushed.
LEMMA NextPlace ==
    ASSUME BuffersInv, AtColumn
    PROVE  /\ width \in Nat /\ rows \in Nat /\ row_idx \in Nat /\ col_idx \in 0..(width - 1)
           /\ row_idx < rows /\ Len(values) = At(row_idx, col_idx, width)
           /\ Len(values) < rows * width /\ rows * width \in Nat
<1>1. /\ width \in Nat /\ rows \in Nat /\ row_idx \in Nat /\ col_idx \in 0..(width - 1)
      /\ row_idx < rows /\ Len(values) = At(row_idx, col_idx, width) /\ col_idx \in Nat
  BY DEF BuffersInv, TypeOK, Pushed, Filled, AtColumn, MoreColumns
<1>2. /\ At(row_idx, col_idx, width) = At(row_idx, 0, width) + col_idx
      /\ At(row_idx, width, width) = At(row_idx, 0, width) + width
      /\ At(row_idx, 0, width) \in Nat /\ At(rows, 0, width) \in Nat
  <2>1. At(row_idx, col_idx, width) = At(row_idx, 0, width) + col_idx
    BY <1>1, AtColumnOf
  <2>2. At(row_idx, width, width) = At(row_idx, 0, width) + width /\ At(row_idx, 0, width) \in Nat
    BY <1>1, AtRow
  <2>3. At(rows, 0, width) \in Nat
    BY <1>1, AtRow
  <2>4. QED
    BY <2>1, <2>2, <2>3
<1>3. At(row_idx, width, width) <= At(rows, 0, width)
  BY <1>1, RowBefore
<1>4. rows * width = At(rows, 0, width)
  BY <1>1, AtColumnOf, AtRow
<1>5. QED
  BY <1>1, <1>2, <1>3, <1>4

LEMMA ValueFits ==
    ASSUME BuffersInv, AtColumn
    PROVE  strings.size < strings.capacity \/ strings.short = {}
<1>1. /\ strings.size \in Nat /\ strings.capacity \in Nat /\ Len(values) \in Nat
      /\ strings.size <= Len(values) /\ Len(values) < rows * width /\ rows * width \in Nat
  BY NextPlace DEF BuffersInv, TypeOK, StringVector
<1>2. CASE op \in {"insert", "update"}
  BY <1>1, <1>2 DEF BuffersInv, Room
<1>3. CASE op = "filter"
  BY <1>1, <1>3 DEF BuffersInv, Room
<1>4. CASE op = "delete"
  <2>1. width = 0 /\ rows \in Nat
    BY <1>4, NextPlace DEF BuffersInv, Room
  <2>2. rows * width = 0
    BY <2>1
  <2>3. QED
    BY <1>1, <2>2
<1>5. op # "none"
  BY DEF BuffersInv, Room, AtColumn
<1>6. QED
  BY <1>2, <1>3, <1>4, <1>5 DEF BuffersInv, TypeOK, Ops

\* A value pushed is the one of its place, and no other has that place.
LEMMA PushedNext ==
    ASSUME BuffersInv, AtColumn, PushNext
    PROVE  /\ Pushed' /\ values' \in Seq(Nat \X Nat) /\ Len(values') = Len(values) + 1
           /\ Len(values) \in Nat /\ (col_idx \in 0..width)'
<1> DEFINE n == Len(values)
<1>1. /\ width \in Nat /\ rows \in Nat /\ row_idx \in Nat /\ col_idx \in 0..(width - 1)
      /\ row_idx < rows /\ n = At(row_idx, col_idx, width)
  BY NextPlace
<1>2. /\ values' = Append(values, <<row_idx, col_idx>>) /\ col_idx' = col_idx + 1
      /\ UNCHANGED <<op, rows, width, row_idx, row_ids, named, phase>>
      /\ phase = "columns"
  BY DEF PushNext, AtColumn
<1>3. values \in Seq(Nat \X Nat) /\ n \in Nat
  BY DEF BuffersInv, TypeOK
<1>4. <<row_idx, col_idx>> \in Nat \X Nat
  BY <1>1
<1>5. /\ values' \in Seq(Nat \X Nat) /\ Len(values') = n + 1
      /\ \A k \in 1..n : values'[k] = values[k]
      /\ values'[n + 1] = <<row_idx, col_idx>>
  BY <1>2, <1>3, <1>4
<1> HIDE DEF n
<1>6. InPlace'
  <2> SUFFICES ASSUME NEW r \in Nat, NEW c \in 0..(width - 1), At(r, c, width) < n + 1
               PROVE  values'[At(r, c, width) + 1] = <<r, c>>
    BY <1>2, <1>5 DEF InPlace
  <2> DEFINE k == At(r, c, width)
  <2>1. k \in Nat
    BY <1>1, AtColumnOf, AtRow
  <2>2. CASE k < n
    <3>1. values[k + 1] = <<r, c>>
      BY <2>2 DEF BuffersInv, Pushed, InPlace, n
    <3> HIDE DEF k
    <3>2. k + 1 \in 1..n
      BY <1>3, <2>1, <2>2
    <3>3. values'[k + 1] = <<r, c>>
      BY <1>5, <3>1, <3>2
    <3>4. QED
      BY <3>3 DEF k
  <2>3. CASE k = n
    <3>1. r = row_idx /\ c = col_idx
      BY <1>1, <2>3, OnePlace
    <3>2. QED
      BY <1>5, <2>3, <3>1
  <2>4. k < n \/ k = n
    <3> HIDE DEF k
    <3>1. k < n + 1
      BY DEF k
    <3>2. QED
      BY <1>3, <2>1, <3>1
  <2>5. QED
    BY <2>2, <2>3, <2>4
<1>7. Filled(At(row_idx, col_idx, width))'
  <2>1. /\ At(row_idx, col_idx, width) = At(row_idx, 0, width) + col_idx
        /\ At(row_idx, col_idx + 1, width) = At(row_idx, 0, width) + (col_idx + 1)
        /\ At(row_idx, 0, width) \in Nat
    BY <1>1, AtColumnOf, AtRow
  <2>2. Len(values') = At(row_idx, col_idx + 1, width)
    BY <1>1, <1>5, <2>1
  <2>3. QED
    BY <1>2, <2>2 DEF Filled
<1>8. NamedIfAny(row_idx + 1)'
  BY <1>2 DEF BuffersInv, Pushed, NamedIfAny, Named
<1>9. Pushed'
  BY <1>1, <1>2, <1>6, <1>7, <1>8 DEF Pushed
<1>10. QED
  BY <1>1, <1>2, <1>3, <1>5, <1>9 DEF n

\* What one more value needs of the strings.
LEMMA PushBuffers ==
    ASSUME BuffersInv, AtColumn, PushNext,
           strings' \in StringVector, strings'.stale = {},
           strings'.capacity >= strings.capacity,
           strings'.size \in {strings.size, strings.size + 1},
           strings'.size = 0 => strings'.short = {}
    PROVE  BuffersInv'
<1>1. /\ Pushed' /\ values' \in Seq(Nat \X Nat) /\ Len(values') = Len(values) + 1
      /\ Len(values) \in Nat /\ (col_idx \in 0..width)'
  BY PushedNext
<1>2. UNCHANGED <<op, rows, width, row_idx, row_ids, named, phase>>
  BY DEF PushNext
<1>3. /\ strings.size \in Nat /\ strings.capacity \in Nat /\ strings'.capacity \in Nat
      /\ strings.size <= Len(values) /\ rows * width \in Nat
  BY DEF BuffersInv, TypeOK, StringVector
<1>4. TypeOK'
  BY <1>1, <1>2, <1>3 DEF BuffersInv, TypeOK
<1>5. Room'
  BY <1>2, <1>3 DEF BuffersInv, Room
<1>6. BorrowsHold'
  BY <1>2 DEF BuffersInv, BorrowsHold
<1>7. QED
  BY <1>1, <1>4, <1>5, <1>6 DEF BuffersInv

LEMMA PushValueBuffers ==
    ASSUME BuffersInv, NEW kind \in Kinds, PushValue(kind)
    PROVE  BuffersInv'
<1>1. /\ strings \in StringVector /\ strings.stale = {}
      /\ strings.size \in Nat /\ strings.capacity \in Nat
  BY DEF BuffersInv, TypeOK, BorrowsHold, StringVector
<1>2. AtColumn /\ PushNext /\ strings' = Convert(strings, kind)
  BY DEF PushValue
<1>3. strings.size < strings.capacity \/ strings.short = {}
  BY <1>2, ValueFits
<1>4. CASE kind = "plain"
  <2>1. strings' = strings
    BY <1>2, <1>4 DEF Convert
  <2>2. strings.size = 0 => strings.short = {}
    BY DEF BuffersInv, Room
  <2>3. QED
    BY <1>1, <1>2, <2>1, <2>2, PushBuffers
<1>5. CASE kind # "plain"
  <2>1. strings' = PushAndBorrow(strings, kind)
    BY <1>2, <1>5 DEF Convert
  <2>2. /\ strings' \in StringVector /\ strings'.stale = {}
        /\ strings'.capacity >= strings.capacity /\ strings'.size = strings.size + 1
    BY <1>1, <1>3, <2>1, PushKeepsBorrows
  <2>3. QED
    BY <1>1, <1>2, <2>2, PushBuffers
<1>6. QED
  BY <1>4, <1>5

LEMMA PushUnknownColumnBuffers == BuffersInv /\ PushUnknownColumn => BuffersInv'
<1> SUFFICES ASSUME BuffersInv, PushUnknownColumn PROVE BuffersInv'
  OBVIOUS
<1>1. /\ strings \in StringVector /\ strings.stale = {}
      /\ strings.size \in Nat /\ strings.capacity \in Nat
      /\ strings.size = 0 => strings.short = {}
  BY DEF BuffersInv, TypeOK, Room, BorrowsHold, StringVector
<1>2. AtColumn /\ PushNext /\ strings' = strings
  BY DEF PushUnknownColumn
<1>3. QED
  BY <1>1, <1>2, PushBuffers

LEMMA UnsupportedExpressionBuffers == BuffersInv /\ UnsupportedExpression => BuffersInv'
<1> SUFFICES ASSUME BuffersInv, UnsupportedExpression PROVE BuffersInv'
  OBVIOUS
<1>1. /\ UNCHANGED <<op, rows, width, row_idx, col_idx, strings, row_ids, values, named>>
      /\ phase' = "threw"
  BY DEF UnsupportedExpression
<1>2. InPlace'
  BY <1>1 DEF BuffersInv, Pushed, InPlace
<1>3. QED
  BY <1>1, <1>2 DEF BuffersInv, TypeOK, Room, BorrowsHold, Pushed, Phases

\* The end of a row is the beginning of the next.
LEMMA EndRowBuffers == BuffersInv /\ EndRow => BuffersInv'
<1> SUFFICES ASSUME BuffersInv, EndRow PROVE BuffersInv'
  OBVIOUS
<1>1. /\ phase = "columns" /\ ~MoreColumns /\ row_idx' = row_idx + 1 /\ phase' = "rows"
      /\ UNCHANGED <<op, rows, width, col_idx, strings, row_ids, values, named>>
  BY DEF EndRow
<1>2. /\ width \in Nat /\ row_idx \in Nat /\ rows \in Nat /\ row_idx < rows /\ col_idx = width
      /\ Len(values) = At(row_idx, col_idx, width) /\ NamedIfAny(row_idx + 1)
  BY <1>1 DEF BuffersInv, TypeOK, Pushed, Filled, MoreColumns
<1>3. Filled(At(row_idx, 0, width))'
  <2>1. At(row_idx + 1, 0, width) = At(row_idx, width, width)
    BY <1>2, AtColumnOf, AtRow
  <2>2. QED
    BY <1>1, <1>2, <2>1 DEF Filled
<1>4. InPlace' /\ NamedIfAny(row_idx)'
  BY <1>1, <1>2 DEF BuffersInv, Pushed, InPlace, NamedIfAny, Named
<1>5. Pushed'
  BY <1>1, <1>3, <1>4 DEF Pushed
<1>6. TypeOK'
  BY <1>1, <1>2 DEF BuffersInv, TypeOK, Phases
<1>7. Room' /\ BorrowsHold'
  BY <1>1 DEF BuffersInv, Room, BorrowsHold
<1>8. QED
  BY <1>5, <1>6, <1>7 DEF BuffersInv

LEMMA CallBuffers == BuffersInv /\ Call => BuffersInv'
<1> SUFFICES ASSUME BuffersInv, Call PROVE BuffersInv'
  OBVIOUS
<1>1. /\ phase = "rows" /\ ~MoreRows /\ phase' = "called"
      /\ UNCHANGED <<op, rows, width, row_idx, col_idx, strings, row_ids, values, named>>
  BY DEF Call
<1>2. row_idx = rows /\ Filled(At(row_idx, 0, width)) /\ NamedIfAny(row_idx)
  BY <1>1 DEF BuffersInv, TypeOK, Pushed, MoreRows
<1>3. InPlace' /\ Filled(At(rows, 0, width))' /\ NamedIfAny(rows)'
  BY <1>1, <1>2 DEF BuffersInv, Pushed, InPlace, Filled, NamedIfAny, Named
<1>4. Pushed'
  BY <1>1, <1>2, <1>3 DEF Pushed
<1>5. QED
  BY <1>1, <1>4 DEF BuffersInv, TypeOK, Room, BorrowsHold, Phases

\* What the loops have pushed is what Rust takes.
LEMMA PushedIsTaken == BuffersInv => SlicesMatchRows
<1> SUFFICES ASSUME BuffersInv, phase = "called"
             PROVE  /\ Len(values) = rows * width
                    /\ \A r \in 0..(rows - 1), c \in 0..(width - 1) : Taken(r, c) = <<r, c>>
                    /\ op \in {"update", "delete"} => named = [r \in 1..rows |-> r - 1]
  BY DEF SlicesMatchRows
<1>1. rows \in Nat /\ width \in Nat /\ Len(values) = At(rows, 0, width) /\ NamedIfAny(rows) /\ InPlace
  BY DEF BuffersInv, TypeOK, Pushed, Filled
<1>2. Len(values) = rows * width
  BY <1>1, AtColumnOf, AtRow
<1>3. ASSUME NEW r \in 0..(rows - 1), NEW c \in 0..(width - 1) PROVE Taken(r, c) = <<r, c>>
  <2>1. r \in Nat /\ r < rows /\ c \in Nat
    BY <1>1
  <2>2. /\ At(r, c, width) = At(r, 0, width) + c /\ At(r, 0, width) \in Nat
        /\ At(r, width, width) = At(r, 0, width) + width
    <3>1. At(r, c, width) = At(r, 0, width) + c
      BY <1>1, <2>1, AtColumnOf
    <3>2. At(r, width, width) = At(r, 0, width) + width /\ At(r, 0, width) \in Nat
      BY <1>1, <2>1, AtRow
    <3>3. QED
      BY <3>1, <3>2
  <2>3. At(r, width, width) <= At(rows, 0, width) /\ At(rows, 0, width) \in Nat
    BY <1>1, <2>1, RowBefore, AtColumnOf, AtRow
  <2>4. At(r, c, width) < Len(values)
    BY <1>1, <2>2, <2>3
  <2>5. values[At(r, c, width) + 1] = <<r, c>>
    BY <1>1, <2>1, <2>4 DEF InPlace
  <2>6. QED
    BY <2>5 DEF Taken, At
<1>4. QED
  BY <1>1, <1>2, <1>3 DEF NamedIfAny, Named
-----------------------------------------------------------------------------
\* What is reserved stays ahead of what is pushed, and at every iteration of the
\* loops of rust_bridge_client.cpp the arrays hold exactly the values before it,
\* each in its place, for any chunk.
THEOREM BuffersInvariant == Spec => []BuffersInv
<1>1. BuffersInv /\ [Next]_vars => BuffersInv'
  <2> SUFFICES ASSUME BuffersInv, [Next]_vars PROVE BuffersInv'
    OBVIOUS
  <2>1. CASE \/ \E n \in 1..MaxRows, w \in 1..MaxColumns : StartInsert(n, w) \/ StartUpdate(n, w)
             \/ \E n \in 1..MaxRows : StartDelete(n)
             \/ StartFilter
    BY <2>1, StartBuffers
  <2>2. CASE \E kind \in Kinds : PushRowId(kind)
    BY <2>2, PushRowIdBuffers
  <2>3. CASE \E kind \in Kinds : PushValue(kind)
    BY <2>3, PushValueBuffers
  <2>4. CASE PushUnknownColumn \/ UnsupportedExpression
    BY <2>4, PushUnknownColumnBuffers, UnsupportedExpressionBuffers
  <2>5. CASE BeginRow \/ EndRow
    BY <2>5, BeginRowBuffers, EndRowBuffers
  <2>6. CASE Call
    BY <2>6, CallBuffers
  <2>7. CASE UNCHANGED vars
    BY <2>7 DEF vars, BuffersInv, TypeOK, Room, BorrowsHold, Pushed, InPlace, Filled, NamedIfAny, Named
  <2>8. QED
    BY <2>1, <2>2, <2>3, <2>4, <2>5, <2>6, <2>7 DEF Next
<1>2. QED
  BY InitBuffers, <1>1, PTL DEF Spec

\* The buffers keep their types, and hold no more strings than values.
THEOREM TypeCorrect == Spec => []TypeOK
<1>1. BuffersInv => TypeOK
  BY DEF BuffersInv
<1>2. QED
  BY BuffersInvariant, <1>1, PTL

\* No pointer borrowed from the buffers dangles, for chunks of any size.
THEOREM BorrowsNeverDangle == Spec => []BorrowsHold
<1>1. BuffersInv => BorrowsHold
  BY DEF BuffersInv
<1>2. QED
  BY BuffersInvariant, <1>1, PTL

\* What Rust slices out of the arrays for a cell is what the loops pushed for that
\* cell, though it is told nothing but the counts.
THEOREM SlicesAreRows == Spec => []SlicesMatchRows
<1>1. QED
  BY BuffersInvariant, PushedIsTaken, PTL
=============================================================================
