--------------------------- MODULE CodaCellsProofs ---------------------------
(***************************************************************************)
(* Proofs about CodaCells, for any number of rows and columns, any SET     *)
(* lists, any values, any parsing of Coda's and any numbers serde_json may *)
(* read: type correctness, and that a scan reads from a cell what Coda     *)
(* made of the value its last writer put there.                            *)
(***************************************************************************)
EXTENDS CodaCells, WellFoundedInduction, SequenceTheorems, TLAPS

(* Induction, stated about sets so that the provers can use it.            *)

LEMMA Least ==
    ASSUME NEW U \in SUBSET Nat, NEW n \in U
    PROVE  \E x \in U : \A y \in U : x <= y
<1>1. PICK m \in U : \A k \in U : <<k, m>> \notin OpToRel(<, Nat)
  BY WFMin, NatLessThanWellFounded, Zenon
<1>2. \A k \in U : ~(k < m)
  BY <1>1, Zenon DEF OpToRel
<1>3. QED
  BY <1>2

LEMMA SetInduction ==
    ASSUME NEW S \in SUBSET Nat, 0 \in S, \A n \in S : n + 1 \in S
    PROVE  S = Nat
<1> SUFFICES ASSUME Nat \ S # {} PROVE FALSE
  OBVIOUS
<1>1. PICK m \in Nat \ S : \A k \in Nat \ S : m <= k
  BY Least
<1>2. m # 0 /\ m - 1 \in Nat
  BY <1>1
<1>3. m - 1 \in S
  BY <1>1, <1>2
<1>4. QED
  BY <1>1, <1>3

\* A function can be defined by recursion over 0..n from its first value and the
\* step from one value to the next.
Recurs(f, N, D, e, step) ==
    f \in [0..N -> D] /\ f[0] = e /\ \A i \in 1..N : f[i] = step[f[i - 1]][i]

LEMMA Recursion ==
    ASSUME NEW N \in Nat, NEW D, NEW e \in D, NEW step \in [D -> [1..N -> D]]
    PROVE  \E f : Recurs(f, N, D, e, step)
<1> DEFINE Sol(n, f) == f[0] = e /\ \A i \in 1..n : f[i] = step[f[i - 1]][i]
           Solvable == {n \in Nat : n <= N => \E f \in [0..n -> D] : Sol(n, f)}
<1>1. 0 \in Solvable
  <2> DEFINE f == [i \in 0..0 |-> e]
  <2>1. f \in [0..0 -> D] /\ Sol(0, f)
    OBVIOUS
  <2>2. QED
    BY <2>1
<1>2. ASSUME NEW n \in Solvable PROVE n + 1 \in Solvable
  <2>1. n \in Nat
    BY <1>2
  <2>2. SUFFICES ASSUME n + 1 <= N PROVE \E f \in [0..(n + 1) -> D] : Sol(n + 1, f)
    <3> HIDE DEF Sol
    <3>1. QED
      BY <2>1
  <2>3. PICK g \in [0..n -> D] : Sol(n, g)
    <3> HIDE DEF Sol
    <3>1. n <= N
      BY <2>1, <2>2
    <3>2. QED
      BY <1>2, <3>1
  <2> DEFINE h == [i \in 0..(n + 1) |-> IF i = n + 1 THEN step[g[n]][n + 1] ELSE g[i]]
  <2>4. step[g[n]][n + 1] \in D
    <3>1. g[n] \in D /\ n + 1 \in 1..N
      BY <2>1, <2>2, <2>3
    <3>2. QED
      BY <3>1
  <2>5. h \in [0..(n + 1) -> D]
    BY <2>1, <2>3, <2>4
  <2>6. \A i \in 0..n : h[i] = g[i]
    BY <2>1
  <2>7. h[n + 1] = step[g[n]][n + 1]
    BY <2>1
  <2> HIDE DEF h
  <2>8. Sol(n + 1, h)
    <3>1. h[0] = e
      BY <2>1, <2>3, <2>6
    <3>2. ASSUME NEW i \in 1..(n + 1) PROVE h[i] = step[h[i - 1]][i]
      <4>1. CASE i = n + 1
        BY <2>1, <2>6, <2>7, <4>1
      <4>2. CASE i \in 1..n
        <5>1. i \in 0..n /\ i - 1 \in 0..n
          BY <2>1, <4>2
        <5>2. QED
          BY <2>3, <2>6, <4>2, <5>1
      <4>3. QED
        BY <2>1, <4>1, <4>2
    <3>3. QED
      BY <3>1, <3>2
  <2>9. QED
    BY <2>5, <2>8
<1>3. Solvable = Nat
  <2>1. Solvable \in SUBSET Nat
    OBVIOUS
  <2> HIDE DEF Solvable
  <2>2. QED
    BY <1>1, <1>2, <2>1, SetInduction
<1>4. \E f \in [0..N -> D] : Sol(N, f)
  <2> HIDE DEF Sol
  <2>1. N \in Solvable
    BY <1>3
  <2>2. QED
    BY <2>1
<1>5. QED
  BY <1>4 DEF Recurs

-----------------------------------------------------------------------------
(* Rows in an array.                                                       *)

\* f[i] is the first i rows, one behind the other.
Laid(f, rows, n) ==
    /\ f[1] = rows[1]
    /\ \A i \in 2..n : f[i] = f[i - 1] \o rows[i]
    /\ FlattenSeq(rows) = f[n]

LEMMA FlattenRecursion ==
    ASSUME NEW C, NEW n \in Nat, n > 0, NEW rows \in [1..n -> Seq(C)]
    PROVE  \E f : Laid(f, rows, n)
<1> DEFINE D == Seq(C)
           step == [p \in D |-> [i \in 1..n |-> IF i = 1 THEN rows[i] ELSE p \o rows[i]]]
           Sol(f) == f = [i \in 1..n |-> IF i = 1 THEN rows[i] ELSE f[i - 1] \o rows[i]]
<1>1. PICK g : Recurs(g, n, D, <<>>, step)
  <2>1. <<>> \in D
    OBVIOUS
  <2>2. \A p \in D : \A i \in 1..n : (IF i = 1 THEN rows[i] ELSE p \o rows[i]) \in D
    OBVIOUS
  <2> HIDE DEF D
  <2>3. step \in [D -> [1..n -> D]]
    BY <2>2
  <2> HIDE DEF step
  <2>4. QED
    BY <2>1, <2>3, Recursion
<1> DEFINE h == [i \in 1..n |-> g[i]]
<1>2. Sol(h)
  <2>1. \A i \in 1..n : h[i] = IF i = 1 THEN rows[i] ELSE h[i - 1] \o rows[i]
    <3> TAKE i \in 1..n
    <3> HIDE DEF D
    <3>1. g[i] = step[g[i - 1]][i] /\ g[i - 1] \in D
      <4>1. i - 1 \in 0..n
        OBVIOUS
      <4>2. QED
        BY <1>1, <4>1 DEF Recurs
    <3>2. g[i] = IF i = 1 THEN rows[i] ELSE g[i - 1] \o rows[i]
      BY <3>1
    <3>3. QED
      BY <3>2
  <2>2. h = [i \in 1..n |-> h[i]]
    OBVIOUS
  <2> HIDE DEF h
  <2>3. QED
    BY <2>1, <2>2
<1>3. Sol(CHOOSE f : Sol(f))
  <2> HIDE DEF Sol
  <2>1. QED
    BY <1>2, Zenon
<1>4. FlattenSeq(rows) = (CHOOSE f : Sol(f))[n]
  <2>1. Len(rows) = n
    OBVIOUS
  <2>2. QED
    BY <2>1 DEF FlattenSeq
<1> HIDE DEF Sol
<1>5. PICK f : Sol(f) /\ FlattenSeq(rows) = f[n]
  BY <1>3, <1>4
<1>6. \A i \in 1..n : f[i] = IF i = 1 THEN rows[i] ELSE f[i - 1] \o rows[i]
  BY <1>5 DEF Sol
<1>7. f[1] = rows[1]
  BY <1>6
<1>8. ASSUME NEW i \in 2..n PROVE f[i] = f[i - 1] \o rows[i]
  <2>1. i \in 1..n /\ i # 1
    OBVIOUS
  <2>2. QED
    BY <1>6, <2>1
<1>9. QED
  BY <1>5, <1>7, <1>8 DEF Laid

LEMMA RowsFollow ==
    ASSUME NEW w \in Nat, NEW m \in Nat, NEW r \in 1..m
    PROVE  /\ (r - 1) * w \in Nat /\ (r - 1) * w + w = r * w
           /\ r * w \in Nat /\ m * w \in Nat /\ r * w <= m * w
           /\ (m + 1) * w = m * w + w
OBVIOUS

LEMMA ConcatElements ==
    ASSUME NEW C, NEW s \in Seq(C), NEW x \in Seq(C)
    PROVE  /\ s \o x \in Seq(C) /\ Len(s \o x) = Len(s) + Len(x)
           /\ \A i \in 1..Len(s) : (s \o x)[i] = s[i]
           /\ \A i \in 1..Len(x) : (s \o x)[Len(s) + i] = x[i]
BY ConcatProperties

\* The slices of an array are the rows.
Sliced(array, rows, n, w) ==
    \A r \in 1..n : SubSeq(array, (r - 1) * w + 1, (r - 1) * w + w) = rows[r]

\* Rows of one width, laid into one array, are where the slices look for them.
LEMMA SlicesAreRows ==
    ASSUME NEW C, NEW w \in Nat, NEW n \in Nat, n > 0, NEW rows \in [1..n -> [1..w -> C]]
    PROVE  Sliced(FlattenSeq(rows), rows, n, w)
<1>1. \A r \in 1..n : rows[r] \in Seq(C) /\ Len(rows[r]) = w
  OBVIOUS
<1>2. rows \in [1..n -> Seq(C)]
  BY <1>1
<1>3. PICK f : Laid(f, rows, n)
  BY <1>2, FlattenRecursion
<1> DEFINE Good(m) == /\ f[m] \in Seq(C) /\ Len(f[m]) = m * w
                      /\ \A r \in 1..m : \A c \in 1..w : f[m][(r - 1) * w + c] = rows[r][c]
           Done == {m \in Nat : m + 1 <= n => Good(m + 1)}
<1>4. 0 \in Done
  BY <1>1, <1>3 DEF Laid
<1>5. ASSUME NEW k \in Done PROVE k + 1 \in Done
  <2> DEFINE m == k + 1
  <2>1. k \in Nat /\ m \in Nat /\ m >= 1
    BY <1>5
  <2>2. SUFFICES ASSUME m + 1 <= n PROVE Good(m + 1)
    BY <2>1
  <2>3. Good(m)
    BY <1>5, <2>1, <2>2
  <2>4. f[m + 1] = f[m] \o rows[m + 1] /\ m + 1 \in 1..n
    <3> HIDE DEF m
    <3>1. m + 1 \in 2..n /\ (m + 1) - 1 = m /\ m + 1 \in 1..n
      BY <2>1, <2>2
    <3>2. \A i \in 2..n : f[i] = f[i - 1] \o rows[i]
      BY <1>3 DEF Laid
    <3>3. QED
      BY <3>1, <3>2
  <2> DEFINE s == f[m]
             x == rows[m + 1]
  <2>5. s \in Seq(C) /\ Len(s) = m * w /\ x \in Seq(C) /\ Len(x) = w
        /\ \A r \in 1..m : \A c \in 1..w : s[(r - 1) * w + c] = rows[r][c]
    BY <1>1, <2>3, <2>4
  <2>6. f[m + 1] = s \o x
    BY <2>4
  <2> HIDE DEF m, s
  <2>7. m * w \in Nat /\ (m + 1) * w = m * w + w
    <3>1. m \in 1..m
      BY <2>1
    <3>2. QED
      BY <2>1, <3>1, RowsFollow
  <2>8. /\ s \o x \in Seq(C) /\ Len(s \o x) = (m + 1) * w
        /\ \A i \in 1..(m * w) : (s \o x)[i] = s[i]
        /\ \A i \in 1..w : (s \o x)[m * w + i] = x[i]
    <3> HIDE DEF x
    <3>1. /\ s \o x \in Seq(C) /\ Len(s \o x) = Len(s) + Len(x)
          /\ \A i \in 1..Len(s) : (s \o x)[i] = s[i]
          /\ \A i \in 1..Len(x) : (s \o x)[Len(s) + i] = x[i]
      <4>1. s \in Seq(C) /\ x \in Seq(C)
        BY <2>5
      <4>2. QED
        BY <4>1, ConcatElements
    <3>2. QED
      BY <2>5, <2>7, <3>1
  <2>9. ASSUME NEW r \in 1..(m + 1), NEW c \in 1..w
        PROVE  (s \o x)[(r - 1) * w + c] = rows[r][c]
    <3>1. CASE r \in 1..m
      <4>1. /\ (r - 1) * w \in Nat /\ (r - 1) * w + w <= m * w
        BY <2>1, <3>1, RowsFollow
      <4> DEFINE first == (r - 1) * w
                 total == m * w
      <4>2. (r - 1) * w + c \in 1..(m * w)
        <5>1. first \in Nat /\ total \in Nat /\ first + w <= total
          BY <2>7, <4>1
        <5> HIDE DEF first, total
        <5>2. first + c \in 1..total
          BY <5>1
        <5>3. QED
          BY <5>2 DEF first, total
      <4>3. QED
        BY <2>5, <2>8, <3>1, <4>2
    <3>2. CASE r = m + 1
      <4>1. r - 1 = m
        BY <2>1, <3>2
      <4>2. (s \o x)[m * w + c] = x[c]
        BY <2>8
      <4>3. QED
        BY <3>2, <4>1, <4>2 DEF x
    <3>3. r \in 1..m \/ r = m + 1
      BY <2>1
    <3>4. QED
      BY <3>1, <3>2, <3>3
  <2>10. QED
    BY <2>6, <2>8, <2>9
<1>6. Done = Nat
  <2>1. Done \in SUBSET Nat
    OBVIOUS
  <2> HIDE DEF Done
  <2>2. QED
    BY <1>4, <1>5, <2>1, SetInduction
<1>7. Good(n)
  <2>1. n - 1 \in Done
    <3> HIDE DEF Done
    <3>1. QED
      BY <1>6
  <2> HIDE DEF Good
  <2>2. QED
    BY <2>1
<1>8. FlattenSeq(rows) = f[n]
  BY <1>3 DEF Laid
<1> SUFFICES ASSUME NEW r \in 1..n
             PROVE  SubSeq(f[n], (r - 1) * w + 1, (r - 1) * w + w) = rows[r]
  BY <1>8 DEF Sliced
<1> DEFINE a == (r - 1) * w
           slice == SubSeq(f[n], a + 1, a + w)
<1>9. a \in Nat /\ a + w <= n * w /\ n * w \in Nat
  BY RowsFollow
<1>10. f[n] \in Seq(C) /\ Len(f[n]) = n * w /\ \A c \in 1..w : f[n][a + c] = rows[r][c]
  BY <1>7
<1> HIDE DEF a
<1>11. slice \in Seq(C) /\ Len(slice) = w /\ \A c \in 1..w : slice[c] = f[n][a + c]
  BY <1>9, <1>10
<1> HIDE DEF slice
<1>12. slice = rows[r]
  BY <1>1, <1>10, <1>11
<1>13. QED
  BY <1>12 DEF slice, a

-----------------------------------------------------------------------------
(* One cell.                                                               *)

LEMMA NullIsNoText == Null \notin Texts /\ Null \notin NonFinite
BY CellsAssumption

LEMMA ColumnTypes ==
    ASSUME NEW column \in Kind
    PROVE  /\ column.type \in {"VARCHAR", "BOOLEAN", "DOUBLE"}
           /\ Values[column.type] \subseteq Texts \cup {Null}
BY CellsAssumption DEF Kind, Types

\* The cell of a request is the JSON value that stands for the value.
LEMMA CellIsMeant ==
    ASSUME NEW column \in Kind, NEW v \in Values[column.type]
    PROVE  /\ input_value_json(Convert(column.type, v)) = Meant(column, v)
           /\ Meant(column, v) \in Json
<1> DEFINE j == input_value_json(Convert(column.type, v))
<1>1. column.type \in {"VARCHAR", "BOOLEAN", "DOUBLE"} /\ v \in Texts \cup {Null} /\ Null \notin Texts
  BY ColumnTypes, CellsAssumption
<1>2. CASE v = Null
  <2>1. j = JsonNull /\ Meant(column, v) = JsonNull
    BY <1>2 DEF Convert, input_value_json, Meant
  <2>2. QED
    BY <2>1 DEF Json
<1>3. CASE v # Null /\ column.type = "VARCHAR"
  <2>1. j = [kind |-> "string", text |-> v] /\ Meant(column, v) = [kind |-> "string", text |-> v]
    BY <1>3 DEF Convert, input_value_json, Meant
  <2>2. [kind |-> "string", text |-> v] \in Json
    BY <1>1, <1>3 DEF Json
  <2>3. QED
    BY <2>1, <2>2
<1>4. CASE v # Null /\ column.type = "BOOLEAN"
  <2>1. j = [kind |-> "bool", text |-> v] /\ Meant(column, v) = [kind |-> "bool", text |-> v]
    BY <1>4 DEF Convert, input_value_json, Meant
  <2>2. v \in {"false", "true"}
    BY <1>4, CellsAssumption
  <2>3. [kind |-> "bool", text |-> v] \in Json
    BY <2>2 DEF Json
  <2>4. QED
    BY <2>1, <2>3
<1>5. CASE v \in NonFinite /\ column.type = "DOUBLE"
  <2>1. v # Null
    BY NullIsNoText, <1>5
  <2>2. j = JsonNull /\ Meant(column, v) = JsonNull
    BY <1>5, <2>1 DEF Convert, input_value_json, Meant
  <2>3. QED
    BY <2>2 DEF Json
<1>6. CASE v # Null /\ v \notin NonFinite /\ column.type = "DOUBLE"
  <2>1. j = [kind |-> "number", text |-> v] /\ Meant(column, v) = [kind |-> "number", text |-> v]
    BY <1>6 DEF Convert, input_value_json, Meant
  <2>2. v \in Numbers
    BY <1>6, CellsAssumption
  <2>3. [kind |-> "number", text |-> v] \in Json
    BY <2>2 DEF Json
  <2>4. QED
    BY <2>1, <2>3
<1>7. QED
  BY <1>1, <1>2, <1>3, <1>4, <1>5, <1>6

LEMMA ParsedIsJson ==
    ASSUME NEW parse \in Parsings, NEW j \in Json
    PROVE  Parsed(parse, j) \in Json
BY CellsAssumption DEF Parsed

\* What the kind of a JSON value says of its text.
LEMMA KindOfJson ==
    ASSUME NEW j \in Json
    PROVE  /\ j.kind \in {"string", "compound", "bool", "number", "none", "null"}
           /\ j.kind = "bool" => j.text \in {"false", "true"}
           /\ j.kind = "number" => j.text \in Numbers
<1>1. CASE j \in [kind : {"string", "compound"}, text : Texts]
  BY <1>1
<1>2. CASE j \in [kind : {"bool"}, text : {"false", "true"}]
  BY <1>2
<1>3. CASE j \in [kind : {"number"}, text : Numbers]
  BY <1>3
<1>4. CASE j = NotSent
  BY <1>4 DEF NotSent
<1>5. CASE j = JsonNull
  BY <1>5 DEF JsonNull
<1>6. QED
  BY <1>1, <1>2, <1>3, <1>4, <1>5 DEF Json

\* A cell that its column can show is read as Seen says.
LEMMA CellIsSeen ==
    ASSUME NEW column \in Kind, NEW j \in Json, Shown(column, j)
    PROVE  ReadCell(column, j) \subseteq Seen(column, j)
<1> SUFFICES ASSUME NEW text \in json_value_string(j)
             PROVE  ScanValueToValue(scan_value(column, j, text), column.type) \in Seen(column, j)
  BY DEF ReadCell
<1> DEFINE s == scan_value(column, j, text)
           read == ScanValueToValue(s, column.type)
<1>1. column.type \in {"VARCHAR", "BOOLEAN", "DOUBLE"}
  BY ColumnTypes
<1>2. CASE IsNull(j)
  <2>1. read = Null
    BY <1>2 DEF scan_value, ScanValueToValue
  <2>2. QED
    BY <1>2, <2>1 DEF Seen
<1>3. CASE ~IsNull(j)
  <2>1. /\ s.is_null = FALSE /\ s.value_type = j.kind /\ s.value = text
        /\ s.bool_value = (j.kind = "bool" /\ text = "true")
        /\ s.has_double_value = (column.type = "DOUBLE" /\ text \in DOMAIN CastText["DOUBLE"])
    BY <1>3 DEF scan_value
  <2> HIDE DEF s
  <2>2. CASE column.type = "VARCHAR"
    <3>1. read = text
      BY <2>1, <2>2 DEF ScanValueToValue
    <3>2. CASE j.kind \in {"number", "compound"}
      <4>1. text \in Reread[j.text]
        BY <3>2 DEF json_value_string
      <4>2. Seen(column, j) = Reread[j.text]
        BY <1>3, <2>2, <3>2 DEF Seen
      <4>3. QED
        BY <3>1, <4>1, <4>2 DEF s
    <3>3. CASE j.kind \notin {"number", "compound"}
      <4>1. text = j.text
        BY <3>3 DEF json_value_string
      <4>2. j.kind \in {"bool", "string"}
        BY <1>3, <3>3, KindOfJson DEF IsNull
      <4>3. Seen(column, j) = {j.text}
        BY <1>3, <4>2 DEF Seen
      <4>4. QED
        BY <3>1, <4>1, <4>3 DEF s
    <3>4. QED
      BY <3>2, <3>3
  <2>3. CASE column.type = "BOOLEAN"
    <3>1. j.kind = "bool"
      BY <1>3, <2>3 DEF Shown
    <3>2. text = j.text /\ Seen(column, j) = {j.text}
      BY <1>3, <3>1 DEF json_value_string, Seen
    <3>3. j.text \in {"false", "true"}
      BY <3>1, KindOfJson
    <3>4. read = IF s.bool_value THEN "true" ELSE "false"
      BY <2>1, <2>3, <3>1 DEF ScanValueToValue
    <3>5. read = j.text
      BY <2>1, <3>1, <3>2, <3>3, <3>4
    <3>6. QED
      BY <3>2, <3>5 DEF s
  <2>4. CASE column.type = "DOUBLE"
    <3>1. j.kind = "number"
      BY <1>3, <2>4 DEF Shown
    <3>2. text \in Reread[j.text]
      BY <3>1 DEF json_value_string
    <3>3. j.text \in Numbers
      BY <3>1, KindOfJson
    <3>4. text \in DOMAIN CastText["DOUBLE"]
      BY <3>2, <3>3, CellsAssumption
    <3>5. s.has_double_value
      BY <2>1, <2>4, <3>4
    <3>6. read = CastText["DOUBLE"][text]
      BY <2>1, <2>4, <3>5 DEF ScanValueToValue
    <3>7. Seen(column, j) = {CastText["DOUBLE"][t] : t \in Reread[j.text]}
      BY <1>3, <2>4, <3>1 DEF Seen
    <3>8. QED
      BY <3>2, <3>6, <3>7 DEF s
  <2>5. QED
    BY <1>1, <2>2, <2>3, <2>4
<1>4. QED
  BY <1>2, <1>3

\* Values of a row for columns of the table, none of them named twice, and what Coda
\* may make of them.
Sendable(cs, values, w, parse) ==
    /\ DOMAIN cs = 1..w /\ DOMAIN values = 1..w
    /\ \A i, j \in 1..w : cs[i].id = cs[j].id => i = j
    /\ \A i \in 1..w : cs[i].id \in Columns
                      /\ Parsed(parse[cs[i].id], input_value_json(values[i])) \in Json

\* The row as it should be then: the columns that can be written have what Coda made
\* of their values.
Arrived(put, row, cs, values, w, parse) ==
    /\ put \in [Columns -> Json]
    /\ \A i \in 1..w : cs[i].editable =>
           put[cs[i].id] = Parsed(parse[cs[i].id], input_value_json(values[i]))
    /\ \A c \in Columns : (\A i \in 1..w : cs[i].id = c => ~cs[i].editable)
                          => put[c] = row[c]

\* The cells of a request go to the columns they are for, and to no other.
LEMMA PutCells ==
    ASSUME NEW w \in Nat, NEW cs, NEW values, NEW parse,
           Sendable(cs, values, w, parse), NEW row \in [Columns -> Json]
    PROVE  Arrived(Put(row, write_cells(cs, values), parse), row, cs, values, w, parse)
<1> USE DEF Sendable
<1> DEFINE J(i) == input_value_json(values[i])
           sent == write_cells(cs, values)
           put == Put(row, sent, parse)
           Has(c) == \E s \in sent : s.column = c
           One(c) == CHOOSE s \in sent : s.column = c
<1>1. sent = {[column |-> cs[i].id, value |-> J(i)] : i \in {j \in 1..w : cs[j].editable}}
  BY DEF write_cells, Writable
<1>2. \A c \in Columns : put[c] = IF Has(c) THEN Parsed(parse[c], One(c).value) ELSE row[c]
  BY DEF Put
<1>3. put = [c \in Columns |-> put[c]]
  BY DEF Put
<1> HIDE DEF J, put
<1>4. \A s \in sent : \E i \in 1..w : cs[i].editable /\ s.column = cs[i].id /\ s.value = J(i)
  BY <1>1
<1>5. \A i \in 1..w : cs[i].editable => \E s \in sent : s.column = cs[i].id /\ s.value = J(i)
  <2> SUFFICES ASSUME NEW i \in 1..w, cs[i].editable
               PROVE  \E s \in sent : s.column = cs[i].id /\ s.value = J(i)
    OBVIOUS
  <2>1. [column |-> cs[i].id, value |-> J(i)] \in sent
    BY <1>1
  <2>2. QED
    BY <2>1
<1> HIDE DEF sent
<1>6. \A c : Has(c) => One(c) \in sent /\ One(c).column = c
  OBVIOUS
<1> HIDE DEF One
<1>7. ASSUME NEW i \in 1..w, cs[i].editable PROVE put[cs[i].id] = Parsed(parse[cs[i].id], J(i))
  <2>1. Has(cs[i].id)
    BY <1>5, <1>7
  <2>2. One(cs[i].id) \in sent /\ One(cs[i].id).column = cs[i].id
    BY <1>6, <2>1
  <2>3. PICK k \in 1..w : cs[k].id = cs[i].id /\ One(cs[i].id).value = J(k)
    BY <1>4, <2>2
  <2>4. k = i
    BY <2>3
  <2>5. QED
    BY <1>2, <2>1, <2>3, <2>4
<1>8. ASSUME NEW c \in Columns, \A i \in 1..w : cs[i].id = c => ~cs[i].editable
      PROVE  put[c] = row[c]
  BY <1>2, <1>4, <1>8
<1>9. \A c \in Columns : put[c] \in Json
  <2> TAKE c \in Columns
  <2>1. CASE Has(c)
    <3>1. PICK i \in 1..w : cs[i].id = c /\ One(c).value = J(i)
      BY <1>4, <1>6, <2>1
    <3>2. Parsed(parse[c], J(i)) \in Json
      BY <3>1 DEF J
    <3>3. QED
      BY <1>2, <2>1, <3>1, <3>2
  <2>2. CASE ~Has(c)
    BY <1>2, <2>2
  <2>3. QED
    BY <2>1, <2>2
<1>10. put \in [Columns -> Json]
  BY <1>3, <1>9
<1>11. QED
  BY <1>7, <1>8, <1>10 DEF put, sent, J, Arrived

-----------------------------------------------------------------------------
(* Rows that are written.                                                  *)

\* A SET list names no column twice, and the values are those of its columns.
Fits(cs, w, list, given) ==
    /\ list \in [1..w -> Columns]
    /\ \A i, j \in 1..w : list[i] = list[j] => i = j
    /\ \A i \in 1..w : given[i] \in Values[cs[list[i]].type]

\* The cells of a row, as a request carries them.
Request(cs, w, list, given) ==
    write_cells([i \in 1..w |-> WriteColumn(cs, list[i])],
                [i \in 1..w |-> Convert(cs[list[i]].type, given[i])])

\* The editable columns of the list have what Coda made of their values, and the other
\* cells are as they were.
Written(put, row, cs, w, list, given, parse) ==
    /\ put \in [Columns -> Json]
    /\ \A i \in 1..w : cs[list[i]].editable =>
           put[list[i]] = Parsed(parse[list[i]], Meant(cs[list[i]], given[i]))
    /\ \A c \in Columns : ~(cs[c].editable /\ \E i \in 1..w : list[i] = c)
                          => put[c] = row[c]

LEMMA WrittenRow ==
    ASSUME NEW cs \in [Columns -> Kind], NEW w \in Nat, NEW list, NEW given,
           Fits(cs, w, list, given), NEW row \in [Columns -> Json], NEW parse \in Parses
    PROVE  Written(Put(row, Request(cs, w, list, given), parse), row, cs, w, list, given, parse)
<1> USE DEF Fits
<1> DEFINE sent == Request(cs, w, list, given)
<1> DEFINE wc == [i \in 1..w |-> WriteColumn(cs, list[i])]
           values == [i \in 1..w |-> Convert(cs[list[i]].type, given[i])]
           put == Put(row, sent, parse)
<1>1. \A i \in 1..w : wc[i].id = list[i] /\ wc[i].editable = cs[list[i]].editable
  BY DEF WriteColumn
<1>2. ASSUME NEW i \in 1..w
      PROVE  /\ input_value_json(values[i]) = Meant(cs[list[i]], given[i])
             /\ Parsed(parse[list[i]], input_value_json(values[i])) \in Json
  <2>1. cs[list[i]] \in Kind /\ given[i] \in Values[cs[list[i]].type]
    OBVIOUS
  <2>2. values[i] = Convert(cs[list[i]].type, given[i])
    OBVIOUS
  <2>3. parse[list[i]] \in Parsings
    BY DEF Parses
  <2> HIDE DEF values
  <2>4. input_value_json(values[i]) = Meant(cs[list[i]], given[i])
        /\ Meant(cs[list[i]], given[i]) \in Json
    BY <2>1, <2>2, CellIsMeant
  <2>5. QED
    BY <2>3, <2>4, ParsedIsJson
<1>3. DOMAIN wc = 1..w /\ DOMAIN values = 1..w /\ sent = write_cells(wc, values)
  BY DEF Request
<1> HIDE DEF wc, values, sent
<1>4. Arrived(put, row, wc, values, w, parse)
  <2>1. ASSUME NEW i \in 1..w, NEW j \in 1..w, wc[i].id = wc[j].id PROVE i = j
    <3>1. list[i] = list[j]
      BY <1>1, <2>1
    <3>2. QED
      BY <3>1
  <2>2. Sendable(wc, values, w, parse)
    BY <1>1, <1>2, <1>3, <2>1 DEF Sendable
  <2>3. Arrived(Put(row, write_cells(wc, values), parse), row, wc, values, w, parse)
    BY <2>2, PutCells
  <2>4. QED
    BY <1>3, <2>3
<1> HIDE DEF put
<1>5. \A i \in 1..w : cs[list[i]].editable =>
          put[list[i]] = Parsed(parse[list[i]], Meant(cs[list[i]], given[i]))
  BY <1>1, <1>2, <1>4 DEF Arrived
<1>6. \A c \in Columns : ~(cs[c].editable /\ \E i \in 1..w : list[i] = c) => put[c] = row[c]
  BY <1>1, <1>4 DEF Arrived
<1>7. QED
  BY <1>4, <1>5, <1>6 DEF put, sent, Arrived, Written

-----------------------------------------------------------------------------
(* The invariant.                                                          *)

\* The inductive invariant: a cell is what its last writer was to leave in it.
CellsInv ==
    /\ TypeOK
    /\ cells = <<>> <=> expected = <<>>
    /\ \A r \in DOMAIN cells, c \in Columns : cells[r][c] = expected[r][c]

LEMMA RowsAndColumns ==
    /\ NRows \in Nat /\ NRows > 0 /\ Rows = 1..NRows /\ 1 \in Rows
    /\ NColumns \in Nat /\ Columns = 1..NColumns
    /\ MaxWrites \in Nat /\ ColumnKinds \subseteq Kind
BY CellsAssumption DEF Rows, Columns

LEMMA RowsAreThere ==
    ASSUME NEW D, NEW f \in [Rows -> D]
    PROVE  f # <<>>
<1>1. 1 \in DOMAIN f
  BY RowsAndColumns
<1>2. QED
  BY <1>1

\* The rows are in Coda, and each cell is as expected: CellsInv as the steps show it.
Filled(cs, now, hist) ==
    /\ cs \in [Columns -> Kind]
    /\ now \in [Rows -> [Columns -> Json]]
    /\ hist \in [Rows -> [Columns -> Json]]
    /\ \A r \in Rows, c \in Columns : now[r][c] = hist[r][c]

LEMMA FilledIsEnough ==
    (Filled(columns, cells, expected) /\ writes \in 0..MaxWrites) => CellsInv
<1> SUFFICES ASSUME Filled(columns, cells, expected), writes \in 0..MaxWrites PROVE CellsInv
  OBVIOUS
<1>1. cells # <<>> /\ expected # <<>>
  BY RowsAreThere DEF Filled
<1>2. QED
  BY <1>1 DEF CellsInv, TypeOK, Filled

LEMMA WhenFilled ==
    ASSUME CellsInv, cells # <<>>
    PROVE  Filled(columns, cells, expected) /\ writes \in 0..MaxWrites
<1>1. cells \in [Rows -> [Columns -> Json]] /\ expected \in [Rows -> [Columns -> Json]]
  BY DEF CellsInv, TypeOK
<1>2. QED
  BY <1>1 DEF CellsInv, TypeOK, Filled

LEMMA InitCells == Init => CellsInv
<1> SUFFICES ASSUME Init PROVE CellsInv
  OBVIOUS
<1>1. columns \in [Columns -> Kind] /\ writes \in 0..MaxWrites
  BY RowsAndColumns DEF Init
<1>2. QED
  BY <1>1 DEF Init, CellsInv, TypeOK

\* The array of an INSERT has the rows of the chunk where insert_body looks for them.
LEMMA InsertCells ==
    ASSUME CellsInv, InsertRows
    PROVE  CellsInv'
<1>1. /\ columns \in [Columns -> Kind] /\ writes \in 0..MaxWrites
      /\ columns' = columns /\ writes' = writes
  BY DEF CellsInv, TypeOK, InsertRows
<1> DEFINE list == [c \in Columns |-> c]
           laid(ch) == [r \in Rows |-> [c \in Columns |-> Convert(columns[c].type, ch[r][c])]]
           body(ch) == insert_body(EditableColumns(columns), FlattenSeq(laid(ch)), NRows, NColumns)
           meant(ch, parse, r) == [c \in Columns |->
               IF columns[c].editable THEN Parsed(parse[c], Meant(columns[c], ch[r][c])) ELSE NotSent]
<1>2. PICK chunk \in Chunks(list), parse \in Parses :
          /\ cells' = [r \in Rows |-> Put(EmptyRow, body(chunk)[r], parse)]
          /\ expected' = [r \in Rows |-> meant(chunk, parse, r)]
  BY DEF InsertRows
<1>3. \A r \in Rows, c \in Columns : chunk[r][c] \in Values[columns[c].type]
  BY <1>2 DEF Chunks
<1> DEFINE rows == laid(chunk)
           C == {rows[r][c] : r \in Rows, c \in Columns}
<1>4. rows \in [1..NRows -> [1..NColumns -> C]]
  <2>1. ASSUME NEW r \in Rows PROVE rows[r] \in [Columns -> C]
    <3>1. rows[r] = [c \in Columns |-> rows[r][c]]
      OBVIOUS
    <3> HIDE DEF rows
    <3>2. \A c \in Columns : rows[r][c] \in C
      OBVIOUS
    <3>3. QED
      BY <3>1, <3>2
  <2>2. rows = [r \in Rows |-> rows[r]]
    OBVIOUS
  <2> HIDE DEF rows, C
  <2>3. rows \in [Rows -> [Columns -> C]]
    BY <2>1, <2>2
  <2>4. QED
    BY <2>3, RowsAndColumns
<1> DEFINE values == FlattenSeq(rows)
<1>5. \A r \in Rows : SubSeq(values, (r - 1) * NColumns + 1, (r - 1) * NColumns + NColumns) = rows[r]
  <2> HIDE DEF C, rows
  <2>1. Sliced(FlattenSeq(rows), rows, NRows, NColumns)
    BY <1>4, RowsAndColumns, SlicesAreRows
  <2>2. QED
    BY <2>1, RowsAndColumns DEF Sliced
<1>6. \A r \in Rows : body(chunk)[r] = write_cells(EditableColumns(columns), rows[r])
  <2> HIDE DEF rows
  <2>1. \A r \in Rows : insert_body(EditableColumns(columns), values, NRows, NColumns)[r]
            = write_cells(EditableColumns(columns),
                  SubSeq(values, (r - 1) * NColumns + 1, (r - 1) * NColumns + NColumns))
    <3> HIDE DEF values
    <3>1. QED
      BY RowsAndColumns DEF insert_body
  <2> HIDE DEF values
  <2>2. \A r \in Rows : insert_body(EditableColumns(columns), values, NRows, NColumns)[r]
            = write_cells(EditableColumns(columns), rows[r])
    BY <1>5, <2>1
  <2>3. QED
    BY <2>2 DEF values, rows
<1>7. ASSUME NEW r \in Rows
      PROVE  /\ cells'[r] \in [Columns -> Json]
             /\ expected'[r] \in [Columns -> Json]
             /\ \A c \in Columns : cells'[r][c] = expected'[r][c]
  <2> DEFINE sent == body(chunk)[r]
             given == chunk[r]
  <2>1. cells'[r] = Put(EmptyRow, sent, parse) /\ expected'[r] = meant(chunk, parse, r)
    BY <1>2
  <2>2. sent = Request(columns, NColumns, list, given)
    <3>1. EditableColumns(columns) = [i \in 1..NColumns |-> WriteColumn(columns, list[i])]
      BY <1>1, RowsAndColumns DEF EditableColumns
    <3>2. rows[r] = [i \in 1..NColumns |-> Convert(columns[list[i]].type, given[i])]
      BY RowsAndColumns
    <3> HIDE DEF rows, list, sent, given
    <3>3. QED
      BY <1>6, <3>1, <3>2 DEF sent, Request
  <2> HIDE DEF sent
  <2>3. EmptyRow \in [Columns -> Json]
    BY DEF EmptyRow, Json
  <2>4. Fits(columns, NColumns, list, given)
    BY <1>3, RowsAndColumns DEF Fits
  <2>5. Written(Put(EmptyRow, sent, parse), EmptyRow, columns, NColumns, list, given, parse)
    <3> HIDE DEF list, given
    <3>1. QED
      BY <1>1, <2>2, <2>3, <2>4, RowsAndColumns, WrittenRow
  <2>6. ASSUME NEW c \in Columns PROVE cells'[r][c] = expected'[r][c]
    <3>1. expected'[r][c] = IF columns[c].editable
                            THEN Parsed(parse[c], Meant(columns[c], given[c])) ELSE NotSent
      BY <2>1
    <3>2. list[c] = c /\ c \in 1..NColumns
      BY RowsAndColumns
    <3> HIDE DEF given, list
    <3>3. CASE columns[c].editable
      BY <2>1, <2>5, <3>1, <3>2, <3>3 DEF Written
    <3>4. CASE ~columns[c].editable
      BY <2>1, <2>5, <3>1, <3>4 DEF EmptyRow, Written
    <3>5. QED
      BY <3>3, <3>4
  <2>7. expected'[r] = [c \in Columns |-> expected'[r][c]]
    BY <2>1
  <2>8. cells'[r] \in [Columns -> Json]
    BY <2>1, <2>5 DEF Written
  <2>9. QED
    BY <2>6, <2>7, <2>8
<1>8. Filled(columns, cells, expected)'
  <2>1. cells' = [r \in Rows |-> cells'[r]] /\ expected' = [r \in Rows |-> expected'[r]]
    BY <1>2
  <2>2. QED
    BY <1>1, <1>7, <2>1 DEF Filled
<1>9. (writes \in 0..MaxWrites)'
  BY <1>1
<1>10. QED
  BY <1>8, <1>9, FilledIsEnough, PTL

LEMMA SetList ==
    ASSUME NEW set \in SetLists
    PROVE  /\ Len(set) \in Nat /\ DOMAIN set = 1..Len(set) /\ set \in [1..Len(set) -> Columns]
           /\ \A i, j \in 1..Len(set) : set[i] = set[j] => i = j
<1>1. PICK n \in Columns : set \in [1..n -> Columns]
  BY DEF SetLists
<1>2. IsInjective(set)
  BY DEF SetLists
<1>3. n \in Nat
  BY RowsAndColumns
<1>4. Len(set) = n /\ DOMAIN set = 1..n
  BY <1>1, <1>3
<1>5. QED
  BY <1>1, <1>2, <1>3, <1>4 DEF IsInjective

\* Of the array of an UPDATE each row has the slice that begins where the rows before
\* it end, and the cells that are not in the SET list keep their values.
LEMMA UpdateCells ==
    ASSUME CellsInv, NEW set \in SetLists, UpdateRows(set)
    PROVE  CellsInv'
<1> DEFINE w == Len(set)
<1>1. /\ w \in Nat /\ DOMAIN set = 1..w /\ set \in [1..w -> Columns]
      /\ \A i, j \in 1..w : set[i] = set[j] => i = j
  BY SetList
<1> HIDE DEF w
<1>2. Filled(columns, cells, expected) /\ writes \in 0..MaxWrites
  BY WhenFilled DEF UpdateRows
<1>3. columns' = columns /\ writes' = writes + 1 /\ writes < MaxWrites
  BY DEF UpdateRows
<1> DEFINE laid(ch) == [r \in Rows |-> [i \in DOMAIN set |->
               Convert(columns[set[i]].type, ch[r][i])]]
           cs == [i \in DOMAIN set |-> WriteColumn(columns, set[i])]
           slice(ch, r) == SubSeq(FlattenSeq(laid(ch)), RowStart(r, set) + 1, RowStart(r, set) + Len(set))
           old(r) == expected[r]
           meant(ch, parse, r) == [c \in Columns |->
               IF columns[c].editable /\ \E i \in DOMAIN set : set[i] = c
               THEN Parsed(parse[c], Meant(columns[c], ch[r][CHOOSE i \in DOMAIN set : set[i] = c]))
               ELSE old(r)[c]]
<1>4. PICK chunk \in Chunks(set), parse \in Parses :
          /\ cells' = [r \in Rows |-> Put(cells[r], write_cells(cs, slice(chunk, r)), parse)]
          /\ expected' = [r \in Rows |-> meant(chunk, parse, r)]
  BY DEF UpdateRows
<1>5. \A r \in Rows, i \in 1..w : chunk[r][i] \in Values[columns[set[i]].type]
  BY <1>1, <1>4 DEF Chunks
<1> DEFINE rows == laid(chunk)
           C == {rows[r][i] : r \in Rows, i \in 1..w}
<1>6. rows \in [1..NRows -> [1..w -> C]]
  <2>1. ASSUME NEW r \in Rows PROVE rows[r] \in [1..w -> C]
    <3>1. rows[r] = [i \in 1..w |-> rows[r][i]]
      BY <1>1
    <3> HIDE DEF rows
    <3>2. \A i \in 1..w : rows[r][i] \in C
      OBVIOUS
    <3>3. QED
      BY <3>1, <3>2
  <2>2. rows = [r \in Rows |-> rows[r]]
    OBVIOUS
  <2> HIDE DEF rows, C
  <2>3. rows \in [Rows -> [1..w -> C]]
    BY <2>1, <2>2
  <2>4. QED
    BY <2>3, RowsAndColumns
<1>7. \A r \in Rows : slice(chunk, r) = rows[r]
  <2>1. Sliced(FlattenSeq(rows), rows, NRows, w)
    <3> HIDE DEF rows, C
    <3>1. QED
      BY <1>1, <1>6, RowsAndColumns, SlicesAreRows
  <2> HIDE DEF rows
  <2>2. \A r \in Rows : SubSeq(FlattenSeq(rows), RowStart(r, set) + 1, RowStart(r, set) + Len(set)) = rows[r]
    BY <2>1, RowsAndColumns DEF Sliced, RowStart, w
  <2>3. QED
    BY <2>2 DEF rows
<1> HIDE DEF C
<1>8. ASSUME NEW r \in Rows
      PROVE  /\ cells'[r] \in [Columns -> Json]
             /\ expected'[r] \in [Columns -> Json]
             /\ \A c \in Columns : cells'[r][c] = expected'[r][c]
  <2> DEFINE given == chunk[r]
             sent == Request(columns, w, set, given)
             row == cells[r]
  <2>1. cells'[r] = Put(row, sent, parse)
    <3>1. cells'[r] = Put(cells[r], write_cells(cs, rows[r]), parse)
      BY <1>4, <1>7
    <3>2. cs = [i \in 1..w |-> WriteColumn(columns, set[i])]
      BY <1>1
    <3>3. rows[r] = [i \in 1..w |-> Convert(columns[set[i]].type, given[i])]
      BY <1>1
    <3> HIDE DEF rows, cs
    <3>4. QED
      BY <3>1, <3>2, <3>3 DEF Request
  <2>2. expected'[r] = meant(chunk, parse, r)
    BY <1>4
  <2>3. columns \in [Columns -> Kind] /\ row \in [Columns -> Json]
    BY <1>2 DEF Filled
  <2>4. Fits(columns, w, set, given)
    BY <1>1, <1>5 DEF Fits
  <2> HIDE DEF sent, given, row
  <2>5. Written(Put(row, sent, parse), row, columns, w, set, given, parse)
    BY <1>1, <2>3, <2>4, WrittenRow DEF sent
  <2>6. ASSUME NEW c \in Columns PROVE cells'[r][c] = expected'[r][c]
    <3>1. expected'[r][c] =
              IF columns[c].editable /\ \E i \in 1..w : set[i] = c
              THEN Parsed(parse[c], Meant(columns[c], given[CHOOSE i \in DOMAIN set : set[i] = c]))
              ELSE expected[r][c]
      BY <1>1, <2>2 DEF given
    <3>2. CASE columns[c].editable /\ \E i \in 1..w : set[i] = c
      <4>1. PICK i \in 1..w : set[i] = c /\ i = CHOOSE k \in DOMAIN set : set[k] = c
        BY <1>1, <3>2
      <4>2. expected'[r][c] = Parsed(parse[c], Meant(columns[c], given[i]))
        BY <3>1, <3>2, <4>1
      <4>3. cells'[r][c] = Parsed(parse[c], Meant(columns[c], given[i]))
        BY <2>1, <2>5, <3>2, <4>1 DEF Written
      <4>4. QED
        BY <4>2, <4>3
    <3>3. CASE ~(columns[c].editable /\ \E i \in 1..w : set[i] = c)
      <4>1. expected'[r][c] = expected[r][c]
        BY <3>1, <3>3
      <4>2. cells'[r][c] = cells[r][c]
        BY <2>1, <2>5, <3>3 DEF Written, row
      <4>3. QED
        BY <1>2, <4>1, <4>2 DEF Filled
    <3>4. QED
      BY <3>2, <3>3
  <2>7. expected'[r] = [c \in Columns |-> expected'[r][c]]
    BY <2>2
  <2>8. cells'[r] \in [Columns -> Json]
    BY <2>1, <2>5 DEF Written
  <2>9. QED
    BY <2>6, <2>7, <2>8
<1>9. Filled(columns, cells, expected)'
  <2>1. cells' = [r \in Rows |-> cells'[r]] /\ expected' = [r \in Rows |-> expected'[r]]
    BY <1>4
  <2>2. QED
    BY <1>2, <1>3, <1>8, <2>1 DEF Filled
<1>10. (writes \in 0..MaxWrites)'
  BY <1>2, <1>3, RowsAndColumns
<1>11. QED
  BY <1>9, <1>10, FilledIsEnough, PTL

\* An edit in Coda changes one cell.
LEMMA EditCells ==
    ASSUME CellsInv, NEW r \in Rows, NEW c \in Columns, NEW j \in UserCells, UserEdits(r, c, j)
    PROVE  CellsInv'
<1>1. Filled(columns, cells, expected) /\ writes \in 0..MaxWrites
  <2>1. cells # <<>>
    BY DEF UserEdits
  <2>2. QED
    BY <2>1, WhenFilled
<1>2. /\ columns' = columns /\ writes' = writes + 1 /\ writes < MaxWrites
      /\ cells' = [cells EXCEPT ![r][c] = j]
      /\ expected' = [expected EXCEPT ![r][c] = j]
  BY DEF UserEdits
<1>3. j \in Json
  BY CellsAssumption
<1>4. Filled(columns, cells, expected)'
  BY <1>1, <1>2, <1>3 DEF Filled
<1>5. (writes \in 0..MaxWrites)'
  BY <1>1, <1>2, RowsAndColumns
<1>6. QED
  BY <1>4, <1>5, FilledIsEnough, PTL

\* Each step keeps the invariant.
LEMMA NextCells == CellsInv /\ [Next]_vars => CellsInv'
<1> SUFFICES ASSUME CellsInv, [Next]_vars PROVE CellsInv'
  OBVIOUS
<1>1. CASE InsertRows
  BY <1>1, InsertCells
<1>2. CASE \E set \in SetLists : UpdateRows(set)
  BY <1>2, UpdateCells
<1>3. CASE \E r \in Rows, c \in Columns, j \in UserCells : UserEdits(r, c, j)
  BY <1>3, EditCells
<1>4. CASE UNCHANGED vars
  BY <1>4 DEF vars, CellsInv, TypeOK
<1>5. CASE Scan
  BY <1>4, <1>5 DEF Scan
<1>6. QED
  BY <1>1, <1>2, <1>3, <1>4, <1>5 DEF Next

-----------------------------------------------------------------------------
(* The theorems.                                                           *)

\* Every cell is what Coda made of the value that its last writer put there, for tables
\* of any width, chunks of any length and SET lists in any order: the arrays of
\* InsertRows and UpdateRows, their slices in mutation.rs, and write_cells.
THEOREM CellsInvariant == Spec => []CellsInv
<1>1. QED
  BY InitCells, NextCells, PTL DEF Spec

\* Every cell of Coda's is a JSON value or was never sent, a number among them only if
\* JSON has it: RustBridgeClient::InsertRows, UpdateRows and input_value_json.
THEOREM CellsTypeCorrect == Spec => []TypeOK
<1>1. CellsInv => TypeOK
  BY DEF CellsInv
<1>2. QED
  BY <1>1, CellsInvariant, PTL

\* A scan reads from a cell that its column can show what Coda made of the value that
\* its last writer put there, a number as serde_json reads it, whatever Coda parses
\* and however inexact serde_json is: scan_value and ScanValueToValue.
THEOREM CellsReadBack == Spec => []ReadsWhatWasWritten
<1>1. CellsInv => ReadsWhatWasWritten
  <2> SUFFICES ASSUME CellsInv, NEW r \in DOMAIN cells, NEW c \in Columns,
                      Shown(columns[c], expected[r][c])
               PROVE  ReadCell(columns[c], cells[r][c]) \subseteq Seen(columns[c], expected[r][c])
    BY DEF ReadsWhatWasWritten
  <2>1. cells # <<>>
    OBVIOUS
  <2>2. Filled(columns, cells, expected)
    BY <2>1, WhenFilled
  <2>3. cells[r][c] = expected[r][c]
    BY DEF CellsInv
  <2>4. columns[c] \in Kind /\ cells[r][c] \in Json
    BY <2>2 DEF Filled
  <2>5. QED
    BY <2>3, <2>4, CellIsSeen
<1>2. QED
  BY <1>1, CellsInvariant, PTL
=============================================================================
