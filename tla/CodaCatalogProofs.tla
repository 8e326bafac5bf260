-------------------------- MODULE CodaCatalogProofs --------------------------
(***************************************************************************)
(* Proofs about CodaCatalog, for any number of tables, columns and edits,  *)
(* any names and any pages: type correctness, that an attached doc has     *)
(* every table and column that was there all the while exactly once, that  *)
(* the columns of a table have different names, and that a table whose     *)
(* names are its own is found.                                             *)
(***************************************************************************)
EXTENDS CodaCatalog, FiniteSetTheorems, SequenceTheorems, TLAPS

(* Induction, stated about sets so that the provers can use it.            *)

LEMMA Least ==
    ASSUME NEW U \in SUBSET Nat, NEW n \in U
    PROVE  \E x \in U : \A y \in U : x <= y
<1>1. PICK m \in U : \A k \in U : <<k, m>> \notin OpToRel(<, Nat)
  BY WFMin, NatLessThanWellFounded, Zenon
<1>2. \A k \in U : ~(k < m)
  BY <1>1, Zenon DEF OpToRel
<1>3. QED
  BY <1>2

LEMMA SetInduction ==
    ASSUME NEW S \in SUBSET Nat, 0 \in S, \A n \in S : n + 1 \in S
    PROVE  S = Nat
<1> SUFFICES ASSUME Nat \ S # {} PROVE FALSE
  OBVIOUS
<1>1. PICK m \in Nat \ S : \A k \in Nat \ S : m <= k
  BY Least
<1>2. m # 0 /\ m - 1 \in Nat
  BY <1>1
<1>3. m - 1 \in S
  BY <1>1, <1>2
<1>4. QED
  BY <1>1, <1>3

\* A function can be defined by recursion over 0..n from its first value and the
\* step from one value to the next.
Recurs(f, N, D, e, step) ==
    f \in [0..N -> D] /\ f[0] = e /\ \A i \in 1..N : f[i] = step[f[i - 1]][i]

LEMMA Recursion ==
    ASSUME NEW N \in Nat, NEW D, NEW e \in D, NEW step \in [D -> [1..N -> D]]
    PROVE  \E f : Recurs(f, N, D, e, step)
<1> DEFINE Sol(n, f) == f[0] = e /\ \A i \in 1..n : f[i] = step[f[i - 1]][i]
           Solvable == {n \in Nat : n <= N => \E f \in [0..n -> D] : Sol(n, f)}
<1>1. 0 \in Solvable
  <2> DEFINE f == [i \in 0..0 |-> e]
  <2>1. f \in [0..0 -> D] /\ Sol(0, f)
    OBVIOUS
  <2>2. QED
    BY <2>1
<1>2. ASSUME NEW n \in Solvable PROVE n + 1 \in Solvable
  <2>1. n \in Nat
    BY <1>2
  <2>2. SUFFICES ASSUME n + 1 <= N PROVE \E f \in [0..(n + 1) -> D] : Sol(n + 1, f)
    <3> HIDE DEF Sol
    <3>1. QED
      BY <2>1
  <2>3. PICK g \in [0..n -> D] : Sol(n, g)
    <3> HIDE DEF Sol
    <3>1. n <= N
      BY <2>1, <2>2
    <3>2. QED
      BY <1>2, <3>1
  <2> DEFINE h == [i \in 0..(n + 1) |-> IF i = n + 1 THEN step[g[n]][n + 1] ELSE g[i]]
  <2>4. step[g[n]][n + 1] \in D
    <3>1. g[n] \in D /\ n + 1 \in 1..N
      BY <2>1, <2>2, <2>3
    <3>2. QED
      BY <3>1
  <2>5. h \in [0..(n + 1) -> D]
    BY <2>1, <2>3, <2>4
  <2>6. \A i \in 0..n : h[i] = g[i]
    BY <2>1
  <2>7. h[n + 1] = step[g[n]][n + 1]
    BY <2>1
  <2> HIDE DEF h
  <2>8. Sol(n + 1, h)
    <3>1. h[0] = e
      BY <2>1, <2>3, <2>6
    <3>2. ASSUME NEW i \in 1..(n + 1) PROVE h[i] = step[h[i - 1]][i]
      <4>1. CASE i = n + 1
        BY <2>1, <2>6, <2>7, <4>1
      <4>2. CASE i \in 1..n
        <5>1. i \in 0..n /\ i - 1 \in 0..n
          BY <2>1, <4>2
        <5>2. QED
          BY <2>3, <2>6, <4>2, <5>1
      <4>3. QED
        BY <2>1, <4>1, <4>2
    <3>3. QED
      BY <3>1, <3>2
  <2>9. QED
    BY <2>5, <2>8
<1>3. Solvable = Nat
  <2>1. Solvable \in SUBSET Nat
    OBVIOUS
  <2> HIDE DEF Solvable
  <2>2. QED
    BY <1>1, <1>2, <2>1, SetInduction
<1>4. \E f \in [0..N -> D] : Sol(N, f)
  <2> HIDE DEF Sol
  <2>1. N \in Solvable
    BY <1>3
  <2>2. QED
    BY <2>1
<1>5. QED
  BY <1>4 DEF Recurs
-----------------------------------------------------------------------------

(* Pages.                                                                  *)

Rising(s) == \A i, j \in DOMAIN s : i < j => s[i] < s[j]

\* f[i] is the page as far as item i.
PageUpTo(f, from, upto, existing) ==
    /\ f \in [0..upto -> Seq(Nat)]
    /\ f[0] = <<>>
    /\ \A i \in 1..upto : f[i] = IF i <= from THEN <<>>
                                 ELSE IF i \in existing THEN Append(f[i - 1], i)
                                 ELSE f[i - 1]
    /\ Page(from, upto, existing) = f[upto]

LEMMA PageRecursion ==
    ASSUME NEW from \in Nat, NEW upto \in Nat, NEW existing
    PROVE  \E f : PageUpTo(f, from, upto, existing)
<1> DEFINE step == [p \in Seq(Nat) |-> [i \in 1..upto |->
                        IF i <= from THEN <<>> ELSE IF i \in existing THEN Append(p, i) ELSE p]]
           Sol(f) == f = [i \in 0..upto |-> IF i <= from THEN <<>>
                                           ELSE IF i \in existing THEN Append(f[i - 1], i)
                                           ELSE f[i - 1]]
<1>1. step \in [Seq(Nat) -> [1..upto -> Seq(Nat)]]
  OBVIOUS
<1>2. PICK g \in [0..upto -> Seq(Nat)] : g[0] = <<>> /\ \A i \in 1..upto : g[i] = step[g[i - 1]][i]
  <2> DEFINE D == Seq(Nat)
             e == <<>>
  <2>1. e \in D
    OBVIOUS
  <2>2. step \in [D -> [1..upto -> D]]
    BY <1>1
  <2> HIDE DEF step, D, e
  <2>3. \E g : Recurs(g, upto, D, e, step)
    BY <2>1, <2>2, Recursion
  <2>4. QED
    BY <2>3 DEF D, e, Recurs
<1>3. \A i \in 1..upto : g[i] = IF i <= from THEN <<>>
                               ELSE IF i \in existing THEN Append(g[i - 1], i)
                               ELSE g[i - 1]
  <2> TAKE i \in 1..upto
  <2>1. i - 1 \in 0..upto /\ g[i - 1] \in Seq(Nat)
    OBVIOUS
  <2>2. QED
    BY <1>2, <2>1
<1>4. \A i \in 0..upto : g[i] = IF i <= from THEN <<>>
                               ELSE IF i \in existing THEN Append(g[i - 1], i)
                               ELSE g[i - 1]
  <2> TAKE i \in 0..upto
  <2>1. CASE i = 0
    <3>1. i <= from
      BY <2>1
    <3>2. QED
      BY <1>2, <2>1, <3>1
  <2>2. CASE i \in 1..upto
    BY <1>3, <2>2
  <2>3. QED
    BY <2>1, <2>2
<1>5. Sol(g)
  BY <1>4
<1>6. Sol(CHOOSE f : Sol(f))
  <2> HIDE DEF Sol
  <2>1. QED
    BY <1>5, Zenon
<1>7. Page(from, upto, existing) = (CHOOSE f : Sol(f))[upto]
  BY DEF Page
<1> HIDE DEF Sol
<1>8. PICK f : Sol(f) /\ Page(from, upto, existing) = f[upto]
  BY <1>6, <1>7
<1>9. \A i \in 0..upto : f[i] = IF i <= from THEN <<>>
                               ELSE IF i \in existing THEN Append(f[i - 1], i)
                               ELSE f[i - 1]
  BY <1>8 DEF Sol
<1>10. f = [i \in 0..upto |-> f[i]]
  BY <1>8 DEF Sol
<1> DEFINE Typed == {n \in Nat : n <= upto => f[n] \in Seq(Nat)}
<1>11. Typed = Nat
  <2>1. 0 \in Typed
    <3>1. 0 \in 0..upto /\ 0 <= from /\ <<>> \in Seq(Nat)
      OBVIOUS
    <3>2. f[0] = <<>>
      BY <1>9, <3>1
    <3>3. QED
      BY <3>1, <3>2
  <2>2. ASSUME NEW n \in Typed PROVE n + 1 \in Typed
    <3>1. SUFFICES ASSUME n + 1 <= upto PROVE f[n + 1] \in Seq(Nat)
      OBVIOUS
    <3>2. n + 1 \in 0..upto /\ (n + 1) - 1 = n /\ f[n] \in Seq(Nat) /\ n + 1 \in Nat
      BY <3>1
    <3>3. Append(f[n], n + 1) \in Seq(Nat) /\ <<>> \in Seq(Nat)
      BY <3>2
    <3>4. f[n + 1] = <<>> \/ f[n + 1] = Append(f[n], n + 1) \/ f[n + 1] = f[n]
      BY <1>9, <3>2
    <3>5. QED
      BY <3>2, <3>3, <3>4
  <2>3. Typed \in SUBSET Nat
    OBVIOUS
  <2> HIDE DEF Typed
  <2>4. QED
    BY <2>1, <2>2, <2>3, SetInduction
<1>12. f \in [0..upto -> Seq(Nat)]
  <2>1. \A i \in 0..upto : f[i] \in Seq(Nat)
    <3> TAKE i \in 0..upto
    <3>1. i \in Typed
      <4> HIDE DEF Typed
      <4>1. QED
        BY <1>11
    <3>2. QED
      BY <3>1
  <2> DEFINE D == Seq(Nat)
  <2> HIDE DEF D
  <2>2. QED
    BY <1>10, <2>1 DEF D
<1>13. f[0] = <<>>
  BY <1>9
<1>14. \A i \in 1..upto : f[i] = IF i <= from THEN <<>>
                                ELSE IF i \in existing THEN Append(f[i - 1], i)
                                ELSE f[i - 1]
  BY <1>9
<1>15. QED
  BY <1>8, <1>12, <1>13, <1>14 DEF PageUpTo

\* A page has exactly the existing items it covers, in listing order.
LEMMA PageItems ==
    ASSUME NEW from \in Nat, NEW upto \in Nat, NEW existing
    PROVE  LET page == Page(from, upto, existing)
           IN  /\ page \in Seq(Nat)
               /\ \A i \in DOMAIN page : page[i] \in existing \cap ((from + 1)..upto)
               /\ Rising(page)
               /\ \A x \in existing \cap ((from + 1)..upto) : \E i \in DOMAIN page : page[i] = x
<1>1. PICK f : PageUpTo(f, from, upto, existing)
  BY PageRecursion
<1> DEFINE Within(s, n) == \A i \in DOMAIN s : s[i] \in existing \cap ((from + 1)..n)
           Has(s, n)    == \A x \in existing \cap ((from + 1)..n) : \E i \in DOMAIN s : s[i] = x
           Good(n)      == Within(f[n], n) /\ Rising(f[n]) /\ Has(f[n], n)
           Done         == {n \in Nat : n <= upto => Good(n)}
<1>2. 0 \in Done
  BY <1>1 DEF Rising, PageUpTo
<1>3. ASSUME NEW n \in Done PROVE n + 1 \in Done
  <2>1. n \in Nat
    BY <1>3
  <2>2. SUFFICES ASSUME n + 1 <= upto PROVE Good(n + 1)
    BY <2>1
  <2> DEFINE s == f[n]
  <2>3. s \in Seq(Nat) /\ Within(s, n) /\ Rising(s) /\ Has(s, n)
    BY <1>1, <1>3, <2>1, <2>2 DEF PageUpTo
  <2>4. f[n + 1] = IF n + 1 <= from THEN <<>>
                   ELSE IF n + 1 \in existing THEN Append(s, n + 1) ELSE s
    BY <1>1, <2>1, <2>2 DEF PageUpTo
  <2> HIDE DEF s
  <2>5. CASE n + 1 <= from
    BY <2>1, <2>4, <2>5 DEF Rising
  <2>6. CASE from < n + 1 /\ n + 1 \notin existing
    <3>1. f[n + 1] = s
      BY <2>1, <2>4, <2>6
    <3>2. existing \cap ((from + 1)..(n + 1)) = existing \cap ((from + 1)..n)
      BY <2>1, <2>6
    <3>3. QED
      BY <2>3, <3>1, <3>2
  <2>7. CASE from < n + 1 /\ n + 1 \in existing
    <3> DEFINE t == Append(s, n + 1)
    <3>1. f[n + 1] = t
      BY <2>1, <2>4, <2>7
    <3>2. /\ Len(s) \in Nat /\ DOMAIN s = 1..Len(s) /\ DOMAIN t = 1..(Len(s) + 1)
          /\ t[Len(s) + 1] = n + 1
          /\ \A i \in DOMAIN s : t[i] = s[i]
      BY <2>1, <2>3
    <3> HIDE DEF t
    <3>3. Within(t, n + 1)
      <4> TAKE i \in DOMAIN t
      <4>1. CASE i \in DOMAIN s
        <5>1. s[i] \in existing \cap ((from + 1)..n)
          BY <2>3, <4>1
        <5>2. QED
          BY <2>1, <3>2, <4>1, <5>1
      <4>2. CASE i = Len(s) + 1
        <5>1. t[i] = n + 1 /\ n + 1 \in (from + 1)..(n + 1)
          BY <2>1, <2>7, <3>2, <4>2
        <5>2. QED
          BY <2>7, <5>1
      <4>3. QED
        BY <3>2, <4>1, <4>2
    <3>4. Rising(t)
      <4> SUFFICES ASSUME NEW i \in DOMAIN t, NEW j \in DOMAIN t, i < j PROVE t[i] < t[j]
        BY DEF Rising
      <4>1. i \in DOMAIN s
        BY <3>2
      <4>2. CASE j \in DOMAIN s
        BY <2>3, <3>2, <4>1, <4>2 DEF Rising
      <4>3. CASE j = Len(s) + 1
        <5>1. s[i] \in (from + 1)..n
          BY <2>3, <4>1
        <5>2. QED
          BY <2>1, <3>2, <4>1, <4>3, <5>1
      <4>4. QED
        BY <3>2, <4>2, <4>3
    <3>5. Has(t, n + 1)
      <4> TAKE x \in existing \cap ((from + 1)..(n + 1))
      <4>1. CASE x = n + 1
        <5>1. Len(s) + 1 \in DOMAIN t /\ t[Len(s) + 1] = x
          BY <3>2, <4>1
        <5>2. QED
          BY <5>1
      <4>2. CASE x \in (from + 1)..n
        <5>1. PICK i \in DOMAIN s : s[i] = x
          BY <2>3, <4>2
        <5>2. QED
          BY <3>2, <5>1
      <4>3. QED
        BY <2>1, <4>1, <4>2
    <3>6. QED
      BY <3>1, <3>3, <3>4, <3>5
  <2>8. QED
    BY <2>1, <2>5, <2>6, <2>7
<1>4. Done = Nat
  <2>1. Done \in SUBSET Nat
    OBVIOUS
  <2> HIDE DEF Done
  <2>2. QED
    BY <1>2, <1>3, <2>1, SetInduction
<1>5. Good(upto)
  <2> HIDE DEF Good
  <2>1. upto \in Done
    <3> HIDE DEF Done
    <3>1. QED
      BY <1>4
  <2>2. QED
    BY <2>1
<1>6. QED
  BY <1>1, <1>5 DEF PageUpTo

-----------------------------------------------------------------------------
(* Names.                                                                  *)

LEMMA PlainName ==
    ASSUME NEW stem \in Stems
    PROVE  Plain(stem) \in Name
<1>1. <<>> \in Seq(Nat)
  OBVIOUS
<1>2. QED
  BY <1>1 DEF Plain, Name

LEMMA CandidateName ==
    ASSUME NEW name \in Name, NEW n \in Nat
    PROVE  Candidate(name, n) \in Name
<1> DEFINE base == IF name = Plain("") THEN Plain("column") ELSE name
<1>1. base \in Name
  <2>1. "column" \in Stems
    BY CatalogAssumption
  <2>2. QED
    BY <2>1, PlainName
<1> HIDE DEF base
<1>2. Append(base.tail, n) \in Seq(Nat)
  BY <1>1 DEF Name
<1>3. [base EXCEPT !.tail = Append(@, n)] \in Name
  BY <1>1, <1>2 DEF Name
<1>4. QED
  BY <1>1, <1>3 DEF Candidate, base

\* Candidates differ in their numbers, so in more than the letters' case.
LEMMA CandidatesDiffer ==
    ASSUME NEW name \in Name, NEW j \in Nat, NEW k \in Nat,
           Fold(Candidate(name, j)) = Fold(Candidate(name, k))
    PROVE  j = k
<1> DEFINE base == IF name = Plain("") THEN Plain("column") ELSE name
           With(n) == [base EXCEPT !.tail = Append(@, n)]
<1>1. base \in Name
  <2>1. "column" \in Stems
    BY CatalogAssumption
  <2>2. QED
    BY <2>1, PlainName
<1>2. \A n \in Nat : Candidate(name, n) = IF n = 1 THEN base ELSE With(n)
  BY DEF Candidate
<1> HIDE DEF base
<1>3. \A n \in Nat : With(n).tail = Append(base.tail, n)
  BY <1>1 DEF Name
<1> HIDE DEF With
<1>4. \A n \in Name : Fold(n).tail = n.tail
  BY DEF Fold, Name
<1>5. Candidate(name, j).tail = Candidate(name, k).tail
  BY <1>4, CandidateName
<1>6. base.tail \in Seq(Nat)
  BY <1>1 DEF Name
<1>7. \A n \in Nat : /\ Append(base.tail, n) # base.tail
                     /\ \A m \in Nat : Append(base.tail, n) = Append(base.tail, m) => n = m
  BY <1>6, AppendInjective
<1>8. CASE j = 1 /\ k = 1
  BY <1>8
<1>9. CASE j = 1 /\ k # 1
  BY <1>2, <1>3, <1>5, <1>7, <1>9
<1>10. CASE j # 1 /\ k = 1
  BY <1>2, <1>3, <1>5, <1>7, <1>10
<1>11. CASE j # 1 /\ k # 1
  BY <1>2, <1>3, <1>5, <1>7, <1>11
<1>12. QED
  BY <1>8, <1>9, <1>10, <1>11

\* There are more candidates than earlier columns, so one of them is free, and
\* FreeName finds it: the loop of prepare_columns ends.
LEMMA FreeNameIsFree ==
    ASSUME NEW prior \in Seq(Column), NEW name \in Name
    PROVE  FreeName(prior, name) \in Name /\ ~Taken(prior, FreeName(prior, name))
<1> DEFINE K == 1..(Len(prior) + 1)
           C(k) == Candidate(name, k)
           Free(k) == ~Taken(prior, C(k))
<1>1. Len(prior) \in Nat /\ DOMAIN prior = 1..Len(prior)
  OBVIOUS
<1>2. \E k \in K : Free(k)
  <2> SUFFICES ASSUME \A k \in K : Taken(prior, C(k)) PROVE FALSE
    OBVIOUS
  <2> DEFINE f == [k \in K |-> CHOOSE i \in 1..Len(prior) : Fold(prior[i].name) = Fold(C(k))]
  <2>1. \A k \in K : f[k] \in 1..Len(prior) /\ Fold(prior[f[k]].name) = Fold(C(k))
    <3> TAKE k \in K
    <3>1. \E i \in 1..Len(prior) : Fold(prior[i].name) = Fold(C(k))
      BY <1>1 DEF Taken
    <3> HIDE DEF C
    <3>2. QED
      BY <3>1
  <2>2. f \in [K -> 1..Len(prior)]
    BY <2>1
  <2>3. /\ IsFiniteSet(K) /\ Cardinality(K) = Len(prior) + 1
        /\ IsFiniteSet(1..Len(prior)) /\ Cardinality(1..Len(prior)) = Len(prior)
    BY <1>1, FS_Interval
  <2> HIDE DEF f
  <2>4. PICK x \in K, y \in K : x # y /\ f[x] = f[y]
    <3> HIDE DEF K
    <3>1. Cardinality(1..Len(prior)) < Cardinality(K)
      BY <1>1, <2>3
    <3>2. QED
      BY <2>2, <2>3, <3>1, FS_PigeonHole
  <2>5. Fold(C(x)) = Fold(C(y))
    BY <2>1, <2>4
  <2>6. x \in Nat /\ y \in Nat
    OBVIOUS
  <2>7. QED
    BY <2>4, <2>5, <2>6, CandidatesDiffer
<1> HIDE DEF C
<1> DEFINE First(k) == Free(k) /\ \A j \in 1..(k - 1) : ~Free(j)
<1>3. \E k \in K : First(k)
  <2> DEFINE U == {k \in K : Free(k)}
  <2>1. PICK k \in U : \A j \in U : k <= j
    <3>1. U \in SUBSET Nat
      OBVIOUS
    <3>2. PICK u \in K : Free(u)
      BY <1>2
    <3>3. u \in U
      BY <3>2
    <3> HIDE DEF U
    <3>4. QED
      BY <3>1, <3>3, Least
  <2>2. \A j \in 1..(k - 1) : ~Free(j)
    <3> SUFFICES ASSUME NEW j \in 1..(k - 1), Free(j) PROVE FALSE
      OBVIOUS
    <3>1. j \in K /\ ~(k <= j)
      BY <1>1, <2>1
    <3> HIDE DEF Free
    <3>2. QED
      BY <2>1, <3>1
  <2> HIDE DEF Free
  <2>3. QED
    BY <2>1, <2>2
<1> DEFINE n == CHOOSE k \in K : First(k)
<1>4. n \in K /\ First(n)
  <2> HIDE DEF First
  <2>1. QED
    BY <1>3
<1>5. FreeName(prior, name) = C(n)
  BY DEF FreeName, C
<1>6. n \in Nat
  BY <1>4
<1> HIDE DEF n
<1>7. QED
  BY <1>4, <1>5, <1>6, CandidateName DEF C

Distinct(cs) == \A k, l \in DOMAIN cs : Fold(cs[k].name) = Fold(cs[l].name) => k = l

LEMMA AppendDistinct ==
    ASSUME NEW cs \in Seq(Column), NEW c \in Column, Distinct(cs), ~Taken(cs, c.name)
    PROVE  Distinct(Append(cs, c))
<1> DEFINE t == Append(cs, c)
<1>1. /\ Len(cs) \in Nat /\ DOMAIN cs = 1..Len(cs) /\ DOMAIN t = 1..(Len(cs) + 1)
      /\ t[Len(cs) + 1] = c
      /\ \A i \in DOMAIN cs : t[i] = cs[i]
  OBVIOUS
<1> HIDE DEF t
<1>2. SUFFICES ASSUME NEW k \in DOMAIN t, NEW l \in DOMAIN t, Fold(t[k].name) = Fold(t[l].name)
               PROVE  k = l
  BY DEF Distinct, t
<1>3. CASE k \in DOMAIN cs /\ l \in DOMAIN cs
  BY <1>1, <1>2, <1>3 DEF Distinct
<1>4. CASE k \in DOMAIN cs /\ l = Len(cs) + 1
  BY <1>1, <1>2, <1>4 DEF Taken
<1>5. CASE k = Len(cs) + 1 /\ l \in DOMAIN cs
  BY <1>1, <1>2, <1>5 DEF Taken
<1>6. QED
  BY <1>1, <1>3, <1>4, <1>5

\* f[i] holds the first i columns, named.
Prepared(f, all) ==
    /\ f \in [0..Len(all) -> Seq(Column)]
    /\ f[0] = <<>>
    /\ \A i \in 1..Len(all) :
           f[i] = Append(f[i - 1], [all[i] EXCEPT !.name = FreeName(f[i - 1], @)])
    /\ prepare_columns(all) = f[Len(all)]

LEMMA NamedColumn ==
    ASSUME NEW c \in Column, NEW prior \in Seq(Column)
    PROVE  LET named == [c EXCEPT !.name = FreeName(prior, @)]
           IN  named \in Column /\ named.id = c.id /\ ~Taken(prior, named.name)
<1>1. c.name \in Name
  BY DEF Column
<1>2. FreeName(prior, c.name) \in Name /\ ~Taken(prior, FreeName(prior, c.name))
  BY <1>1, FreeNameIsFree
<1>3. QED
  BY <1>2 DEF Column

LEMMA PrepareRecursion ==
    ASSUME NEW all \in Seq(Column)
    PROVE  \E f : Prepared(f, all)
<1> DEFINE N == Len(all)
           D == Seq(Column)
           Named(p, i) == [all[i] EXCEPT !.name = FreeName(p, @)]
           step == [p \in D |-> [i \in 1..N |-> Append(p, Named(p, i))]]
           Sol(f) == f = [i \in 0..N |-> IF i = 0 THEN <<>>
                                         ELSE Append(f[i - 1], Named(f[i - 1], i))]
<1>1. N \in Nat /\ \A i \in 1..N : all[i] \in Column
  OBVIOUS
<1>2. \A p \in D : \A i \in 1..N : Append(p, Named(p, i)) \in D
  <2> TAKE p \in D
  <2> TAKE i \in 1..N
  <2>1. Named(p, i) \in Column
    BY <1>1, NamedColumn
  <2> HIDE DEF Named
  <2>2. QED
    BY <2>1
<1> HIDE DEF Named
<1>3. PICK g : Recurs(g, N, D, <<>>, step)
  <2>1. <<>> \in D
    OBVIOUS
  <2>2. step \in [D -> [1..N -> D]]
    BY <1>2
  <2> HIDE DEF step, D, N
  <2>3. QED
    BY <1>1, <2>1, <2>2, Recursion
<1>4. Sol(g)
  <2>1. \A i \in 0..N : g[i] = IF i = 0 THEN <<>> ELSE Append(g[i - 1], Named(g[i - 1], i))
    <3> TAKE i \in 0..N
    <3>1. CASE i = 0
      BY <1>3, <3>1 DEF Recurs
    <3>2. CASE i \in 1..N
      <4>1. i - 1 \in 0..N
        BY <1>1, <3>2
      <4> HIDE DEF N, D
      <4>2. g[i] = step[g[i - 1]][i] /\ g[i - 1] \in D
        BY <1>3, <3>2, <4>1 DEF Recurs
      <4>3. QED
        BY <3>2, <4>2, <1>1
    <3>3. QED
      BY <1>1, <3>1, <3>2
  <2> HIDE DEF N, D, step
  <2>2. g = [i \in 0..N |-> g[i]]
    BY <1>3 DEF Recurs
  <2>3. QED
    BY <2>1, <2>2
<1>5. Sol(CHOOSE f : Sol(f))
  <2> HIDE DEF Sol
  <2>1. QED
    BY <1>4, Zenon
<1>6. prepare_columns(all) = (CHOOSE f : Sol(f))[N]
  BY DEF prepare_columns, Named
<1> HIDE DEF Sol
<1>7. PICK f : Sol(f) /\ prepare_columns(all) = f[N]
  BY <1>5, <1>6
<1> HIDE DEF N, D, step
<1>8. /\ f = [i \in 0..N |-> f[i]]
      /\ \A i \in 0..N : f[i] = IF i = 0 THEN <<>> ELSE Append(f[i - 1], Named(f[i - 1], i))
  BY <1>7 DEF Sol
<1>9. f[0] = <<>> /\ \A i \in 1..N : f[i] = Append(f[i - 1], Named(f[i - 1], i))
  BY <1>1, <1>8
<1> DEFINE Typed == {n \in Nat : n <= N => f[n] \in D}
<1>10. Typed = Nat
  <2>1. 0 \in Typed
    <3>1. <<>> \in D
      BY DEF D
    <3>2. QED
      BY <1>9, <3>1
  <2>2. ASSUME NEW n \in Typed PROVE n + 1 \in Typed
    <3>1. SUFFICES ASSUME n + 1 <= N PROVE f[n + 1] \in D
      OBVIOUS
    <3>2. n + 1 \in 1..N /\ (n + 1) - 1 = n /\ f[n] \in D
      BY <1>1, <3>1
    <3>3. QED
      BY <1>2, <1>9, <3>2
  <2>3. Typed \in SUBSET Nat
    OBVIOUS
  <2> HIDE DEF Typed
  <2>4. QED
    BY <2>1, <2>2, <2>3, SetInduction
<1>11. f \in [0..N -> D]
  <2>1. \A i \in 0..N : i \in Typed
    <3> HIDE DEF Typed
    <3>1. QED
      BY <1>1, <1>10
  <2>2. \A i \in 0..N : f[i] \in D
    BY <2>1
  <2>3. QED
    BY <1>8, <2>2
<1>12. QED
  BY <1>7, <1>9, <1>11 DEF Prepared, N, D, Named

\* prepare_columns keeps the columns and their order, and makes their names
\* differ in more than the letters' case.
LEMMA PreparedColumns ==
    ASSUME NEW all \in Seq(Column)
    PROVE  LET prepared == prepare_columns(all)
           IN  /\ prepared \in Seq(Column)
               /\ Len(prepared) = Len(all)
               /\ \A i \in 1..Len(all) : prepared[i].id = all[i].id
               /\ Distinct(prepared)
<1>1. PICK f : Prepared(f, all)
  BY PrepareRecursion
<1> DEFINE N == Len(all)
           Good(n) == /\ Len(f[n]) = n
                      /\ \A i \in 1..n : f[n][i].id = all[i].id
                      /\ Distinct(f[n])
           Done == {n \in Nat : n <= N => Good(n)}
<1>2. N \in Nat /\ \A i \in 1..N : all[i] \in Column
  OBVIOUS
<1> HIDE DEF N
<1>3. /\ f[0] = <<>>
      /\ \A i \in 0..N : f[i] \in Seq(Column)
      /\ \A i \in 1..N : f[i] = Append(f[i - 1], [all[i] EXCEPT !.name = FreeName(f[i - 1], @)])
      /\ prepare_columns(all) = f[N]
  BY <1>1 DEF Prepared, N
<1>4. 0 \in Done
  BY <1>3 DEF Distinct
<1>5. ASSUME NEW n \in Done PROVE n + 1 \in Done
  <2>1. n \in Nat
    BY <1>5
  <2>2. SUFFICES ASSUME n + 1 <= N PROVE Good(n + 1)
    BY <2>1
  <2> DEFINE s == f[n]
             c == [all[n + 1] EXCEPT !.name = FreeName(s, @)]
  <2>3. s \in Seq(Column) /\ Good(n)
    BY <1>2, <1>3, <1>5, <2>1, <2>2
  <2>4. n + 1 \in 1..N /\ (n + 1) - 1 = n
    BY <1>2, <2>1, <2>2
  <2>5. c \in Column /\ c.id = all[n + 1].id /\ ~Taken(s, c.name)
    <3> HIDE DEF s
    <3>1. all[n + 1] \in Column
      BY <1>2, <2>4
    <3>2. QED
      BY <2>3, <3>1, NamedColumn
  <2>6. f[n + 1] = Append(s, c)
    BY <1>3, <2>4
  <2>7. Len(s) = n /\ (\A i \in 1..n : s[i].id = all[i].id) /\ Distinct(s)
    BY <2>3
  <2> HIDE DEF s, c
  <2>8. /\ Len(Append(s, c)) = n + 1
        /\ Append(s, c)[n + 1] = c
        /\ \A i \in 1..n : Append(s, c)[i] = s[i]
    BY <2>1, <2>3, <2>5, <2>7
  <2>9. \A i \in 1..(n + 1) : Append(s, c)[i].id = all[i].id
    BY <2>1, <2>5, <2>7, <2>8
  <2>10. Distinct(Append(s, c))
    BY <2>3, <2>5, <2>7, AppendDistinct
  <2>11. QED
    BY <2>6, <2>8, <2>9, <2>10
<1>6. Done = Nat
  <2>1. Done \in SUBSET Nat
    OBVIOUS
  <2> HIDE DEF Done
  <2>2. QED
    BY <1>4, <1>5, <2>1, SetInduction
<1>7. Good(N)
  <2> HIDE DEF Good
  <2>1. N \in Done
    <3> HIDE DEF Done
    <3>1. QED
      BY <1>2, <1>6
  <2>2. QED
    BY <1>2, <2>1
<1>8. f[N] \in Seq(Column)
  BY <1>2, <1>3
<1>9. QED
  BY <1>3, <1>7, <1>8 DEF N

-----------------------------------------------------------------------------
(* The inductive invariant.                                                *)

\* What was there all the while is there now.
StillThere ==
    /\ \A t \in Tables : <<t, 0>> \in steady => table_name[t] # Absent
    /\ \A t \in Tables, c \in Columns : <<t, c>> \in steady => column_name[<<t, c>>] # Absent

\* A listed table has a name that it has had.
NamesWereHeld ==
    /\ \A t \in Tables : table_name[t] # Absent => table_name[t] \in held[t]
    /\ \A i \in DOMAIN pending : pending[i].name \in held[pending[i].id]
    /\ \A i \in DOMAIN catalog_tables : catalog_tables[i].name \in held[catalog_tables[i].id]

ById(s) == \A i, j \in DOMAIN s : i < j => s[i].id < s[j].id

Lists(s, id) == \E i \in DOMAIN s : s[i].id = id

\* The last table that the pages served so far have covered.
TablesUpTo == IF status # "tables" /\ page_token = 0 THEN NTables ELSE page_token

\* The complete tables, then the pending ones, follow the listing: none comes twice.
TablesInOrder ==
    /\ ById(catalog_tables) /\ ById(pending)
    /\ \A i \in DOMAIN catalog_tables, j \in DOMAIN pending :
           catalog_tables[i].id < pending[j].id
    /\ \A i \in DOMAIN catalog_tables : catalog_tables[i].id <= TablesUpTo
    /\ \A j \in DOMAIN pending : pending[j].id <= TablesUpTo

\* No table that was there all the while is lost between two pages.
TablesListed ==
    status # "failed" =>
        \A t \in Tables : <<t, 0>> \in steady /\ t <= TablesUpTo =>
            Lists(catalog_tables, t) \/ Lists(pending, t)

\* `all` holds the columns of the pending table in front as far as its pages go.
ColumnsListed ==
    /\ ById(columns)
    /\ \A k \in DOMAIN columns : columns[k].id <= column_token
    /\ pending # <<>> =>
           \A c \in Columns : <<Head(pending).id, c>> \in steady /\ c <= column_token =>
               Lists(columns, c)

\* Between two pages of tables nothing is left over, and between two tables no column.
NothingLeftOver ==
    /\ status \in {"tables", "attached"} => pending = <<>>
    /\ status = "attached" => page_token = 0
    /\ pending = <<>> => column_token = 0
    /\ column_token = 0 => columns = <<>>

\* A table's columns hold those that were there all the while, none of Coda's twice.
Whole(table) ==
    /\ \A c \in Columns : <<table.id, c>> \in steady => Lists(table.columns, c)
    /\ \A k, l \in DOMAIN table.columns :
           table.columns[k].id = table.columns[l].id /\ table.columns[k].id # 0 => k = l
    /\ Distinct(table.columns)

TablesWhole == \A i \in DOMAIN catalog_tables : Whole(catalog_tables[i])

SchemaBuilt == entries = IF status = "attached" THEN Entries(catalog_tables) ELSE <<>>

CatalogInv ==
    /\ StillThere
    /\ NamesWereHeld
    /\ TablesInOrder
    /\ TablesListed
    /\ ColumnsListed
    /\ NothingLeftOver
    /\ TablesWhole
    /\ SchemaBuilt

-----------------------------------------------------------------------------
(* The pages of the doc.                                                   *)

Pending   == [id : Tables, name : Name]
CodaOwned == [id : Columns, name : Name, system : {FALSE}]

LEMMA Bounds ==
    /\ NTables \in Nat /\ NTables > 0 /\ NColumns \in Nat /\ NColumns > 0
    /\ Tables \subseteq Nat /\ Columns \subseteq Nat
<1>1. NTables \in Nat \ {0} /\ NColumns \in Nat \ {0}
  BY CatalogAssumption
<1>2. QED
  BY <1>1 DEF Tables, Columns

LEMMA TokenOfPage ==
    ASSUME NEW n \in Nat, NEW from \in Nat, NEW upto \in (from + 1)..n
    PROVE  NextToken(upto, n) \in 0..(n - 1) /\ NextToken(upto, n) = IF upto = n THEN 0 ELSE upto
BY DEF NextToken

\* What a page of tables is made of.
TablesPage(upto) ==
    LET ids == Page(page_token, upto, {t \in Tables : table_name[t] # Absent})
    IN  [i \in DOMAIN ids |-> [id |-> ids[i], name |-> table_name[ids[i]]]]

LEMMA PageOfTables ==
    ASSUME TypeOK, NEW upto \in (page_token + 1)..NTables
    PROVE  /\ TablesPage(upto) \in Seq(Pending)
           /\ ById(TablesPage(upto))
           /\ \A i \in DOMAIN TablesPage(upto) :
                  LET item == TablesPage(upto)[i]
                  IN  /\ page_token < item.id /\ item.id <= upto
                      /\ table_name[item.id] # Absent /\ item.name = table_name[item.id]
           /\ \A x \in Tables : page_token < x /\ x <= upto /\ table_name[x] # Absent =>
                  Lists(TablesPage(upto), x)
<1> DEFINE existing == {t \in Tables : table_name[t] # Absent}
           ids == Page(page_token, upto, existing)
           item(i) == [id |-> ids[i], name |-> table_name[ids[i]]]
<1>1. page_token \in Nat /\ upto \in Nat /\ upto <= NTables
  BY Bounds DEF TypeOK
<1>2. /\ ids \in Seq(Nat) /\ Rising(ids)
      /\ \A i \in DOMAIN ids : ids[i] \in existing \cap ((page_token + 1)..upto)
      /\ \A x \in existing \cap ((page_token + 1)..upto) : \E i \in DOMAIN ids : ids[i] = x
  <2> HIDE DEF existing
  <2>1. QED
    BY <1>1, PageItems
<1> HIDE DEF ids
<1>3. \A i \in DOMAIN ids : item(i) \in Pending
  BY <1>2 DEF TypeOK, Pending
<1>4. TablesPage(upto) = [i \in DOMAIN ids |-> item(i)]
  BY DEF TablesPage, ids
<1> DEFINE items == [i \in DOMAIN ids |-> item(i)]
<1>5. items \in Seq(Pending)
  <2>1. Len(ids) \in Nat /\ DOMAIN ids = 1..Len(ids)
    BY <1>2
  <2> HIDE DEF item
  <2>2. QED
    BY <1>3, <2>1, IsASeq
<1>6. DOMAIN items = DOMAIN ids /\ \A i \in DOMAIN ids : items[i].id = ids[i] /\ items[i].name = table_name[ids[i]]
  OBVIOUS
<1> HIDE DEF items
<1>7. ById(items)
  BY <1>2, <1>6 DEF ById, Rising
<1>8. ASSUME NEW i \in DOMAIN items
      PROVE  /\ page_token < items[i].id /\ items[i].id <= upto
             /\ table_name[items[i].id] # Absent /\ items[i].name = table_name[items[i].id]
  <2>1. ids[i] \in existing /\ ids[i] \in (page_token + 1)..upto
    BY <1>2, <1>6
  <2>2. QED
    BY <1>1, <1>6, <2>1
<1>9. ASSUME NEW x \in Tables, page_token < x, x <= upto, table_name[x] # Absent
      PROVE  Lists(items, x)
  <2>1. x \in existing \cap ((page_token + 1)..upto)
    BY <1>1, <1>9, Bounds
  <2>2. PICK i \in DOMAIN ids : ids[i] = x
    BY <1>2, <2>1
  <2>3. QED
    BY <1>6, <2>2 DEF Lists
<1>10. TablesPage(upto) = items
  BY <1>4 DEF items
<1>11. QED
  BY <1>5, <1>7, <1>8, <1>9, <1>10

\* What a page of columns is made of.
ColumnsPage(t, upto) ==
    LET ids == Page(column_token, upto, {c \in Columns : column_name[<<t, c>>] # Absent})
    IN  [i \in DOMAIN ids |-> [id |-> ids[i], name |-> column_name[<<t, ids[i]>>], system |-> FALSE]]

LEMMA PageOfColumns ==
    ASSUME TypeOK, NEW t \in Tables, NEW upto \in (column_token + 1)..NColumns
    PROVE  /\ ColumnsPage(t, upto) \in Seq(CodaOwned)
           /\ ById(ColumnsPage(t, upto))
           /\ \A i \in DOMAIN ColumnsPage(t, upto) :
                  column_token < ColumnsPage(t, upto)[i].id /\ ColumnsPage(t, upto)[i].id <= upto
           /\ \A x \in Columns : column_token < x /\ x <= upto /\ column_name[<<t, x>>] # Absent =>
                  Lists(ColumnsPage(t, upto), x)
<1> DEFINE existing == {c \in Columns : column_name[<<t, c>>] # Absent}
           ids == Page(column_token, upto, existing)
           item(i) == [id |-> ids[i], name |-> column_name[<<t, ids[i]>>], system |-> FALSE]
<1>1. column_token \in Nat /\ upto \in Nat /\ upto <= NColumns
  BY Bounds DEF TypeOK
<1>2. /\ ids \in Seq(Nat) /\ Rising(ids)
      /\ \A i \in DOMAIN ids : ids[i] \in existing \cap ((column_token + 1)..upto)
      /\ \A x \in existing \cap ((column_token + 1)..upto) : \E i \in DOMAIN ids : ids[i] = x
  <2> HIDE DEF existing
  <2>1. QED
    BY <1>1, PageItems
<1> HIDE DEF ids
<1>3. \A i \in DOMAIN ids : item(i) \in CodaOwned
  BY <1>2 DEF TypeOK, CodaOwned
<1>4. ColumnsPage(t, upto) = [i \in DOMAIN ids |-> item(i)]
  BY DEF ColumnsPage, ids
<1> DEFINE items == [i \in DOMAIN ids |-> item(i)]
<1>5. items \in Seq(CodaOwned)
  <2>1. Len(ids) \in Nat /\ DOMAIN ids = 1..Len(ids)
    BY <1>2
  <2> HIDE DEF item
  <2>2. QED
    BY <1>3, <2>1, IsASeq
<1>6. DOMAIN items = DOMAIN ids /\ \A i \in DOMAIN ids : items[i].id = ids[i]
  OBVIOUS
<1> HIDE DEF items
<1>7. ById(items)
  BY <1>2, <1>6 DEF ById, Rising
<1>8. ASSUME NEW i \in DOMAIN items
      PROVE  column_token < items[i].id /\ items[i].id <= upto
  <2>1. ids[i] \in (column_token + 1)..upto
    BY <1>2, <1>6
  <2>2. QED
    BY <1>1, <1>6, <2>1
<1>9. ASSUME NEW x \in Columns, column_token < x, x <= upto, column_name[<<t, x>>] # Absent
      PROVE  Lists(items, x)
  <2>1. x \in existing \cap ((column_token + 1)..upto)
    BY <1>1, <1>9, Bounds
  <2>2. PICK i \in DOMAIN ids : ids[i] = x
    BY <1>2, <2>1
  <2>3. QED
    BY <1>6, <2>2 DEF Lists
<1>10. ColumnsPage(t, upto) = items
  BY <1>4 DEF items
<1>11. QED
  BY <1>5, <1>7, <1>8, <1>9, <1>10

\* The columns of a complete table before they are named.
Offer(all) == IF IncludeSystem THEN append_row_metadata(all) ELSE all

LEMMA SystemColumns ==
    LET system == <<[id |-> 0, name |-> Plain("createdAt"), system |-> TRUE],
                    [id |-> 0, name |-> Plain("updatedAt"), system |-> TRUE]>>
    IN  system \in Seq(Column) /\ Len(system) = 2 /\ \A i \in 1..2 : system[i].id = 0
<1>1. "createdAt" \in Stems /\ "updatedAt" \in Stems
  BY CatalogAssumption
<1>2. Plain("createdAt") \in Name /\ Plain("updatedAt") \in Name
  BY <1>1, PlainName
<1>3. 0 \in 0..NColumns
  BY Bounds
<1>4. \A n \in Name : [id |-> 0, name |-> n, system |-> TRUE] \in Column
  BY <1>3 DEF Column
<1>5. QED
  BY <1>2, <1>4

LEMMA OfferedColumns ==
    ASSUME NEW all \in Seq(CodaOwned)
    PROVE  /\ Offer(all) \in Seq(Column)
           /\ Len(all) \in Nat /\ Len(Offer(all)) \in Nat /\ Len(all) <= Len(Offer(all))
           /\ \A i \in 1..Len(all) : Offer(all)[i] = all[i]
           /\ \A i \in 1..Len(Offer(all)) : i > Len(all) => Offer(all)[i].id = 0
<1>1. CodaOwned \subseteq Column
  <2>1. Columns \subseteq 0..NColumns /\ {FALSE} \subseteq BOOLEAN
    BY Bounds DEF Columns
  <2>2. QED
    BY <2>1 DEF CodaOwned, Column
<1>2. all \in Seq(Column) /\ Len(all) \in Nat
  <2>1. Len(all) \in Nat /\ all \in [1..Len(all) -> CodaOwned]
    OBVIOUS
  <2>2. all \in [1..Len(all) -> Column]
    BY <1>1, <2>1
  <2>3. QED
    BY <2>1, <2>2
<1> DEFINE system == <<[id |-> 0, name |-> Plain("createdAt"), system |-> TRUE],
                       [id |-> 0, name |-> Plain("updatedAt"), system |-> TRUE]>>
<1>3. system \in Seq(Column) /\ Len(system) = 2 /\ \A i \in 1..2 : system[i].id = 0
  BY SystemColumns
<1>4. Offer(all) = IF IncludeSystem THEN all \o system ELSE all
  BY DEF Offer, append_row_metadata
<1> HIDE DEF system
<1>5. CASE IncludeSystem
  <2>1. Offer(all) = all \o system
    BY <1>4, <1>5
  <2>2. /\ all \o system \in Seq(Column) /\ Len(all \o system) = Len(all) + 2
        /\ \A i \in 1..Len(all) : (all \o system)[i] = all[i]
        /\ \A i \in 1..(Len(all) + 2) : i > Len(all) => (all \o system)[i] = system[i - Len(all)]
    BY <1>2, <1>3, ConcatProperties
  <2>3. \A i \in 1..(Len(all) + 2) : i > Len(all) => i - Len(all) \in 1..2
    BY <1>2
  <2>4. QED
    BY <1>2, <1>3, <2>1, <2>2, <2>3
<1>6. CASE ~IncludeSystem
  BY <1>2, <1>4, <1>6
<1>7. QED
  BY <1>5, <1>6

\* A table gets every column that was listed, once, under names that differ.
LEMMA CompletedColumns ==
    ASSUME NEW all \in Seq(CodaOwned), ById(all)
    PROVE  LET prepared == prepare_columns(Offer(all))
           IN  /\ prepared \in Seq(Column)
               /\ Distinct(prepared)
               /\ \A c \in Columns : Lists(all, c) => Lists(prepared, c)
               /\ \A k, l \in DOMAIN prepared :
                      prepared[k].id = prepared[l].id /\ prepared[k].id # 0 => k = l
<1> DEFINE offer == Offer(all)
           prepared == prepare_columns(offer)
<1>1. /\ offer \in Seq(Column)
      /\ Len(all) \in Nat /\ Len(offer) \in Nat /\ Len(all) <= Len(offer)
      /\ \A i \in 1..Len(all) : offer[i] = all[i]
      /\ \A i \in 1..Len(offer) : i > Len(all) => offer[i].id = 0
  BY OfferedColumns
<1> HIDE DEF offer
<1>2. /\ prepared \in Seq(Column) /\ Len(prepared) = Len(offer) /\ Distinct(prepared)
      /\ \A i \in 1..Len(offer) : prepared[i].id = offer[i].id
  BY <1>1, PreparedColumns
<1> HIDE DEF prepared
<1>3. DOMAIN prepared = 1..Len(offer) /\ DOMAIN all = 1..Len(all)
  BY <1>1, <1>2
<1>4. \A i \in 1..Len(all) : i \in 1..Len(offer) /\ prepared[i].id = all[i].id
  BY <1>1, <1>2
<1>5. ASSUME NEW c \in Columns, Lists(all, c) PROVE Lists(prepared, c)
  <2>1. PICK i \in 1..Len(all) : all[i].id = c
    BY <1>3, <1>5 DEF Lists
  <2>2. QED
    BY <1>3, <1>4, <2>1 DEF Lists
<1>6. ASSUME NEW k \in DOMAIN prepared, NEW l \in DOMAIN prepared,
             prepared[k].id = prepared[l].id, prepared[k].id # 0
      PROVE  k = l
  <2>1. k \in 1..Len(all) /\ l \in 1..Len(all)
    BY <1>1, <1>2, <1>3, <1>6
  <2>2. all[k].id = all[l].id
    BY <1>4, <1>6, <2>1
  <2>3. \A i \in 1..Len(all) : all[i].id \in Nat
    <3> TAKE i \in 1..Len(all)
    <3>1. all[i] \in CodaOwned
      BY <1>1
    <3>2. QED
      BY <3>1, Bounds DEF CodaOwned
  <2>4. QED
    BY <1>1, <1>3, <2>1, <2>2, <2>3 DEF ById
<1>7. QED
  BY <1>2, <1>5, <1>6 DEF prepared, offer

-----------------------------------------------------------------------------
(* Types.                                                                  *)

LEMMA InitType == Init => TypeOK
<1> SUFFICES ASSUME Init PROVE TypeOK
  OBVIOUS
<1>1. PICK d \in Docs : table_name = d.tables /\ column_name = d.columns /\ edits = d.edits
  BY DEF Init
<1>2. d \in [tables : [Tables -> Name \cup {Absent}],
             columns : [Tables \X Columns -> Name \cup {Absent}], edits : Nat]
  BY CatalogAssumption
<1>3. /\ table_name \in [Tables -> Name \cup {Absent}]
      /\ column_name \in [Tables \X Columns -> Name \cup {Absent}]
      /\ edits \in Nat
  BY <1>1, <1>2
<1>4. held \in [Tables -> SUBSET Name]
  BY <1>3 DEF Init
<1>5. steady \subseteq Tables \X (0..NColumns)
  <2>1. Columns \subseteq 0..NColumns /\ 0 \in 0..NColumns
    BY Bounds DEF Columns
  <2>2. {<<t, 0>> : t \in {u \in Tables : table_name[u] # Absent}} \subseteq Tables \X (0..NColumns)
    BY <2>1
  <2>3. Tables \X Columns \subseteq Tables \X (0..NColumns)
    BY <2>1
  <2>4. {p \in Tables \X Columns : column_name[p] # Absent} \subseteq Tables \X Columns
    OBVIOUS
  <2>5. steady = {<<t, 0>> : t \in {u \in Tables : table_name[u] # Absent}}
                 \cup {p \in Tables \X Columns : column_name[p] # Absent}
    BY DEF Init
  <2>6. QED
    BY <2>2, <2>3, <2>4, <2>5
<1>6. /\ pending \in Seq([id : Tables, name : Name])
      /\ columns \in Seq([id : Columns, name : Name, system : {FALSE}])
      /\ catalog_tables \in Seq(Table)
      /\ status \in Open \cup Ended
  BY DEF Init, Open
<1>7. page_token \in 0..(NTables - 1) /\ column_token \in 0..(NColumns - 1)
  BY Bounds DEF Init
<1>8. entries \in [DOMAIN entries -> DOMAIN catalog_tables]
  BY DEF Init
<1>9. QED
  BY <1>3, <1>4, <1>5, <1>6, <1>7, <1>8 DEF TypeOK

\* Entries gives each name the last of the tables that have it.
LEMMA EntriesFindTheLast ==
    ASSUME NEW ts \in Seq(Table)
    PROVE  /\ DOMAIN Entries(ts) = {Fold(ts[i].name) : i \in DOMAIN ts}
           /\ \A n \in DOMAIN Entries(ts) :
                  /\ Entries(ts)[n] \in DOMAIN ts
                  /\ Fold(ts[Entries(ts)[n]].name) = n
                  /\ \A j \in (Entries(ts)[n] + 1)..Len(ts) : Fold(ts[j].name) # n
<1> DEFINE Is(n, i) == Fold(ts[i].name) = n
           Last(n, i) == Is(n, i) /\ \A j \in (i + 1)..Len(ts) : ~Is(n, j)
           names == {Fold(ts[i].name) : i \in DOMAIN ts}
<1>1. Len(ts) \in Nat /\ DOMAIN ts = 1..Len(ts)
  OBVIOUS
<1>2. ASSUME NEW n \in names PROVE \E i \in DOMAIN ts : Last(n, i)
  <2>1. PICK i \in DOMAIN ts : Is(n, i)
    BY <1>2
  <2> HIDE DEF Is
  <2> DEFINE U == {k \in Nat : k <= Len(ts) /\ Is(n, Len(ts) - k)}
  <2>2. Len(ts) - i \in U
    <3>1. Len(ts) - i \in Nat /\ Len(ts) - (Len(ts) - i) = i
      BY <1>1
    <3>2. QED
      BY <1>1, <2>1, <3>1
  <2>3. U \in SUBSET Nat
    OBVIOUS
  <2>4. PICK k \in U : \A m \in U : k <= m
    <3> HIDE DEF U
    <3>1. QED
      BY <2>2, <2>3, Least
  <2>5. k <= Len(ts) - i
    <3> HIDE DEF U
    <3>1. QED
      BY <2>2, <2>4
  <2>6. Len(ts) - k \in DOMAIN ts
    BY <1>1, <2>4, <2>5
  <2>7. ASSUME NEW j \in ((Len(ts) - k) + 1)..Len(ts), Is(n, j) PROVE FALSE
    <3>1. Len(ts) - j \in Nat /\ Len(ts) - (Len(ts) - j) = j /\ Len(ts) - j < k
      BY <1>1, <2>4, <2>6
    <3>2. Len(ts) - j \in U
      BY <1>1, <2>7, <3>1
    <3> HIDE DEF U
    <3>3. k <= Len(ts) - j
      BY <2>4, <3>2
    <3>4. k \in Nat
      BY <2>3, <2>4
    <3>5. QED
      BY <3>1, <3>3, <3>4
  <2>8. QED
    BY <2>4, <2>6, <2>7
<1>3. Entries(ts) = [n \in names |-> CHOOSE i \in DOMAIN ts : Last(n, i)]
  BY DEF Entries
<1> HIDE DEF names
<1>4. DOMAIN Entries(ts) = names /\ \A n \in names : Entries(ts)[n] = CHOOSE i \in DOMAIN ts : Last(n, i)
  BY <1>3
<1>5. ASSUME NEW n \in names PROVE Entries(ts)[n] \in DOMAIN ts /\ Last(n, Entries(ts)[n])
  <2> HIDE DEF Last
  <2>1. QED
    BY <1>2, <1>4
<1>6. QED
  BY <1>4, <1>5 DEF names

LEMMA NextType == TypeOK /\ [Next]_vars => TypeOK'
<1> SUFFICES ASSUME TypeOK, [Next]_vars PROVE TypeOK'
  OBVIOUS
<1>1. ASSUME NEW t \in Tables, NEW name \in TableNames \cup {Absent}, EditTable(t, name)
      PROVE  TypeOK'
  <2>1. name \in Name \cup {Absent} /\ ({name} \ {Absent}) \subseteq Name
    BY CatalogAssumption
  <2>2. table_name' \in [Tables -> Name \cup {Absent}]
    BY <1>1, <2>1 DEF EditTable, TypeOK
  <2>3. held' \in [Tables -> SUBSET Name]
    BY <1>1, <2>1 DEF EditTable, TypeOK
  <2>4. edits' \in Nat /\ steady' \subseteq Tables \X (0..NColumns)
    BY <1>1 DEF EditTable, TypeOK
  <2>5. QED
    BY <1>1, <2>2, <2>3, <2>4 DEF EditTable, TypeOK, loading
<1>2. ASSUME NEW t \in Tables, NEW c \in Columns, NEW name \in ColumnNames \cup {Absent},
             EditColumn(t, c, name)
      PROVE  TypeOK'
  <2>1. name \in Name \cup {Absent}
    BY CatalogAssumption
  <2>2. column_name' \in [Tables \X Columns -> Name \cup {Absent}]
    BY <1>2, <2>1 DEF EditColumn, TypeOK
  <2>3. edits' \in Nat /\ steady' \subseteq Tables \X (0..NColumns)
    BY <1>2 DEF EditColumn, TypeOK
  <2>4. QED
    BY <1>2, <2>2, <2>3 DEF EditColumn, TypeOK, loading
<1>3. CASE ListTables
  <2>1. PICK upto \in (page_token + 1)..NTables :
            pending' = TablesPage(upto) /\ page_token' = NextToken(upto, NTables)
    BY <1>3 DEF ListTables, TablesPage
  <2>2. pending' \in Seq([id : Tables, name : Name])
    BY <2>1, PageOfTables DEF Pending
  <2>3. page_token' \in 0..(NTables - 1)
    BY <2>1, TokenOfPage, Bounds DEF TypeOK
  <2>4. status' \in Open \cup Ended
    BY <1>3 DEF ListTables, Open
  <2>5. QED
    BY <1>3, <2>2, <2>3, <2>4 DEF ListTables, TypeOK, doc
<1>4. CASE ListColumns
  <2> DEFINE t == Head(pending)
  <2>1. t \in Pending /\ Tail(pending) \in Seq(Pending)
    <3>1. pending \in Seq(Pending) /\ pending # <<>>
      BY <1>4 DEF ListColumns, TypeOK, Pending
    <3>2. QED
      BY <3>1, HeadTailProperties
  <2>2. t.id \in Tables /\ t.name \in Name
    BY <2>1 DEF Pending
  <2>3. PICK upto \in (column_token + 1)..NColumns :
            LET all == columns \o ColumnsPage(t.id, upto)
            IN  /\ column_token' = NextToken(upto, NColumns)
                /\ IF column_token' # 0
                   THEN columns' = all /\ UNCHANGED <<pending, catalog_tables>>
                   ELSE /\ columns' = <<>>
                        /\ pending' = Tail(pending)
                        /\ catalog_tables' = Append(catalog_tables,
                             [id |-> t.id, name |-> t.name, columns |-> prepare_columns(Offer(all))])
    BY <1>4 DEF ListColumns, ColumnsPage, Extend, Offer
  <2> DEFINE all == columns \o ColumnsPage(t.id, upto)
             P == prepare_columns(Offer(all))
             table == [id |-> t.id, name |-> t.name, columns |-> P]
  <2>4. ColumnsPage(t.id, upto) \in Seq(CodaOwned)
    BY <2>2, PageOfColumns
  <2>5. all \in Seq(CodaOwned)
    BY <2>4 DEF TypeOK, CodaOwned
  <2> HIDE DEF t, all
  <2>6. P \in Seq(Column)
    BY <2>5, OfferedColumns, PreparedColumns
  <2> HIDE DEF P
  <2>7. table \in Table
    BY <2>2, <2>6 DEF Table
  <2> HIDE DEF table
  <2>8. column_token' \in 0..(NColumns - 1)
    BY <2>3, TokenOfPage, Bounds DEF TypeOK
  <2>9. columns' \in Seq([id : Columns, name : Name, system : {FALSE}])
    <3>1. columns' = <<>> \/ columns' = all
      BY <2>3 DEF all
    <3>2. <<>> \in Seq(CodaOwned)
      OBVIOUS
    <3>3. columns' \in Seq(CodaOwned)
      BY <2>5, <3>1, <3>2
    <3>4. QED
      BY <3>3 DEF CodaOwned
  <2>10. pending' \in Seq([id : Tables, name : Name])
    BY <2>1, <2>3 DEF TypeOK, Pending
  <2>11. catalog_tables' = catalog_tables \/ catalog_tables' = Append(catalog_tables, table)
    BY <2>3 DEF table, P, all
  <2>12. catalog_tables' \in Seq(Table) /\ DOMAIN catalog_tables \subseteq DOMAIN catalog_tables'
    <3>1. catalog_tables \in Seq(Table)
      BY DEF TypeOK
    <3>2. /\ Append(catalog_tables, table) \in Seq(Table)
          /\ DOMAIN catalog_tables \subseteq DOMAIN Append(catalog_tables, table)
      BY <2>7, <3>1
    <3>3. QED
      BY <2>11, <3>1, <3>2
  <2>13. entries' \in [DOMAIN entries' -> DOMAIN catalog_tables']
    BY <1>4, <2>12 DEF ListColumns, TypeOK
  <2>14. QED
    BY <1>4, <2>8, <2>9, <2>10, <2>12, <2>13 DEF ListColumns, TypeOK, doc
<1>5. CASE NextTablePage
  BY <1>5 DEF NextTablePage, TypeOK, doc, loading, Open
<1>6. CASE BuildSchema
  <2>1. entries' = Entries(catalog_tables) /\ catalog_tables \in Seq(Table)
    BY <1>6 DEF BuildSchema, TypeOK
  <2>2. \A n \in DOMAIN entries' : entries'[n] \in DOMAIN catalog_tables
    BY <2>1, EntriesFindTheLast
  <2>3. entries' = [n \in DOMAIN entries' |-> entries'[n]]
    BY <2>1 DEF Entries
  <2>4. entries' \in [DOMAIN entries' -> DOMAIN catalog_tables]
    BY <2>2, <2>3
  <2>5. QED
    BY <1>6, <2>4 DEF BuildSchema, TypeOK, doc, loading, Ended
<1>7. CASE TableGone
  BY <1>7 DEF TableGone, TypeOK, doc, loading, Ended
<1>8. CASE Fail
  BY <1>8 DEF Fail, TypeOK, doc, loading, Ended
<1>9. CASE UNCHANGED vars
  BY <1>9 DEF TypeOK, vars, doc, loading
<1>10. QED
  BY <1>1, <1>2, <1>3, <1>4, <1>5, <1>6, <1>7, <1>8, <1>9 DEF Next, Over

\* Whatever the doc holds and whatever is edited, the loader keeps its types; the
\* tokens stay within the listings.
THEOREM CatalogTypeCorrect == Spec => []TypeOK
<1>1. QED
  BY InitType, NextType, PTL DEF Spec

-----------------------------------------------------------------------------
(* The invariant holds.                                                    *)

LEMMA Elements ==
    ASSUME TypeOK
    PROVE  /\ pending \in Seq(Pending) /\ catalog_tables \in Seq(Table) /\ columns \in Seq(CodaOwned)
           /\ \A i \in DOMAIN pending : pending[i].id \in Tables
           /\ \A i \in DOMAIN catalog_tables : catalog_tables[i].id \in Tables
           /\ \A i \in DOMAIN columns : columns[i].id \in Columns
<1>1. pending \in Seq(Pending) /\ catalog_tables \in Seq(Table) /\ columns \in Seq(CodaOwned)
  BY DEF TypeOK, Pending, CodaOwned
<1>2. /\ \A i \in DOMAIN pending : pending[i] \in Pending
      /\ \A i \in DOMAIN catalog_tables : catalog_tables[i] \in Table
      /\ \A i \in DOMAIN columns : columns[i] \in CodaOwned
  BY <1>1
<1>3. /\ \A x \in Pending : x.id \in Tables
      /\ \A x \in Table : x.id \in Tables
      /\ \A x \in CodaOwned : x.id \in Columns
  BY DEF Pending, Table, CodaOwned
<1>4. QED
  BY <1>1, <1>2, <1>3

LEMMA InitCatalog == Init /\ TypeOK => CatalogInv
<1> SUFFICES ASSUME Init, TypeOK PROVE CatalogInv
  OBVIOUS
<1>1. /\ pending = <<>> /\ columns = <<>> /\ catalog_tables = <<>> /\ entries = <<>>
      /\ page_token = 0 /\ column_token = 0 /\ status = "tables"
  BY DEF Init
<1>2. StillThere
  <2>1. \A t \in Tables : <<t, 0>> \in steady => table_name[t] # Absent
    <3> SUFFICES ASSUME NEW t \in Tables, <<t, 0>> \in steady PROVE table_name[t] # Absent
      OBVIOUS
    <3>1. 0 \notin Columns
      BY Bounds DEF Columns
    <3>2. <<t, 0>> \in {<<x, 0>> : x \in {u \in Tables : table_name[u] # Absent}}
      BY <3>1 DEF Init
    <3>3. QED
      BY <3>2
  <2>2. \A t \in Tables, c \in Columns : <<t, c>> \in steady => column_name[<<t, c>>] # Absent
    <3> SUFFICES ASSUME NEW t \in Tables, NEW c \in Columns, <<t, c>> \in steady
                 PROVE  column_name[<<t, c>>] # Absent
      OBVIOUS
    <3>1. c # 0
      BY Bounds DEF Columns
    <3>2. <<t, c>> \in {p \in Tables \X Columns : column_name[p] # Absent}
      BY <3>1 DEF Init
    <3>3. QED
      BY <3>2
  <2>3. QED
    BY <2>1, <2>2 DEF StillThere
<1>3. NamesWereHeld
  <2>1. \A t \in Tables : held[t] = {table_name[t]} \ {Absent}
    BY DEF Init
  <2>2. QED
    BY <1>1, <2>1 DEF NamesWereHeld
<1>4. TablesInOrder
  BY <1>1 DEF TablesInOrder, ById
<1>5. TablesListed
  BY <1>1, Bounds DEF TablesListed, TablesUpTo, Tables
<1>6. ColumnsListed
  BY <1>1 DEF ColumnsListed, ById
<1>7. NothingLeftOver /\ TablesWhole /\ SchemaBuilt
  BY <1>1 DEF NothingLeftOver, TablesWhole, SchemaBuilt
<1>8. QED
  BY <1>2, <1>3, <1>4, <1>5, <1>6, <1>7 DEF CatalogInv

\* What other users do leaves the loader as it is; what was there all the while
\* can only get less.
LEMMA EditKeeps ==
    ASSUME TypeOK, CatalogInv, UNCHANGED <<loading, entries, status>>, steady' \subseteq steady,
           \A t \in Tables : held[t] \subseteq held'[t],
           \A t \in Tables : table_name'[t] # Absent => table_name'[t] \in held'[t],
           StillThere'
    PROVE  CatalogInv'
<1>1. UNCHANGED <<pending, page_token, columns, column_token, catalog_tables, entries, status>>
  BY DEF loading
<1>2. NamesWereHeld'
  <2>1. QED
    BY <1>1, Elements DEF NamesWereHeld, CatalogInv
<1>3. TablesInOrder' /\ NothingLeftOver' /\ SchemaBuilt'
  BY <1>1 DEF CatalogInv, TablesInOrder, TablesUpTo, NothingLeftOver, SchemaBuilt
<1>4. TablesListed'
  BY <1>1 DEF CatalogInv, TablesListed, TablesUpTo
<1>5. ColumnsListed'
  BY <1>1 DEF CatalogInv, ColumnsListed
<1>6. TablesWhole'
  BY <1>1 DEF CatalogInv, TablesWhole, Whole
<1>7. QED
  BY <1>2, <1>3, <1>4, <1>5, <1>6 DEF CatalogInv

LEMMA EditTableKeeps ==
    ASSUME TypeOK, CatalogInv, NEW t \in Tables, NEW name \in TableNames \cup {Absent},
           EditTable(t, name)
    PROVE  CatalogInv'
<1>1. /\ table_name' = [table_name EXCEPT ![t] = name]
      /\ held' = [held EXCEPT ![t] = @ \cup ({name} \ {Absent})]
      /\ steady' = IF name = Absent THEN steady \ {<<t, 0>>} ELSE steady
      /\ UNCHANGED <<column_name, loading, entries, status>>
  BY DEF EditTable
<1>2. table_name \in [Tables -> Name \cup {Absent}] /\ held \in [Tables -> SUBSET Name]
  BY DEF TypeOK
<1>3. steady' \subseteq steady
  BY <1>1
<1>4. /\ \A u \in Tables : held[u] \subseteq held'[u]
      /\ \A u \in Tables : table_name'[u] # Absent => table_name'[u] \in held'[u]
  <2>1. NamesWereHeld
    BY DEF CatalogInv
  <2>2. QED
    BY <1>1, <1>2, <2>1 DEF NamesWereHeld
<1>5. StillThere'
  <2>1. StillThere
    BY DEF CatalogInv
  <2>2. \A u \in Tables : <<u, 0>> \in steady' => table_name'[u] # Absent
    <3> SUFFICES ASSUME NEW u \in Tables, <<u, 0>> \in steady' PROVE table_name'[u] # Absent
      OBVIOUS
    <3>1. CASE u = t
      BY <1>1, <1>2, <3>1
    <3>2. CASE u # t
      BY <1>1, <1>2, <1>3, <2>1, <3>2 DEF StillThere
    <3>3. QED
      BY <3>1, <3>2
  <2>3. QED
    BY <1>1, <1>3, <2>1, <2>2 DEF StillThere
<1>6. QED
  BY <1>1, <1>3, <1>4, <1>5, EditKeeps

LEMMA EditColumnKeeps ==
    ASSUME TypeOK, CatalogInv, NEW t \in Tables, NEW c \in Columns,
           NEW name \in ColumnNames \cup {Absent}, EditColumn(t, c, name)
    PROVE  CatalogInv'
<1>1. /\ column_name' = [column_name EXCEPT ![<<t, c>>] = name]
      /\ steady' = IF name = Absent THEN steady \ {<<t, c>>} ELSE steady
      /\ UNCHANGED <<table_name, held, loading, entries, status>>
  BY DEF EditColumn
<1>2. column_name \in [Tables \X Columns -> Name \cup {Absent}]
  BY DEF TypeOK
<1>3. steady' \subseteq steady
  BY <1>1
<1>4. StillThere
  BY DEF CatalogInv
<1>5. \A u \in Tables, d \in Columns : <<u, d>> \in steady' => column_name'[<<u, d>>] # Absent
  <2> SUFFICES ASSUME NEW u \in Tables, NEW d \in Columns, <<u, d>> \in steady'
               PROVE  column_name'[<<u, d>>] # Absent
    OBVIOUS
  <2>1. CASE <<u, d>> = <<t, c>>
    BY <1>1, <1>2, <2>1
  <2>2. CASE <<u, d>> # <<t, c>>
    <3>1. column_name'[<<u, d>>] = column_name[<<u, d>>]
      BY <1>1, <1>2, <2>2
    <3>2. QED
      BY <1>3, <1>4, <3>1 DEF StillThere
  <2>3. QED
    BY <2>1, <2>2
<1>6. StillThere'
  BY <1>1, <1>3, <1>4, <1>5 DEF StillThere
<1>7. /\ \A u \in Tables : held[u] \subseteq held'[u]
      /\ \A u \in Tables : table_name'[u] # Absent => table_name'[u] \in held'[u]
  BY <1>1 DEF CatalogInv, NamesWereHeld
<1>8. QED
  BY <1>1, <1>3, <1>6, <1>7, EditKeeps

LEMMA ListTablesKeeps ==
    ASSUME TypeOK, CatalogInv, ListTables
    PROVE  CatalogInv'
<1>1. /\ status = "tables" /\ status' = "columns"
      /\ UNCHANGED <<doc, columns, column_token, catalog_tables, entries>>
  BY DEF ListTables
<1>2. PICK upto \in (page_token + 1)..NTables :
          pending' = TablesPage(upto) /\ page_token' = NextToken(upto, NTables)
  BY DEF ListTables, TablesPage
<1>3. pending = <<>> /\ column_token = 0 /\ columns = <<>>
  BY <1>1 DEF CatalogInv, NothingLeftOver
<1>4. /\ ById(pending')
      /\ \A i \in DOMAIN pending' :
             /\ page_token < pending'[i].id /\ pending'[i].id <= upto
             /\ table_name[pending'[i].id] # Absent
             /\ pending'[i].name = table_name[pending'[i].id]
      /\ \A x \in Tables : page_token < x /\ x <= upto /\ table_name[x] # Absent =>
             Lists(pending', x)
  BY <1>2, PageOfTables
<1>5. page_token \in Nat /\ upto \in Nat /\ upto <= NTables /\ NTables \in Nat
  BY Bounds DEF TypeOK
<1>6. TablesUpTo = page_token /\ TablesUpTo' = upto
  BY <1>1, <1>2, <1>5 DEF TablesUpTo, NextToken
<1>7. \A i \in DOMAIN pending' : pending'[i].id \in Tables
  <2>1. pending' \in Seq(Pending)
    BY <1>2, PageOfTables
  <2>2. \A i \in DOMAIN pending' : pending'[i] \in Pending
    BY <2>1
  <2>3. QED
    BY <2>2 DEF Pending
<1>8. StillThere' /\ TablesWhole' /\ SchemaBuilt'
  BY <1>1 DEF doc, CatalogInv, StillThere, TablesWhole, Whole, SchemaBuilt
<1>9. NamesWereHeld'
  <2>1. NamesWereHeld
    BY DEF CatalogInv
  <2>2. QED
    BY <1>1, <1>4, <1>7, <2>1 DEF doc, NamesWereHeld
<1>10. TablesInOrder'
  <2>1. /\ ById(catalog_tables)
        /\ \A i \in DOMAIN catalog_tables : catalog_tables[i].id <= page_token
    BY <1>6 DEF CatalogInv, TablesInOrder
  <2>2. \A i \in DOMAIN catalog_tables : catalog_tables[i].id \in Nat
    BY Elements, Bounds
  <2>3. \A i \in DOMAIN pending' : pending'[i].id \in Nat
    BY <1>7, Bounds
  <2>4. QED
    BY <1>1, <1>4, <1>5, <1>6, <2>1, <2>2, <2>3 DEF TablesInOrder
<1>11. TablesListed'
  <2> SUFFICES ASSUME NEW t \in Tables, <<t, 0>> \in steady, t <= upto
               PROVE  Lists(catalog_tables, t) \/ Lists(pending', t)
    BY <1>1, <1>6 DEF TablesListed, doc
  <2>1. CASE t <= page_token
    <3>1. Lists(catalog_tables, t) \/ Lists(pending, t)
      BY <1>1, <1>6, <2>1 DEF CatalogInv, TablesListed
    <3>2. ~Lists(pending, t)
      BY <1>3 DEF Lists
    <3>3. QED
      BY <3>1, <3>2
  <2>2. CASE page_token < t
    BY <1>4, <2>2 DEF CatalogInv, StillThere
  <2>3. QED
    BY <1>5, <2>1, <2>2, Bounds
<1>12. ColumnsListed'
  <2>1. columns' = <<>> /\ column_token' = 0
    BY <1>1, <1>3
  <2>2. \A c \in Columns : ~(c <= 0)
    BY Bounds DEF Columns
  <2>3. QED
    BY <2>1, <2>2 DEF ColumnsListed, ById
<1>13. NothingLeftOver'
  BY <1>1, <1>3 DEF NothingLeftOver
<1>14. QED
  BY <1>8, <1>9, <1>10, <1>11, <1>12, <1>13 DEF CatalogInv

\* What load_columns holds after one more page.
LEMMA ColumnsSoFar ==
    ASSUME TypeOK, CatalogInv, pending # <<>>, NEW upto \in (column_token + 1)..NColumns
    PROVE  LET t   == Head(pending)
               all == columns \o ColumnsPage(t.id, upto)
           IN  /\ all \in Seq(CodaOwned)
               /\ ById(all)
               /\ \A k \in DOMAIN all : all[k].id <= upto
               /\ \A c \in Columns : <<t.id, c>> \in steady /\ c <= upto => Lists(all, c)
<1> DEFINE t == Head(pending)
           page == ColumnsPage(t.id, upto)
           all == columns \o page
<1>1. t.id \in Tables
  <2>1. t = pending[1] /\ 1 \in DOMAIN pending
    BY Elements
  <2>2. QED
    BY <2>1, Elements
<1> HIDE DEF t
<1>2. /\ page \in Seq(CodaOwned) /\ ById(page)
      /\ \A i \in DOMAIN page : column_token < page[i].id /\ page[i].id <= upto
      /\ \A x \in Columns : column_token < x /\ x <= upto /\ column_name[<<t.id, x>>] # Absent =>
             Lists(page, x)
  BY <1>1, PageOfColumns
<1> HIDE DEF page
<1>3. /\ columns \in Seq(CodaOwned) /\ ById(columns)
      /\ \A i \in DOMAIN columns : columns[i].id <= column_token
      /\ \A x \in Columns : <<t.id, x>> \in steady /\ x <= column_token => Lists(columns, x)
  BY Elements DEF CatalogInv, ColumnsListed, t
<1>4. /\ \A i \in DOMAIN page : page[i].id \in Nat
      /\ \A i \in DOMAIN columns : columns[i].id \in Nat
  <2>1. \A i \in DOMAIN page : page[i] \in CodaOwned
    BY <1>2
  <2>2. QED
    BY <2>1, Elements, Bounds DEF CodaOwned
<1>5. column_token \in Nat /\ upto \in Nat /\ column_token < upto
  BY Bounds DEF TypeOK
<1>6. /\ all \in Seq(CodaOwned) /\ Len(columns) \in Nat /\ Len(page) \in Nat
      /\ DOMAIN columns = 1..Len(columns) /\ DOMAIN page = 1..Len(page)
      /\ DOMAIN all = 1..(Len(columns) + Len(page))
      /\ \A i \in DOMAIN columns : all[i] = columns[i]
      /\ \A i \in DOMAIN page : all[Len(columns) + i] = page[i]
  BY <1>2, <1>3, ConcatProperties
<1> HIDE DEF all
<1>7. \A k \in DOMAIN all : k \in DOMAIN columns \/ (k - Len(columns) \in DOMAIN page /\ all[k] = page[k - Len(columns)])
  <2> TAKE k \in DOMAIN all
  <2>1. CASE k <= Len(columns)
    BY <1>6, <2>1
  <2>2. CASE k > Len(columns)
    <3>1. k - Len(columns) \in DOMAIN page /\ Len(columns) + (k - Len(columns)) = k
      BY <1>6, <2>2
    <3>2. QED
      BY <1>6, <3>1
  <2>3. QED
    BY <1>6, <2>1, <2>2
<1>8. ById(all)
  <2> SUFFICES ASSUME NEW i \in DOMAIN all, NEW j \in DOMAIN all, i < j PROVE all[i].id < all[j].id
    BY DEF ById
  <2>1. i \in Nat /\ j \in Nat
    BY <1>6
  <2>2. CASE j \in DOMAIN columns
    <3>1. i \in DOMAIN columns
      BY <1>6, <2>2
    <3>2. QED
      BY <1>3, <1>6, <2>2, <3>1 DEF ById
  <2>3. CASE j \notin DOMAIN columns /\ i \in DOMAIN columns
    <3>1. j - Len(columns) \in DOMAIN page /\ all[j] = page[j - Len(columns)]
      BY <1>7, <2>3
    <3>2. column_token < all[j].id /\ all[j].id \in Nat
      BY <1>2, <1>4, <3>1
    <3>3. all[i].id <= column_token /\ all[i].id \in Nat
      BY <1>3, <1>4, <1>6, <2>3
    <3>4. QED
      BY <1>5, <3>2, <3>3
  <2>4. CASE j \notin DOMAIN columns /\ i \notin DOMAIN columns
    <3>1. /\ j - Len(columns) \in DOMAIN page /\ all[j] = page[j - Len(columns)]
          /\ i - Len(columns) \in DOMAIN page /\ all[i] = page[i - Len(columns)]
      BY <1>7, <2>4
    <3>2. i - Len(columns) < j - Len(columns)
      BY <1>6, <2>1
    <3>3. QED
      BY <1>2, <3>1, <3>2 DEF ById
  <2>5. QED
    BY <2>2, <2>3, <2>4
<1>9. ASSUME NEW k \in DOMAIN all PROVE all[k].id <= upto
  <2>1. CASE k \in DOMAIN columns
    <3>1. all[k].id <= column_token /\ all[k].id \in Nat
      BY <1>3, <1>4, <1>6, <2>1
    <3>2. QED
      BY <1>5, <3>1
  <2>2. CASE k \notin DOMAIN columns
    BY <1>2, <1>7, <2>2
  <2>3. QED
    BY <2>1, <2>2
<1>10. ASSUME NEW c \in Columns, <<t.id, c>> \in steady, c <= upto PROVE Lists(all, c)
  <2>1. CASE c <= column_token
    <3>1. PICK i \in DOMAIN columns : columns[i].id = c
      BY <1>3, <1>10, <2>1 DEF Lists
    <3>2. i \in DOMAIN all /\ all[i].id = c
      BY <1>6, <3>1
    <3>3. QED
      BY <3>2 DEF Lists
  <2>2. CASE column_token < c
    <3>1. column_name[<<t.id, c>>] # Absent
      BY <1>1, <1>10 DEF CatalogInv, StillThere
    <3>2. PICK i \in DOMAIN page : page[i].id = c
      BY <1>2, <1>10, <2>2, <3>1 DEF Lists
    <3>3. Len(columns) + i \in DOMAIN all /\ all[Len(columns) + i].id = c
      BY <1>6, <3>2
    <3>4. QED
      BY <3>3 DEF Lists
  <2>3. QED
    BY <1>5, <2>1, <2>2, Bounds
<1>11. QED
  BY <1>6, <1>8, <1>9, <1>10 DEF all, page, t

LEMMA ListColumnsKeeps ==
    ASSUME TypeOK, CatalogInv, ListColumns
    PROVE  CatalogInv'
<1> DEFINE t == Head(pending)
           so_far(upto) == columns \o ColumnsPage(t.id, upto)
           table(upto) == [id |-> t.id, name |-> t.name,
                           columns |-> prepare_columns(Offer(so_far(upto)))]
<1>1. /\ status = "columns" /\ pending # <<>>
      /\ UNCHANGED <<table_name, column_name, edits, held, steady, page_token, entries, status>>
  BY DEF ListColumns, doc
<1>2. PICK upto \in (column_token + 1)..NColumns :
          /\ column_token' = NextToken(upto, NColumns)
          /\ IF column_token' # 0
             THEN columns' = so_far(upto) /\ UNCHANGED <<pending, catalog_tables>>
             ELSE /\ columns' = <<>>
                  /\ pending' = Tail(pending)
                  /\ catalog_tables' = Append(catalog_tables, table(upto))
  BY DEF ListColumns, ColumnsPage, Extend, Offer
<1> DEFINE all == so_far(upto)
<1>3. /\ all \in Seq(CodaOwned)
      /\ ById(all)
      /\ \A k \in DOMAIN all : all[k].id <= upto
      /\ \A c \in Columns : <<t.id, c>> \in steady /\ c <= upto => Lists(all, c)
  BY <1>1, ColumnsSoFar
<1>4. upto \in Nat /\ upto # 0 /\ upto <= NColumns /\ NColumns \in Nat
  BY Bounds DEF TypeOK
<1>5. /\ pending \in Seq(Pending) /\ catalog_tables \in Seq(Table)
      /\ \A i \in DOMAIN pending : pending[i].id \in Tables
      /\ \A i \in DOMAIN catalog_tables : catalog_tables[i].id \in Tables
  BY Elements
<1>6. 1 \in DOMAIN pending /\ t = pending[1]
  BY <1>1, <1>5
<1>7. TablesUpTo' = TablesUpTo /\ StillThere'
  BY <1>1 DEF TablesUpTo, CatalogInv, StillThere
<1>8. SchemaBuilt'
  BY <1>1 DEF CatalogInv, SchemaBuilt
<1>9. CASE column_token' # 0
  <2>1. columns' = all /\ pending' = pending /\ catalog_tables' = catalog_tables /\ column_token' = upto
    BY <1>2, <1>9 DEF NextToken
  <2> HIDE DEF all, so_far
  <2>2. NamesWereHeld' /\ TablesInOrder' /\ TablesListed' /\ TablesWhole'
    <3>1. NamesWereHeld'
      BY <1>1, <2>1 DEF CatalogInv, NamesWereHeld
    <3>2. TablesInOrder'
      BY <1>7, <2>1 DEF CatalogInv, TablesInOrder
    <3>3. TablesListed'
      BY <1>1, <1>7, <2>1 DEF CatalogInv, TablesListed
    <3>4. TablesWhole'
      BY <1>1, <2>1 DEF CatalogInv, TablesWhole, Whole
    <3>5. QED
      BY <3>1, <3>2, <3>3, <3>4
  <2>3. ColumnsListed'
    BY <1>1, <1>3, <2>1 DEF ColumnsListed
  <2>4. NothingLeftOver'
    BY <1>1, <1>4, <2>1 DEF NothingLeftOver
  <2>5. QED
    BY <1>7, <1>8, <2>2, <2>3, <2>4 DEF CatalogInv
<1>10. CASE column_token' = 0
  <2> DEFINE new == table(upto)
             n == Len(catalog_tables)
  <2>1. columns' = <<>> /\ pending' = Tail(pending) /\ catalog_tables' = Append(catalog_tables, new)
    BY <1>2, <1>10
  <2>2. upto = NColumns
    BY <1>2, <1>4, <1>10 DEF NextToken
  <2>3. new.id = t.id /\ new.name = t.name /\ new.columns = prepare_columns(Offer(all))
    OBVIOUS
  <2> HIDE DEF all, so_far, table, new
  <2>4. Whole(new)
    <3>1. /\ Distinct(new.columns)
          /\ \A c \in Columns : Lists(all, c) => Lists(new.columns, c)
          /\ \A k, l \in DOMAIN new.columns :
                 new.columns[k].id = new.columns[l].id /\ new.columns[k].id # 0 => k = l
      BY <1>3, <2>3, CompletedColumns
    <3>2. \A c \in Columns : c <= upto
      BY <2>2 DEF Columns
    <3>3. QED
      BY <1>3, <2>3, <3>1, <3>2 DEF Whole
  <2>5. /\ n \in Nat /\ DOMAIN catalog_tables = 1..n
        /\ DOMAIN catalog_tables' = 1..(n + 1)
        /\ catalog_tables'[n + 1] = new
        /\ \A i \in 1..n : catalog_tables'[i] = catalog_tables[i]
    <3>1. n \in Nat /\ DOMAIN catalog_tables = 1..n
      BY <1>5
    <3>2. QED
      BY <1>5, <2>1, <3>1
  <2>6. /\ Len(pending) \in Nat /\ DOMAIN pending = 1..Len(pending)
        /\ DOMAIN pending' = 1..(Len(pending) - 1)
        /\ \A j \in DOMAIN pending' : j + 1 \in DOMAIN pending /\ pending'[j] = pending[j + 1]
    BY <1>1, <1>5, <2>1
  <2>7. NamesWereHeld'
    <3>1. NamesWereHeld
      BY DEF CatalogInv
    <3>2. t.name \in held[t.id]
      BY <1>6, <3>1 DEF NamesWereHeld
    <3>3. \A i \in DOMAIN catalog_tables' : catalog_tables'[i].name \in held[catalog_tables'[i].id]
      <4> TAKE i \in DOMAIN catalog_tables'
      <4>1. CASE i = n + 1
        BY <2>3, <2>5, <3>2, <4>1
      <4>2. CASE i \in 1..n
        BY <2>5, <3>1, <4>2 DEF NamesWereHeld
      <4>3. QED
        BY <2>5, <4>1, <4>2
    <3>4. \A j \in DOMAIN pending' : pending'[j].name \in held[pending'[j].id]
      BY <2>6, <3>1 DEF NamesWereHeld
    <3>5. QED
      BY <1>1, <3>1, <3>3, <3>4 DEF NamesWereHeld
  <2>8. TablesInOrder'
    <3>1. TablesInOrder
      BY DEF CatalogInv
    <3>2. /\ \A i \in 1..n : catalog_tables[i].id < t.id /\ catalog_tables[i].id <= TablesUpTo
          /\ t.id <= TablesUpTo
      BY <1>6, <2>5, <3>1 DEF TablesInOrder
    <3>3. \A j \in DOMAIN pending' : t.id < pending'[j].id
      <4> TAKE j \in DOMAIN pending'
      <4>1. j + 1 \in DOMAIN pending /\ 1 < j + 1 /\ pending'[j] = pending[j + 1]
        BY <2>6
      <4>2. QED
        BY <1>6, <3>1, <4>1 DEF TablesInOrder, ById
    <3>4. ById(catalog_tables')
      <4> SUFFICES ASSUME NEW i \in 1..(n + 1), NEW j \in 1..(n + 1), i < j
                   PROVE  catalog_tables'[i].id < catalog_tables'[j].id
        BY <2>5 DEF ById
      <4>1. i \in 1..n
        BY <2>5
      <4>2. CASE j \in 1..n
        BY <2>5, <3>1, <4>1, <4>2 DEF TablesInOrder, ById
      <4>3. CASE j = n + 1
        BY <2>3, <2>5, <3>2, <4>1, <4>3
      <4>4. QED
        BY <2>5, <4>2, <4>3
    <3>5. ById(pending')
      <4> SUFFICES ASSUME NEW i \in DOMAIN pending', NEW j \in DOMAIN pending', i < j
                   PROVE  pending'[i].id < pending'[j].id
        BY DEF ById
      <4>1. i + 1 < j + 1
        BY <2>6
      <4>2. QED
        BY <2>6, <3>1, <4>1 DEF TablesInOrder, ById
    <3>6. /\ \A i \in DOMAIN catalog_tables' : catalog_tables'[i].id <= TablesUpTo
          /\ \A i \in DOMAIN catalog_tables', j \in DOMAIN pending' :
                 catalog_tables'[i].id < pending'[j].id
      <4>1. ASSUME NEW i \in 1..(n + 1)
            PROVE  /\ catalog_tables'[i].id <= TablesUpTo
                   /\ \A j \in DOMAIN pending' : catalog_tables'[i].id < pending'[j].id
        <5>1. CASE i = n + 1
          BY <2>3, <2>5, <3>2, <3>3, <5>1
        <5>2. CASE i \in 1..n
          BY <2>5, <2>6, <3>1, <5>2 DEF TablesInOrder
        <5>3. QED
          BY <2>5, <5>1, <5>2
      <4>2. QED
        BY <2>5, <4>1
    <3>7. \A j \in DOMAIN pending' : pending'[j].id <= TablesUpTo
      BY <2>6, <3>1 DEF TablesInOrder
    <3>8. QED
      BY <1>7, <3>4, <3>5, <3>6, <3>7 DEF TablesInOrder
  <2>9. TablesListed'
    <3> SUFFICES ASSUME NEW u \in Tables, <<u, 0>> \in steady, u <= TablesUpTo
                 PROVE  Lists(catalog_tables', u) \/ Lists(pending', u)
      BY <1>1, <1>7 DEF TablesListed
    <3>1. Lists(catalog_tables, u) \/ Lists(pending, u)
      BY <1>1 DEF CatalogInv, TablesListed
    <3>2. CASE Lists(catalog_tables, u)
      BY <2>5, <3>2 DEF Lists
    <3>3. CASE Lists(pending, u)
      <4>1. PICK i \in DOMAIN pending : pending[i].id = u
        BY <3>3 DEF Lists
      <4>2. CASE i = 1
        <5>1. n + 1 \in DOMAIN catalog_tables' /\ catalog_tables'[n + 1].id = u
          BY <1>6, <2>3, <2>5, <4>1, <4>2
        <5>2. QED
          BY <5>1 DEF Lists
      <4>3. CASE i # 1
        <5>1. i - 1 \in DOMAIN pending' /\ (i - 1) + 1 = i
          BY <2>6, <4>3
        <5>2. pending'[i - 1].id = u
          BY <2>6, <4>1, <5>1
        <5>3. QED
          BY <5>1, <5>2 DEF Lists
      <4>4. QED
        BY <4>2, <4>3
    <3>4. QED
      BY <3>1, <3>2, <3>3
  <2>10. ColumnsListed'
    <3>1. \A c \in Columns : ~(c <= 0)
      BY Bounds DEF Columns
    <3>2. QED
      BY <1>10, <2>1, <3>1 DEF ColumnsListed, ById
  <2>11. NothingLeftOver'
    BY <1>1, <1>10, <2>1 DEF NothingLeftOver
  <2>12. TablesWhole'
    <3>1. TablesWhole
      BY DEF CatalogInv
    <3>2. \A x : Whole(x)' <=> Whole(x)
      BY <1>1 DEF Whole
    <3>3. \A i \in 1..(n + 1) : Whole(catalog_tables'[i])
      BY <2>4, <2>5, <3>1 DEF TablesWhole
    <3>4. QED
      BY <1>1, <2>5, <3>3 DEF TablesWhole, Whole
  <2>13. QED
    BY <1>7, <1>8, <2>7, <2>8, <2>9, <2>10, <2>11, <2>12 DEF CatalogInv
<1>11. QED
  BY <1>9, <1>10

\* Going on to the next page, ending, and failing leave the lists as they are.
LEMMA RestKeeps ==
    ASSUME TypeOK, CatalogInv, NextTablePage \/ BuildSchema \/ TableGone \/ Fail
    PROVE  CatalogInv'
<1>1. UNCHANGED <<table_name, column_name, held, steady, pending, page_token, columns, column_token,
                  catalog_tables>>
  BY DEF NextTablePage, BuildSchema, TableGone, Fail, doc, loading
<1>2. TablesUpTo <= TablesUpTo' /\ (status' # "failed" => TablesUpTo' = TablesUpTo)
  BY <1>1, Bounds DEF TablesUpTo, TypeOK, NextTablePage, BuildSchema, TableGone, Fail, IsLastPage
<1>3. TablesUpTo \in Nat /\ TablesUpTo' \in Nat
  BY <1>1, Bounds DEF TablesUpTo, TypeOK
<1>4. StillThere' /\ NamesWereHeld' /\ ColumnsListed' /\ TablesWhole'
  <2>1. StillThere' /\ NamesWereHeld'
    BY <1>1 DEF CatalogInv, StillThere, NamesWereHeld
  <2>2. ColumnsListed'
    BY <1>1 DEF CatalogInv, ColumnsListed
  <2>3. TablesWhole'
    BY <1>1 DEF CatalogInv, TablesWhole, Whole
  <2>4. QED
    BY <2>1, <2>2, <2>3
<1>5. TablesInOrder'
  <2>1. /\ \A i \in DOMAIN catalog_tables : catalog_tables[i].id \in Nat
        /\ \A i \in DOMAIN pending : pending[i].id \in Nat
    BY Elements, Bounds
  <2>2. QED
    BY <1>1, <1>2, <1>3, <2>1 DEF CatalogInv, TablesInOrder
<1>6. TablesListed'
  BY <1>1, <1>2 DEF CatalogInv, TablesListed, NextTablePage, BuildSchema, TableGone, Fail
<1>7. NothingLeftOver'
  BY <1>1 DEF CatalogInv, NothingLeftOver, NextTablePage, BuildSchema, TableGone, Fail, IsLastPage
<1>8. SchemaBuilt'
  BY <1>1 DEF CatalogInv, SchemaBuilt, NextTablePage, BuildSchema, TableGone, Fail
<1>9. QED
  BY <1>4, <1>5, <1>6, <1>7, <1>8 DEF CatalogInv

LEMMA NextCatalog == TypeOK /\ CatalogInv /\ [Next]_vars => CatalogInv'
<1> SUFFICES ASSUME TypeOK, CatalogInv, [Next]_vars PROVE CatalogInv'
  OBVIOUS
<1>1. ASSUME NEW t \in Tables, NEW name \in TableNames \cup {Absent}, EditTable(t, name)
      PROVE  CatalogInv'
  BY <1>1, EditTableKeeps
<1>2. ASSUME NEW t \in Tables, NEW c \in Columns, NEW name \in ColumnNames \cup {Absent},
             EditColumn(t, c, name)
      PROVE  CatalogInv'
  BY <1>2, EditColumnKeeps
<1>3. CASE ListTables
  BY <1>3, ListTablesKeeps
<1>4. CASE ListColumns
  BY <1>4, ListColumnsKeeps
<1>5. CASE NextTablePage \/ BuildSchema \/ TableGone \/ Fail
  BY <1>5, RestKeeps
<1>6. CASE UNCHANGED vars
  <2>1. UNCHANGED <<loading, entries, status, steady, held, table_name, column_name>>
    BY <1>6 DEF vars, doc
  <2>2. StillThere' /\ \A t \in Tables : table_name'[t] # Absent => table_name'[t] \in held'[t]
    BY <2>1 DEF CatalogInv, StillThere, NamesWereHeld
  <2>3. QED
    BY <2>1, <2>2, EditKeeps
<1>7. QED
  BY <1>1, <1>2, <1>3, <1>4, <1>5, <1>6 DEF Next, Over

\* At every step of an ATTACH: what is complete and what is pending follow the
\* listing as far as its pages went, nothing that was there all the while is
\* missing from them, and complete tables are whole.
THEOREM CatalogInvariant == Spec => []CatalogInv
<1>1. Init => TypeOK /\ CatalogInv
  BY InitType, InitCatalog
<1>2. TypeOK /\ CatalogInv /\ [Next]_vars => TypeOK' /\ CatalogInv'
  BY NextType, NextCatalog
<1>3. QED
  BY <1>1, <1>2, PTL DEF Spec
-----------------------------------------------------------------------------
(* What ATTACH promises.                                                   *)

LEMMA DifferentIds ==
    ASSUME NEW s, DOMAIN s \subseteq Nat, \A i \in DOMAIN s : s[i].id \in Nat, ById(s),
           NEW i \in DOMAIN s, NEW j \in DOMAIN s, s[i].id = s[j].id
    PROVE  i = j
<1>1. i \in Nat /\ j \in Nat
  OBVIOUS
<1>2. CASE i < j
  BY <1>2 DEF ById
<1>3. CASE j < i
  BY <1>3 DEF ById
<1>4. QED
  BY <1>1, <1>2, <1>3

LEMMA TablesDiffer ==
    ASSUME TypeOK, CatalogInv, NEW i \in DOMAIN catalog_tables, NEW j \in DOMAIN catalog_tables,
           catalog_tables[i].id = catalog_tables[j].id
    PROVE  i = j
<1>1. DOMAIN catalog_tables \subseteq Nat
  BY Elements
<1>2. \A k \in DOMAIN catalog_tables : catalog_tables[k].id \in Nat
  BY Elements, Bounds
<1>3. ById(catalog_tables)
  BY DEF CatalogInv, TablesInOrder
<1>4. QED
  BY <1>1, <1>2, <1>3, DifferentIds

LEMMA AttachedTable ==
    ASSUME TypeOK, CatalogInv, status = "attached", NEW t \in Tables, <<t, 0>> \in steady
    PROVE  \E i \in DOMAIN catalog_tables : catalog_tables[i].id = t
<1>1. pending = <<>> /\ TablesUpTo = NTables
  BY DEF CatalogInv, NothingLeftOver, TablesUpTo
<1>2. t <= NTables
  BY DEF Tables
<1>3. Lists(catalog_tables, t) \/ Lists(pending, t)
  BY <1>1, <1>2 DEF CatalogInv, TablesListed
<1>4. QED
  BY <1>1, <1>3 DEF Lists

\* Pages of any sizes, and edits between any two of them, lose and repeat no
\* table and no column that was there all the while.
THEOREM CatalogComplete == Spec => []CatalogIsComplete
<1>1. TypeOK /\ CatalogInv => CatalogIsComplete
  <2> SUFFICES ASSUME TypeOK, CatalogInv, status = "attached", NEW t \in Tables, <<t, 0>> \in steady
               PROVE  \E i \in DOMAIN catalog_tables :
                          /\ catalog_tables[i].id = t
                          /\ \A j \in DOMAIN catalog_tables : catalog_tables[j].id = t => j = i
                          /\ \A c \in Columns : <<t, c>> \in steady =>
                              \E k \in DOMAIN catalog_tables[i].columns :
                                  /\ catalog_tables[i].columns[k].id = c
                                  /\ \A l \in DOMAIN catalog_tables[i].columns :
                                         catalog_tables[i].columns[l].id = c => l = k
    BY DEF CatalogIsComplete
  <2>1. PICK i \in DOMAIN catalog_tables : catalog_tables[i].id = t
    BY AttachedTable
  <2>2. \A j \in DOMAIN catalog_tables : catalog_tables[j].id = t => j = i
    BY <2>1, TablesDiffer
  <2> DEFINE cs == catalog_tables[i].columns
  <2>3. ASSUME NEW c \in Columns, <<t, c>> \in steady
        PROVE  \E k \in DOMAIN cs : cs[k].id = c /\ \A l \in DOMAIN cs : cs[l].id = c => l = k
    <3>1. Whole(catalog_tables[i])
      BY DEF CatalogInv, TablesWhole
    <3>2. PICK k \in DOMAIN cs : cs[k].id = c
      BY <2>1, <2>3, <3>1 DEF Whole, Lists
    <3>3. c # 0
      BY Bounds DEF Columns
    <3>4. \A l \in DOMAIN cs : cs[l].id = c => l = k
      BY <3>1, <3>2, <3>3 DEF Whole
    <3>5. QED
      BY <3>2, <3>4
  <2>4. QED
    BY <2>1, <2>2, <2>3
<1>2. QED
  BY <1>1, CatalogTypeCorrect, CatalogInvariant, PTL

\* prepare_columns ends with names that differ for any columns whatever, numbered
\* and system columns included.
THEOREM NamesDistinct == Spec => []ColumnNamesDistinct
<1>1. CatalogInv => ColumnNamesDistinct
  BY DEF CatalogInv, TablesWhole, Whole, Distinct, ColumnNamesDistinct
<1>2. QED
  BY <1>1, CatalogInvariant, PTL

\* A name that only one table had is found, under any edits; the case insensitive
\* map hides a table only behind one with which it shared a name.
THEOREM TablesFound == Spec => []UnambiguousTablesAreFound
<1>1. TypeOK /\ CatalogInv => UnambiguousTablesAreFound
  <2> SUFFICES ASSUME TypeOK, CatalogInv, status = "attached", NEW t \in Tables,
                      <<t, 0>> \in steady,
                      \A u \in Tables \ {t} :
                          {Fold(n) : n \in held[t]} \cap {Fold(n) : n \in held[u]} = {}
               PROVE  \E n \in held[t] : \E table \in LookupEntry(n) : table.id = t
    BY DEF UnambiguousTablesAreFound
  <2>1. PICK i \in DOMAIN catalog_tables : catalog_tables[i].id = t
    BY AttachedTable
  <2> DEFINE n == catalog_tables[i].name
             e == entries[Fold(n)]
  <2>2. n \in held[t]
    BY <2>1 DEF CatalogInv, NamesWereHeld
  <2>3. entries = Entries(catalog_tables) /\ catalog_tables \in Seq(Table)
    BY Elements DEF CatalogInv, SchemaBuilt
  <2>4. Fold(n) \in DOMAIN entries
    BY <2>3, EntriesFindTheLast
  <2>5. e \in DOMAIN catalog_tables /\ Fold(catalog_tables[e].name) = Fold(n)
    BY <2>3, <2>4, EntriesFindTheLast
  <2> HIDE DEF n, e
  <2>6. catalog_tables[e].name \in held[catalog_tables[e].id] /\ catalog_tables[e].id \in Tables
    BY <2>5, Elements DEF CatalogInv, NamesWereHeld
  <2>7. catalog_tables[e].id = t
    <3> SUFFICES ASSUME catalog_tables[e].id # t PROVE FALSE
      OBVIOUS
    <3>1. /\ Fold(n) \in {Fold(m) : m \in held[t]}
          /\ Fold(n) \in {Fold(m) : m \in held[catalog_tables[e].id]}
      BY <2>2, <2>5, <2>6
    <3>2. QED
      BY <2>6, <3>1
  <2>8. catalog_tables[e] \in LookupEntry(n)
    BY <2>4 DEF LookupEntry, e, n
  <2>9. QED
    BY <2>2, <2>7, <2>8
<1>2. QED
  BY <1>1, CatalogTypeCorrect, CatalogInvariant, PTL
=============================================================================
