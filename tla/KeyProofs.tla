------------------------------ MODULE KeyProofs ------------------------------
(***************************************************************************)
(* Proofs about RecordKeys, for any primary key, values and operations:    *)
(* the cache key and the WHERE clause made of the same key values address  *)
(* the same row.                                                           *)
(***************************************************************************)
EXTENDS KeyProperties, SequenceTheorems, FiniteSetTheorems, WellFoundedInduction, TLAPS

-----------------------------------------------------------------------------
(* Sequences put one after the other.                                      *)

(* A set of numbers that is not empty has a least one.                     *)
LEMMA LeastNumber ==
  ASSUME NEW A, A \subseteq Nat, A # {}
  PROVE  \E m \in A : \A k \in A : m <= k
<1> DEFINE T == {0..i : i \in A}
<1>1. T \subseteq FiniteSubsetsOf(Nat) /\ T # {}
  <2>1. \A i \in A : 0..i \subseteq Nat /\ IsFiniteSet(0..i)
    BY FS_Interval
  <2>2. \A i \in A : 0..i \in FiniteSubsetsOf(Nat)
    BY <2>1 DEF FiniteSubsetsOf
  <2> QED BY <2>2
<1>2. PICK t \in T : \A u \in T : <<u, t>> \notin StrictSubsetOrdering(Nat)
  <2> HIDE DEF T
  <2> QED BY <1>1, FS_StrictSubsetOrderingWellFounded, WFMin
<1>3. PICK m \in A : t = 0..m
  BY <1>2
<1>4. ASSUME NEW k \in A, k < m PROVE FALSE
  <2>1. 0..k \in T /\ 0..k \subseteq 0..m /\ m \in 0..m /\ m \notin 0..k
    BY <1>4
  <2>2. <<0..k, 0..m>> \in StrictSubsetOrdering(Nat)
    BY <2>1, <1>1, <1>2, <1>3 DEF StrictSubsetOrdering, FiniteSubsetsOf
  <2> QED BY <1>2, <1>3, <2>1, <2>2
<1>5. \A k \in A : m <= k
  BY <1>4
<1> QED BY <1>5

(* Joining two sequences, and positions on either side of the seam.        *)
LEMMA Joined ==
  ASSUME NEW T, NEW q \in Seq(T), NEW t \in Seq(T)
  PROVE  /\ q \o t \in Seq(T) /\ Len(q \o t) = Len(q) + Len(t)
         /\ Len(q) \in Nat /\ Len(t) \in Nat
         /\ \A p \in 1..Len(q) : (q \o t)[p] = q[p]
         /\ \A p \in 1..Len(t) : (q \o t)[Len(q) + p] = t[p]
<1>1. /\ q \o t \in Seq(T) /\ Len(q \o t) = Len(q) + Len(t)
      /\ \A p \in 1..(Len(q) + Len(t)) :
           (q \o t)[p] = IF p <= Len(q) THEN q[p] ELSE t[p - Len(q)]
  BY ConcatProperties
<1>2. Len(q) \in Nat /\ Len(t) \in Nat
  BY LenProperties
<1>3. \A x, y \in Nat :
        /\ \A p \in 1..x : p \in 1..(x + y) /\ p <= x
        /\ \A p \in 1..y : x + p \in 1..(x + y) /\ ~(x + p <= x) /\ x + p - x = p
  OBVIOUS
<1>4. /\ \A p \in 1..Len(q) : p \in 1..(Len(q) + Len(t)) /\ p <= Len(q)
      /\ \A p \in 1..Len(t) : /\ Len(q) + p \in 1..(Len(q) + Len(t)) /\ ~(Len(q) + p <= Len(q))
                              /\ Len(q) + p - Len(q) = p
  BY <1>2, <1>3
<1>5. \A p \in 1..Len(q) : (q \o t)[p] = q[p]
  BY <1>1, <1>4
<1>6. \A p \in 1..Len(t) : (q \o t)[Len(q) + p] = t[p]
  BY <1>1, <1>4
<1> QED BY <1>1, <1>2, <1>5, <1>6

(* What FlattenSeq defines by recursion: f[i] joins the first i parts.     *)
IsFlat(f, s, n) == f = [i \in 1..n |-> IF i = 1 THEN s[i] ELSE f[i - 1] \o s[i]]

(* There is such a function, however many parts there are.                 *)
LEMMA FlatExists ==
  ASSUME NEW s, NEW n \in Nat
  PROVE  \A k \in 0..n : \E f : IsFlat(f, s, k)
<1> DEFINE A == {k \in 0..n : ~\E f : IsFlat(f, s, k)}
<1> SUFFICES ASSUME A # {} PROVE FALSE
  OBVIOUS
<1>1. PICK k \in A : \A j \in A : k <= j
  <2>1. A \subseteq Nat
    OBVIOUS
  <2> HIDE DEF A
  <2> QED BY <2>1, LeastNumber
<1>2. k # 0
  <2>1. IsFlat([i \in 1..0 |-> s[i]], s, 0)
    BY DEF IsFlat
  <2> QED BY <2>1
<1>3. k - 1 \in 0..n /\ k - 1 \notin A
  BY <1>1, <1>2
<1>4. PICK f : IsFlat(f, s, k - 1)
  BY <1>3
<1> DEFINE g == [i \in 1..k |-> IF i < k THEN f[i] ELSE IF k = 1 THEN s[k] ELSE f[k - 1] \o s[k]]
<1>5. ASSUME NEW i \in 1..k
      PROVE  g[i] = IF i = 1 THEN s[i] ELSE g[i - 1] \o s[i]
  <2>1. CASE i < k
    <3>1. i \in 1..(k - 1)
      BY <2>1
    <3>2. f[i] = IF i = 1 THEN s[i] ELSE f[i - 1] \o s[i]
      BY <1>4, <3>1 DEF IsFlat
    <3>3. i # 1 => g[i - 1] = f[i - 1]
      BY <2>1
    <3> QED BY <2>1, <3>2, <3>3
  <2>2. CASE i = k
    <3>1. k # 1 => g[k - 1] = f[k - 1]
      BY <1>2
    <3> QED BY <2>2, <3>1
  <2> QED BY <2>1, <2>2
<1>6. IsFlat(g, s, k)
  BY <1>5 DEF IsFlat
<1> QED BY <1>6

(* FlattenSeq is the last value of that function.                          *)
LEMMA FlattenIsFlat ==
  ASSUME NEW s, Len(s) \in Nat, Len(s) # 0
  PROVE  \E f : IsFlat(f, s, Len(s)) /\ FlattenSeq(s) = f[Len(s)]
<1>1. \E f : IsFlat(f, s, Len(s))
  BY FlatExists
<1> QED BY <1>1 DEF FlattenSeq, IsFlat

Prefix(a, b) == Len(a) <= Len(b) /\ \A p \in 1..Len(a) : a[p] = b[p]

Before(f, i) == IF i = 1 THEN <<>> ELSE f[i - 1]

(* The i-th part is what f[i] has after what comes before it.              *)
Joins(f, s, T, i) ==
  /\ f[i] \in Seq(T) /\ Before(f, i) \in Seq(T)
  /\ Len(f[i]) = Len(Before(f, i)) + Len(s[i])
  /\ Prefix(Before(f, i), f[i])
  /\ \A j \in 1..Len(s[i]) : f[i][Len(Before(f, i)) + j] = s[i][j]

(* Each part joins what comes before it.                                   *)
LEMMA FlatJoins ==
  ASSUME NEW T, NEW n \in Nat, NEW s, \A i \in 1..n : s[i] \in Seq(T),
         NEW f, IsFlat(f, s, n)
  PROVE  \A i \in 1..n : Joins(f, s, T, i)
<1> DEFINE A == {i \in 1..n : ~Joins(f, s, T, i)}
<1> SUFFICES ASSUME A # {} PROVE FALSE
  OBVIOUS
<1>1. PICK i \in A : \A j \in A : i <= j
  <2>1. A \subseteq Nat
    OBVIOUS
  <2> HIDE DEF A
  <2> QED BY <2>1, LeastNumber
<1>2. s[i] \in Seq(T) /\ Len(s[i]) \in Nat /\ f[i] = IF i = 1 THEN s[i] ELSE f[i - 1] \o s[i]
  BY LenProperties DEF IsFlat
<1> DEFINE b == Before(f, i)
<1>3. b \in Seq(T) /\ f[i] = b \o s[i]
  <2>1. CASE i = 1
    <3>1. b = <<>> /\ f[i] = s[i]
      BY <1>2, <2>1 DEF Before
    <3>2. <<>> \in Seq(T)
      BY EmptySeq
    <3> QED BY <1>2, <3>1, <3>2, ConcatEmptySeq
  <2>2. CASE i # 1
    <3>1. i - 1 \in 1..n /\ i - 1 \notin A
      BY <1>1, <2>2
    <3>2. f[i - 1] \in Seq(T)
      BY <3>1 DEF Joins
    <3> QED BY <1>2, <2>2, <3>2 DEF Before
  <2> QED BY <2>1, <2>2
<1>4. /\ f[i] \in Seq(T) /\ Len(f[i]) = Len(b) + Len(s[i]) /\ Len(b) \in Nat
      /\ \A p \in 1..(Len(b) + Len(s[i])) :
           f[i][p] = IF p <= Len(b) THEN b[p] ELSE s[i][p - Len(b)]
  <2> HIDE DEF b
  <2>1. \A q \in Seq(T) : \A t \in Seq(T) :
          /\ q \o t \in Seq(T) /\ Len(q \o t) = Len(q) + Len(t) /\ Len(q) \in Nat
          /\ \A p \in 1..(Len(q) + Len(t)) :
               (q \o t)[p] = IF p <= Len(q) THEN q[p] ELSE t[p - Len(q)]
    BY ConcatProperties, LenProperties
  <2>2. b \in Seq(T) /\ s[i] \in Seq(T) /\ f[i] = b \o s[i]
    BY <1>2, <1>3
  <2>3. /\ b \o s[i] \in Seq(T) /\ Len(b \o s[i]) = Len(b) + Len(s[i]) /\ Len(b) \in Nat
        /\ \A p \in 1..(Len(b) + Len(s[i])) :
             (b \o s[i])[p] = IF p <= Len(b) THEN b[p] ELSE s[i][p - Len(b)]
    BY ONLY <2>1, <2>2, Zenon
  <2> QED BY ONLY <2>2, <2>3, Zenon
<1> HIDE DEF b
<1>5. Prefix(b, f[i])
  <2>1. \A x, y \in Nat : x <= x + y /\ \A p \in 1..x : p <= x /\ p \in 1..(x + y)
    OBVIOUS
  <2>2. Len(b) <= Len(f[i])
    BY <1>2, <1>4, <2>1
  <2>3. \A p \in 1..Len(b) : b[p] = f[i][p]
    BY <1>2, <1>4, <2>1
  <2> QED BY <2>2, <2>3 DEF Prefix
<1>6. ASSUME NEW j \in 1..Len(s[i]) PROVE f[i][Len(b) + j] = s[i][j]
  <2>1. \A x, y \in Nat : \A z \in 1..y :
          x + z \in 1..(x + y) /\ ~(x + z <= x) /\ x + z - x = z
    OBVIOUS
  <2>2. /\ Len(b) + j \in 1..(Len(b) + Len(s[i]))
        /\ ~(Len(b) + j <= Len(b)) /\ Len(b) + j - Len(b) = j
    BY <1>2, <1>4, <2>1
  <2> QED BY <1>4, <2>2
<1>7. Joins(f, s, T, i)
  BY <1>3, <1>4, <1>5, <1>6 DEF Joins, b
<1> QED BY <1>7

(* What is joined first stays in front.                                    *)
LEMMA FlatPrefix ==
  ASSUME NEW T, NEW n \in Nat, NEW s, \A i \in 1..n : s[i] \in Seq(T),
         NEW f, IsFlat(f, s, n), NEW i \in 1..n
  PROVE  \A k \in i..n : Prefix(f[i], f[k])
<1> DEFINE A == {k \in i..n : ~Prefix(f[i], f[k])}
<1> SUFFICES ASSUME A # {} PROVE FALSE
  OBVIOUS
<1>1. PICK k \in A : \A j \in A : k <= j
  <2>1. A \subseteq Nat
    OBVIOUS
  <2> HIDE DEF A
  <2> QED BY <2>1, LeastNumber
<1>2. \A j \in 1..n : Joins(f, s, T, j) /\ Len(f[j]) \in Nat
  <2> HIDE DEF A
  <2>1. \A j \in 1..n : Joins(f, s, T, j)
    BY FlatJoins
  <2>2. \A j \in 1..n : f[j] \in Seq(T)
    BY <2>1 DEF Joins
  <2> QED BY <2>1, <2>2, LenProperties
<1>3. k # i
  BY <1>2 DEF Prefix
<1>4. k - 1 \in i..n /\ k - 1 \notin A /\ k # 1 /\ k \in 1..n /\ k - 1 \in 1..n
  BY <1>1, <1>3
<1>5. Prefix(f[i], f[k - 1]) /\ Prefix(f[k - 1], f[k])
  BY <1>2, <1>4 DEF Joins, Before
<1>6. \A x, y, z \in Nat : x <= y /\ y <= z => x <= z /\ \A p \in 1..x : p \in 1..y
  OBVIOUS
<1>7. Prefix(f[i], f[k])
  BY <1>2, <1>4, <1>5, <1>6 DEF Prefix
<1> QED BY <1>7

(* Each part but the last ends with the first dot after its field.         *)
Delimited(s, n) ==
  \A i \in 1..(n - 1) :
    /\ Len(s[i]) >= 3 /\ s[i][Len(s[i])] = Dot
    /\ \A j \in 3..(Len(s[i]) - 1) : s[i][j] # Dot

(* Where one part ends another that begins at the same place cannot go on. *)
LEMMA NoLonger ==
  ASSUME NEW T, NEW n \in Nat, NEW w, NEW i \in 1..(n - 1),
         NEW s, \A k \in 1..n : s[k] \in Seq(T), Delimited(s, n), NEW f, IsFlat(f, s, n),
         NEW t, \A k \in 1..n : t[k] \in Seq(T), Delimited(t, n), NEW g, IsFlat(g, t, n),
         Prefix(f[i], w), Prefix(g[i], w), Before(f, i) = Before(g, i),
         Len(s[i]) < Len(t[i])
  PROVE  FALSE
<1> DEFINE m == Len(Before(f, i))
           x == Len(s[i])
           y == Len(t[i])
<1>1. /\ Joins(f, s, T, i) /\ Joins(g, t, T, i)
      /\ m \in Nat /\ x \in Nat /\ y \in Nat
  <2>1. i \in 1..n
    OBVIOUS
  <2>2. Joins(f, s, T, i) /\ Joins(g, t, T, i)
    BY <2>1, FlatJoins
  <2> QED BY <2>1, <2>2, LenProperties DEF Joins
<1>2. /\ x >= 3 /\ s[i][x] = Dot
      /\ \A j \in 3..(y - 1) : t[i][j] # Dot
  BY DEF Delimited
<1>3. /\ Len(f[i]) = m + x /\ Len(g[i]) = m + y
      /\ \A j \in 1..x : f[i][m + j] = s[i][j]
      /\ \A j \in 1..y : g[i][m + j] = t[i][j]
  BY <1>1 DEF Joins
<1> HIDE DEF m, x, y
<1>4. x < y
  BY DEF x, y
<1>5. /\ m + x \in 1..(m + x) /\ m + x \in 1..(m + y)
      /\ x \in 1..x /\ x \in 1..y /\ x \in 3..(y - 1)
  BY <1>1, <1>2, <1>4
<1>6. w[m + x] = f[i][m + x] /\ w[m + x] = g[i][m + x]
  BY <1>3, <1>5 DEF Prefix
<1>7. f[i][m + x] = Dot /\ g[i][m + x] = t[i][x] /\ t[i][x] # Dot
  BY <1>2, <1>3, <1>5
<1> QED BY <1>6, <1>7

Parts(s, n, T) == \A k \in 1..n : s[k] \in Seq(T)

(* What is joined determines its parts.                                    *)
LEMMA SameParts ==
  ASSUME NEW T, NEW n \in Nat,
         NEW s, Parts(s, n, T), Delimited(s, n), NEW f, IsFlat(f, s, n),
         NEW t, Parts(t, n, T), Delimited(t, n), NEW g, IsFlat(g, t, n),
         f[n] = g[n]
  PROVE  \A i \in 1..n : s[i] = t[i]
<1> USE DEF Parts
<1>1. \A i \in 1..n : /\ Joins(f, s, T, i) /\ Joins(g, t, T, i)
                      /\ Prefix(f[i], f[n]) /\ Prefix(g[i], f[n])
  <2> SUFFICES ASSUME NEW i \in 1..n
               PROVE  /\ Joins(f, s, T, i) /\ Joins(g, t, T, i)
                      /\ Prefix(f[i], f[n]) /\ Prefix(g[i], f[n])
    OBVIOUS
  <2>1. Joins(f, s, T, i) /\ Joins(g, t, T, i)
    BY FlatJoins
  <2>2. n \in i..n
    OBVIOUS
  <2>3. \A k \in i..n : Prefix(f[i], f[k]) /\ Prefix(g[i], g[k])
    BY FlatPrefix
  <2> QED BY <2>1, <2>2, <2>3
<1>2. \A i \in 1..n : f[i] = g[i]
  <2> DEFINE A == {i \in 1..n : f[i] # g[i]}
  <2> SUFFICES ASSUME A # {} PROVE FALSE
    OBVIOUS
  <2>1. PICK i \in A : \A j \in A : i <= j
    <3>1. A \subseteq Nat
      OBVIOUS
    <3> HIDE DEF A
    <3> QED BY <3>1, LeastNumber
  <2>2. i \in 1..(n - 1) /\ i \in 1..n
    <3>1. i # n
      OBVIOUS
    <3> QED BY <3>1
  <2>3. Before(f, i) = Before(g, i)
    <3>1. i # 1 => i - 1 \in 1..n /\ i - 1 \notin A
      BY <2>1
    <3> QED BY <3>1 DEF Before
  <2>4. Prefix(f[i], f[n]) /\ Prefix(g[i], f[n]) /\ Joins(f, s, T, i) /\ Joins(g, t, T, i)
    BY <1>1, <2>2
  <2>5. ~(Len(s[i]) < Len(t[i])) /\ ~(Len(t[i]) < Len(s[i]))
    BY <2>2, <2>3, <2>4, NoLonger
  <2>6. Len(s[i]) = Len(t[i])
    <3>1. Len(s[i]) \in Nat /\ Len(t[i]) \in Nat
      BY <2>2, LenProperties
    <3> QED BY <2>5, <3>1
  <2>7. /\ Len(f[i]) = Len(g[i]) /\ f[i] \in Seq(T) /\ g[i] \in Seq(T)
        /\ \A p \in 1..Len(f[i]) : f[i][p] = g[i][p]
    BY <2>3, <2>4, <2>6 DEF Joins, Prefix
  <2>8. f[i] = g[i]
    BY <2>7, SeqEqual
  <2> QED BY <2>8
<1> SUFFICES ASSUME NEW i \in 1..n PROVE s[i] = t[i]
  OBVIOUS
<1>3. Before(f, i) = Before(g, i) /\ f[i] = g[i]
  <2>1. i # 1 => i - 1 \in 1..n
    OBVIOUS
  <2> QED BY <1>2, <2>1 DEF Before
<1> DEFINE m == Len(Before(f, i))
<1>4. /\ m \in Nat /\ Len(s[i]) \in Nat /\ Len(t[i]) \in Nat
      /\ Len(f[i]) = m + Len(s[i]) /\ Len(f[i]) = m + Len(t[i])
      /\ \A j \in 1..Len(s[i]) : f[i][m + j] = s[i][j]
      /\ \A j \in 1..Len(t[i]) : f[i][m + j] = t[i][j]
  BY <1>1, <1>3, LenProperties DEF Joins
<1> HIDE DEF m
<1>5. \A x, y, z \in Nat : x + y = x + z => y = z
  OBVIOUS
<1>6. Len(s[i]) = Len(t[i])
  BY <1>4, <1>5
<1> QED BY <1>4, <1>6, SeqEqual

-----------------------------------------------------------------------------
(* Cache keys.                                                             *)

(* Keys have one field, or no value has a dot in lower case.               *)
Plain ==
  \/ \A k \in PrimaryKeys : Len(k) = 1
  \/ \A v \in Value : \A i \in DOMAIN v : LowerCase[v[i]] # Dot

RowType == [KeyField -> Value]

Size == Len(primaryKey)

(* The key values of a row, as its table's key has them.                   *)
KeyOf(r) == KeyValuesOf(r, primaryKey)

Fragments(kv) ==
  [i \in DOMAIN kv |->
    <<LowerCase[kv[i].field], Dot>> \o Lower(kv[i].value)
      \o (IF i = Len(kv) THEN <<>> ELSE <<Dot>>)]

(* The key has fields, each at a place of its own or more.                 *)
LEMMA PrimaryKeyFacts ==
  ASSUME primaryKey \in PrimaryKeys
  PROVE  /\ Size \in Nat /\ Size >= 1 /\ DOMAIN primaryKey = 1..Size
         /\ \A i \in 1..Size : primaryKey[i] \in KeyField /\ primaryKey[i] \in Token
         /\ \A f \in KeyField : \E i \in 1..Size : f = primaryKey[i]
<1>1. primaryKey \in Seq(Token) /\ primaryKey # <<>>
  BY KeyAssumption
<1>2. Size \in Nat /\ DOMAIN primaryKey = 1..Size /\ Size # 0
  BY <1>1, LenProperties, EmptySeq DEF Size
<1>3. \A i \in 1..Size : primaryKey[i] \in Token
  BY <1>1, ElementOfSeq DEF Size
<1> QED BY <1>2, <1>3 DEF KeyField, ToSet

(* The key values of a row, field by field.                                *)
LEMMA KeyOfFacts ==
  ASSUME primaryKey \in PrimaryKeys, NEW r \in RowType
  PROVE  /\ DOMAIN KeyOf(r) = 1..Size /\ Len(KeyOf(r)) = Size
         /\ \A i \in 1..Size : /\ KeyOf(r)[i].field = primaryKey[i]
                               /\ KeyOf(r)[i].value = r[primaryKey[i]]
                               /\ r[primaryKey[i]] \in Value
<1>1. Size \in Nat /\ DOMAIN primaryKey = 1..Size
      /\ \A i \in 1..Size : primaryKey[i] \in KeyField
  BY PrimaryKeyFacts
<1>2. KeyOf(r) = [i \in 1..Size |-> [field |-> primaryKey[i], value |-> r[primaryKey[i]]]]
  BY <1>1 DEF KeyOf, KeyValuesOf
<1> QED BY <1>1, <1>2 DEF RowType

(* A value in lower case keeps its length.                                 *)
LEMMA LowerFacts ==
  ASSUME NEW v \in Value
  PROVE  /\ Lower(v) \in Seq(Token) /\ Len(Lower(v)) = Len(v) /\ Len(v) \in Nat
         /\ \A j \in 1..Len(v) : Lower(v)[j] = LowerCase[v[j]] /\ j \in DOMAIN v
<1>1. v \in Seq(Token) /\ LowerCase \in [Token -> Token]
  BY KeyAssumption
<1>2. DOMAIN v = 1..Len(v) /\ Len(v) \in Nat
  BY <1>1, LenProperties
<1>3. \A j \in 1..Len(v) : v[j] \in Token
  BY <1>1, ElementOfSeq
<1>4. Lower(v) = [j \in 1..Len(v) |-> LowerCase[v[j]]]
  BY <1>2 DEF Lower
<1>5. \A j \in 1..Len(v) : LowerCase[v[j]] \in Token
  BY <1>1, <1>3
<1> QED BY <1>2, <1>4, <1>5

(* A part is the field, a dot, the value, and a dot unless it is the last. *)
LEMMA FragmentFacts ==
  ASSUME primaryKey \in PrimaryKeys, NEW r \in RowType, NEW i \in 1..Size
  PROVE  LET x == Fragments(KeyOf(r))[i]
             v == r[primaryKey[i]]
         IN  /\ x \in Seq(Token) /\ v \in Value
             /\ Len(x) = 2 + Len(v) + (IF i = Size THEN 0 ELSE 1)
             /\ \A j \in 1..Len(v) : x[2 + j] = LowerCase[v[j]]
             /\ i # Size => x[Len(x)] = Dot
<1> DEFINE x == Fragments(KeyOf(r))[i]
           v == r[primaryKey[i]]
           a == <<LowerCase[primaryKey[i]], Dot>>
           b == Lower(v)
           c == IF i = Size THEN <<>> ELSE <<Dot>>
<1>1. v \in Value /\ x = (a \o b) \o c
  BY KeyOfFacts DEF Fragments
<1>2. a \in Seq(Token) /\ Len(a) = 2
  <2>1. Dot \in Token /\ LowerCase[primaryKey[i]] \in Token
    BY PrimaryKeyFacts, KeyAssumption
  <2> QED BY <2>1
<1>3. /\ b \in Seq(Token) /\ Len(b) = Len(v) /\ Len(v) \in Nat
      /\ \A j \in 1..Len(v) : b[j] = LowerCase[v[j]]
  BY <1>1, LowerFacts
<1>4. /\ c \in Seq(Token) /\ Len(c) = (IF i = Size THEN 0 ELSE 1)
      /\ i # Size => c[1] = Dot
  <2>1. Dot \in Token
    BY KeyAssumption
  <2> QED BY <2>1
<1> HIDE DEF x, v, a, b, c
<1>4a. \A q \in Seq(Token) : \A t \in Seq(Token) :
        /\ q \o t \in Seq(Token) /\ Len(q \o t) = Len(q) + Len(t)
        /\ \A p \in 1..Len(q) : (q \o t)[p] = q[p]
        /\ \A p \in 1..Len(t) : (q \o t)[Len(q) + p] = t[p]
  BY Joined
<1>5. /\ a \o b \in Seq(Token) /\ Len(a \o b) = 2 + Len(v)
      /\ \A j \in 1..Len(v) : (a \o b)[2 + j] = LowerCase[v[j]]
  <2>1. /\ a \o b \in Seq(Token) /\ Len(a \o b) = Len(a) + Len(b)
        /\ \A p \in 1..Len(b) : (a \o b)[Len(a) + p] = b[p]
    BY <1>2, <1>3, <1>4a
  <2> QED BY <1>2, <1>3, <2>1
<1>6. /\ x \in Seq(Token) /\ Len(x) = 2 + Len(v) + Len(c)
      /\ \A p \in 1..(2 + Len(v)) : x[p] = (a \o b)[p]
      /\ \A p \in 1..Len(c) : x[2 + Len(v) + p] = c[p]
  <2>1. /\ (a \o b) \o c \in Seq(Token) /\ Len((a \o b) \o c) = Len(a \o b) + Len(c)
        /\ \A p \in 1..Len(a \o b) : ((a \o b) \o c)[p] = (a \o b)[p]
        /\ \A p \in 1..Len(c) : ((a \o b) \o c)[Len(a \o b) + p] = c[p]
    BY <1>4, <1>5, <1>4a
  <2> QED BY <1>1, <1>5, <2>1
<1>7. ASSUME NEW j \in 1..Len(v) PROVE x[2 + j] = LowerCase[v[j]]
  <2>1. \A m \in Nat : \A k \in 1..m : 2 + k \in 1..(2 + m)
    OBVIOUS
  <2>2. 2 + j \in 1..(2 + Len(v))
    BY <1>3, <2>1
  <2> QED BY <1>5, <1>6, <2>2
<1>8. ASSUME i # Size PROVE x[Len(x)] = Dot
  <2>1. Len(c) = 1 /\ c[1] = Dot
    BY <1>4, <1>8
  <2>2. Len(x) = 2 + Len(v) + 1 /\ 1 \in 1..1
    BY <1>6, <2>1
  <2>3. x[2 + Len(v) + 1] = c[1]
    BY <1>6, <2>1, <2>2
  <2> QED BY <2>1, <2>2, <2>3
<1>9. Len(x) = 2 + Len(v) + (IF i = Size THEN 0 ELSE 1)
  BY <1>4, <1>6
<1> QED BY <1>1, <1>6, <1>7, <1>8, <1>9 DEF x, v

(* What makeCacheKey joins has one part for each field of the key.         *)
LEMMA CacheKeyIsFlat ==
  ASSUME primaryKey \in PrimaryKeys, NEW r \in RowType
  PROVE  /\ \A i \in 1..Size : Fragments(KeyOf(r))[i] \in Seq(Token)
         /\ \E f : /\ IsFlat(f, Fragments(KeyOf(r)), Size)
                   /\ MakeCacheKey(KeyOf(r)) = f[Size]
<1> DEFINE s == Fragments(KeyOf(r))
<1>1. Size \in Nat /\ Size # 0
  BY PrimaryKeyFacts
<1>2. DOMAIN s = 1..Size /\ \A i \in 1..Size : s[i] \in Seq(Token)
  <2>1. DOMAIN s = 1..Size
    BY KeyOfFacts DEF Fragments
  <2> QED BY <2>1, FragmentFacts
<1>3. MakeCacheKey(KeyOf(r)) = FlattenSeq(s)
  BY DEF MakeCacheKey, Fragments
<1>4. Len(s) = Size
  BY <1>1, <1>2, KeyOfFacts DEF Fragments
<1> HIDE DEF s
<1> QED BY <1>1, <1>2, <1>3, <1>4, FlattenIsFlat DEF s

(* No part has a dot before the one that ends it, but for the field's own. *)
LEMMA FragmentsDelimited ==
  ASSUME primaryKey \in PrimaryKeys, Plain, NEW r \in RowType
  PROVE  Delimited(Fragments(KeyOf(r)), Size)
<1> DEFINE s == Fragments(KeyOf(r))
<1> SUFFICES ASSUME NEW i \in 1..(Size - 1)
             PROVE  /\ Len(s[i]) >= 3 /\ s[i][Len(s[i])] = Dot
                    /\ \A j \in 3..(Len(s[i]) - 1) : s[i][j] # Dot
  BY DEF Delimited
<1> DEFINE v == r[primaryKey[i]]
<1>1. i \in 1..Size /\ i # Size /\ Size # 1
  BY PrimaryKeyFacts
<1>2. /\ v \in Value
      /\ Len(s[i]) = 2 + Len(v) + 1
      /\ \A j \in 1..Len(v) : s[i][2 + j] = LowerCase[v[j]]
      /\ s[i][Len(s[i])] = Dot
  BY <1>1, FragmentFacts
<1>3. Len(v) \in Nat /\ \A j \in 1..Len(v) : LowerCase[v[j]] # Dot
  BY <1>1, <1>2, LowerFacts DEF Plain, Size
<1> HIDE DEF s, v
<1>4. \A m \in Nat : /\ 2 + m + 1 >= 3
                     /\ \A j \in 3..(2 + m + 1 - 1) : j - 2 \in 1..m /\ 2 + (j - 2) = j
  OBVIOUS
<1>5. Len(s[i]) >= 3
  BY <1>2, <1>3, <1>4
<1>6. ASSUME NEW j \in 3..(Len(s[i]) - 1) PROVE s[i][j] # Dot
  <2>1. j - 2 \in 1..Len(v) /\ 2 + (j - 2) = j
    BY <1>2, <1>3, <1>4
  <2>2. s[i][2 + (j - 2)] = LowerCase[v[j - 2]]
    BY <1>2, <2>1
  <2> QED BY <1>3, <2>1, <2>2
<1> QED BY <1>2, <1>5, <1>6

(* Two rows have the same cache key only when their key values are the     *)
(* same but for case.                                                      *)
LEMMA KeysTell ==
  ASSUME primaryKey \in PrimaryKeys, Plain, NEW r \in RowType, NEW q \in RowType,
         MakeCacheKey(KeyOf(r)) = MakeCacheKey(KeyOf(q))
  PROVE  \A f \in KeyField : Lower(r[f]) = Lower(q[f])
<1> DEFINE s == Fragments(KeyOf(r))
           t == Fragments(KeyOf(q))
<1>1. /\ \A k \in 1..Size : s[k] \in Seq(Token) /\ t[k] \in Seq(Token)
      /\ \E f : IsFlat(f, s, Size) /\ MakeCacheKey(KeyOf(r)) = f[Size]
      /\ \E g : IsFlat(g, t, Size) /\ MakeCacheKey(KeyOf(q)) = g[Size]
  BY CacheKeyIsFlat
<1>2. Delimited(s, Size) /\ Delimited(t, Size) /\ Size \in Nat
  BY FragmentsDelimited, PrimaryKeyFacts
<1>3. \A i \in 1..Size : s[i] = t[i]
  <2> HIDE DEF s, t
  <2>1. PICK f : IsFlat(f, s, Size) /\ MakeCacheKey(KeyOf(r)) = f[Size]
    BY <1>1
  <2>2. PICK g : IsFlat(g, t, Size) /\ MakeCacheKey(KeyOf(q)) = g[Size]
    BY <1>1
  <2>3. f[Size] = g[Size]
    BY <2>1, <2>2
  <2>4. IsFlat(f, s, Size) /\ IsFlat(g, t, Size)
    BY <2>1, <2>2
  <2>5. Parts(s, Size, Token) /\ Parts(t, Size, Token)
    BY <1>1 DEF Parts
  <2> QED BY <1>2, <2>3, <2>4, <2>5, SameParts
<1> SUFFICES ASSUME NEW f \in KeyField PROVE Lower(r[f]) = Lower(q[f])
  OBVIOUS
<1>4. PICK i \in 1..Size : f = primaryKey[i]
  BY PrimaryKeyFacts
<1> DEFINE v == r[f]
           w == q[f]
<1>5. /\ v \in Value /\ w \in Value
      /\ Len(s[i]) = 2 + Len(v) + (IF i = Size THEN 0 ELSE 1)
      /\ Len(t[i]) = 2 + Len(w) + (IF i = Size THEN 0 ELSE 1)
      /\ \A j \in 1..Len(v) : s[i][2 + j] = LowerCase[v[j]]
      /\ \A j \in 1..Len(w) : t[i][2 + j] = LowerCase[w[j]]
  BY <1>4, FragmentFacts
<1>6. /\ Len(v) \in Nat /\ Len(w) \in Nat
      /\ Lower(v) \in Seq(Token) /\ Len(Lower(v)) = Len(v)
      /\ Lower(w) \in Seq(Token) /\ Len(Lower(w)) = Len(w)
      /\ \A j \in 1..Len(v) : Lower(v)[j] = LowerCase[v[j]]
      /\ \A j \in 1..Len(w) : Lower(w)[j] = LowerCase[w[j]]
  BY <1>5, LowerFacts
<1>7. s[i] = t[i]
  BY <1>3
<1> HIDE DEF s, t, v, w
<1>8. Len(v) = Len(w)
  <2>1. \A m, n \in Nat, d \in {0, 1} : 2 + m + d = 2 + n + d => m = n
    OBVIOUS
  <2> QED BY <1>5, <1>6, <1>7, <2>1
<1>9. \A j \in 1..Len(v) : Lower(v)[j] = Lower(w)[j]
  BY <1>5, <1>6, <1>7, <1>8
<1>10. Lower(v) = Lower(w)
  BY <1>6, <1>8, <1>9, SeqEqual
<1> QED BY <1>10 DEF v, w

(* Key values that are the same but for case make the same cache key.      *)
LEMMA KeysAgree ==
  ASSUME primaryKey \in PrimaryKeys, NEW r \in RowType, NEW q \in RowType,
         \A f \in KeyField : Lower(r[f]) = Lower(q[f])
  PROVE  MakeCacheKey(KeyOf(r)) = MakeCacheKey(KeyOf(q))
<1>1. /\ DOMAIN KeyOf(r) = 1..Size /\ DOMAIN KeyOf(q) = 1..Size
      /\ Len(KeyOf(r)) = Size /\ Len(KeyOf(q)) = Size
  BY KeyOfFacts
<1>2. \A i \in 1..Size : /\ KeyOf(r)[i].field = KeyOf(q)[i].field
                         /\ Lower(KeyOf(r)[i].value) = Lower(KeyOf(q)[i].value)
  BY KeyOfFacts, PrimaryKeyFacts
<1>3. Fragments(KeyOf(r)) = Fragments(KeyOf(q))
  BY <1>1, <1>2 DEF Fragments
<1> QED BY <1>3 DEF MakeCacheKey, Fragments

-----------------------------------------------------------------------------
(* The operations.                                                         *)

KeyTypes == primaryKey \in PrimaryKeys /\ rows \subseteq RowType

(* With AnyOrder FALSE, key values are those of a row, in the key's order. *)
LEMMA KeyValuesFacts ==
  ASSUME ~AnyOrder, NEW kv \in KeyValues
  PROVE  \E r \in RowType : kv = KeyOf(r)
BY DEF KeyValues, Orders, RowType, KeyOf

(* As a collation compares, so the cache key does at most.                 *)
LEMMA SameValueFacts ==
  ASSUME NEW v, NEW w
  PROVE  /\ SameValue(v, v)
         /\ SameValue(v, w) => SameValue(w, v) /\ Lower(v) = Lower(w)
         /\ IgnoresCase /\ Lower(v) = Lower(w) => SameValue(v, w)
BY DEF SameValue

(* No value is one of the marks for what is not a string.                  *)
LEMMA NullIsNoValue == Null \notin Value
<1> SUFFICES ASSUME Null \in Value PROVE FALSE
  OBVIOUS
<1>1. Null \in Seq(Token) /\ "null" \notin Token
  BY KeyAssumption
<1>2. Len(Null) = 1 /\ Null[1] = "null"
  BY DEF Null
<1> QED BY <1>1, <1>2, ElementOfSeq

(* The clause of a row's key values selects the rows that agree with it.   *)
LEMMA ClauseFacts ==
  ASSUME primaryKey \in PrimaryKeys, NEW r \in RowType, NEW q
  PROVE  KeyClause(KeyOf(r), q) <=> \A f \in KeyField : SameValue(q[f], r[f])
<1>1. /\ DOMAIN KeyOf(r) = 1..Size
      /\ \A i \in 1..Size : /\ KeyOf(r)[i].field = primaryKey[i]
                            /\ KeyOf(r)[i].value = r[primaryKey[i]]
                            /\ KeyOf(r)[i].value # Null
  BY KeyOfFacts, NullIsNoValue
<1>2. /\ \A i \in 1..Size : primaryKey[i] \in KeyField
      /\ \A f \in KeyField : \E i \in 1..Size : f = primaryKey[i]
  BY PrimaryKeyFacts
<1>3. KeyClause(KeyOf(r), q) <=> \A i \in 1..Size : SameValue(q[primaryKey[i]], r[primaryKey[i]])
  BY <1>1 DEF KeyClause
<1> QED BY <1>2, <1>3

(* A row that a clause selects has the cache key of the clause.            *)
LEMMA SelectedKey ==
  ASSUME primaryKey \in PrimaryKeys, NEW r \in RowType, NEW q \in RowType, KeyClause(KeyOf(r), q)
  PROVE  MakeCacheKey(KeyOf(q)) = MakeCacheKey(KeyOf(r))
<1>1. \A f \in KeyField : Lower(q[f]) = Lower(r[f])
  BY ClauseFacts, SameValueFacts
<1> QED BY <1>1, KeysAgree

(* What insert makes of the data and the insertId is the key of the row.   *)
LEMMA InsertKey ==
  ASSUME primaryKey \in PrimaryKeys, NEW data \in KeyData, NEW r \in RowType,
         RowOf(data, r), ~Underivable(data), ~GivesNull(data)
  PROVE  KeyValuesFromInsert(data, InsertId(data, r)) = KeyOf(r)
<1>1. /\ Size \in Nat /\ Size >= 1 /\ DOMAIN primaryKey = 1..Size
      /\ \A i \in 1..Size : primaryKey[i] \in KeyField
  BY PrimaryKeyFacts
<1>2. ASSUME NEW i \in 1..Size
      PROVE  (IF data[primaryKey[i]] = Absent THEN InsertId(data, r) ELSE data[primaryKey[i]])
               = r[primaryKey[i]]
  <2> DEFINE f == primaryKey[i]
  <2>1. /\ f \in KeyField /\ data[f] \in Value \cup {Absent, SqlExpression}
        /\ data[f] # SqlExpression
    BY <1>1 DEF KeyData, Underivable, GivesNull
  <2>2. CASE data[f] = Absent
    <3>1. ~(Size > 1)
      BY <2>1, <2>2 DEF Underivable, Size
    <3>2. i = 1
      BY <1>1, <3>1
    <3> QED BY <2>2, <3>2 DEF InsertId
  <2>3. CASE data[f] # Absent
    BY <2>1, <2>3 DEF RowOf
  <2> QED BY <2>2, <2>3
<1> QED BY <1>1, <1>2 DEF KeyValuesFromInsert, KeyOf, KeyValuesOf

(* A field given as null stays null, and then no row is selected.          *)
LEMMA NullSelectsNone ==
  ASSUME primaryKey \in PrimaryKeys, NEW data, GivesNull(data), NEW id, NEW R
  PROVE  Selected(KeyValuesFromInsert(data, id), R) = {}
<1> DEFINE kv == KeyValuesFromInsert(data, id)
<1>1. PICK i \in DOMAIN primaryKey : data[primaryKey[i]] = Null
  BY PrimaryKeyFacts DEF GivesNull
<1>2. Null # Absent
  <2>1. Null[1] = "null" /\ Absent[1] = "absent"
    BY DEF Null, Absent
  <2> QED BY <2>1
<1>3. DOMAIN kv = DOMAIN primaryKey /\ kv[i].value = Null
  BY <1>1, <1>2 DEF KeyValuesFromInsert
<1> HIDE DEF kv
<1>4. \A r : ~KeyClause(kv, r)
  BY <1>1, <1>3 DEF KeyClause
<1> QED BY <1>4 DEF Selected, kv

(* What is under a key after an entry is put or removed.                   *)
LEMMA PutFacts ==
  ASSUME NEW kv, NEW entry
  PROVE  \A k \in DOMAIN Put(kv, entry) :
           \/ k = MakeCacheKey(kv) /\ Put(kv, entry)[k] = entry
           \/ k # MakeCacheKey(kv) /\ k \in DOMAIN cache /\ Put(kv, entry)[k] = cache[k]
BY DEF Put

LEMMA WithoutFacts ==
  ASSUME NEW key
  PROVE  \A k \in DOMAIN Without(key) :
           k # key /\ k \in DOMAIN cache /\ Without(key)[k] = cache[k]
BY DEF Without, Restrict

(* An insert that is not rejected loads the row whose clause is its own,   *)
(* or none when a field of the key is null.                                *)
LEMMA InsertFacts ==
  ASSUME KeyTypes, NEW data \in KeyData, NEW r \in RowType, Insert(data, r)
  PROVE  /\ primaryKey' = primaryKey
         /\ \E got : /\ last' = [op |-> "insert", kv |-> KeyOf(r), got |-> got,
                                 null |-> GivesNull(data)]
                     /\ \/ /\ got = Rejected \/ (got = None /\ GivesNull(data))
                           /\ rows \subseteq rows' /\ rows' \subseteq RowType /\ cache' = cache
                        \/ /\ got = Record(r) /\ ~GivesNull(data)
                           /\ rows' = rows \cup {r} /\ cache' = Put(KeyOf(r), Record(r))
<1> DEFINE kv == KeyValuesFromInsert(data, InsertId(data, r))
           R == rows \cup {r}
           InsertDone(got) == DoneWith("insert", KeyOf(r), got, GivesNull(data))
<1>1. RowOf(data, r) /\ primaryKey \in PrimaryKeys /\ R \subseteq RowType
  BY DEF Insert, KeyTypes
<1>2. \/ InsertDone(Rejected) /\ UNCHANGED <<rows, cache>>
      \/ /\ ~Duplicate(r) /\ rows' = R
         /\ IF Underivable(data) THEN InsertDone(Rejected) /\ UNCHANGED cache
            ELSE IF Selected(kv, R) = {} THEN InsertDone(None) /\ UNCHANGED cache
            ELSE \E s \in Selected(kv, R) : InsertDone(Record(s)) /\ cache' = Put(kv, Record(s))
  BY DEF Insert, KeyOf
<1>3. \A got : InsertDone(got) =>
              /\ primaryKey' = primaryKey
              /\ last' = [op |-> "insert", kv |-> KeyOf(r), got |-> got, null |-> GivesNull(data)]
  BY DEF DoneWith
<1> HIDE DEF InsertDone
<1>4. CASE InsertDone(Rejected) /\ cache' = cache /\ rows' \in {rows, R}
  BY <1>1, <1>3, <1>4 DEF KeyTypes
<1>5. CASE ~Duplicate(r) /\ rows' = R /\ ~Underivable(data) /\ GivesNull(data)
  <2>1. Selected(kv, R) = {}
    BY <1>1, <1>5, NullSelectsNone
  <2> HIDE DEF kv
  <2>2. \/ InsertDone(None) /\ UNCHANGED cache
        \/ InsertDone(Rejected) /\ UNCHANGED <<rows, cache>>
    BY <1>2, <1>5, <2>1
  <2> QED BY <1>1, <1>3, <1>4, <1>5, <2>2
<1>6. CASE ~Duplicate(r) /\ rows' = R /\ ~Underivable(data) /\ ~GivesNull(data)
  <2>1. kv = KeyOf(r)
    BY <1>1, <1>6, InsertKey
  <2> HIDE DEF kv
  <2>2. r \in Selected(KeyOf(r), R)
    BY <1>1, ClauseFacts, SameValueFacts DEF Selected
  <2>3. ASSUME NEW s \in Selected(KeyOf(r), R) PROVE s = r
    <3>1. s \in R /\ \A f \in KeyField : SameValue(s[f], r[f])
      BY <1>1, <2>3, ClauseFacts DEF Selected
    <3>2. \A f \in KeyField : SameValue(r[f], s[f])
      BY <3>1, SameValueFacts
    <3> QED BY <1>6, <3>1, <3>2 DEF Duplicate
  <2>4. \/ InsertDone(Rejected) /\ UNCHANGED <<rows, cache>>
        \/ InsertDone(Record(r)) /\ cache' = Put(KeyOf(r), Record(r))
    BY <1>2, <1>6, <2>1, <2>2, <2>3
  <2>5. CASE InsertDone(Record(r)) /\ cache' = Put(KeyOf(r), Record(r))
    BY <1>3, <1>6, <2>5
  <2> QED BY <1>4, <2>4, <2>5
<1> QED BY <1>2, <1>4, <1>5, <1>6

(* No operation changes primaryKey or makes other rows.                    *)
LEMMA TypesInit == Init => KeyTypes
BY DEF Init, KeyTypes

LEMMA TypesNext == KeyTypes /\ [Next]_kvars => KeyTypes'
<1> SUFFICES ASSUME KeyTypes, [Next]_kvars PROVE KeyTypes'
  OBVIOUS
<1>1. ASSUME primaryKey' = primaryKey, rows' \subseteq RowType PROVE KeyTypes'
  BY <1>1 DEF KeyTypes, RowType, KeyField
<1>2. ASSUME NEW kv \in KeyValues, Load(kv) \/ IsInCache(kv) PROVE KeyTypes'
  <2>1. primaryKey' = primaryKey /\ rows' = rows
    BY <1>2 DEF Load, IsInCache, Done, DoneWith
  <2> QED BY <1>1, <2>1 DEF KeyTypes
<1>3. ASSUME NEW kv \in KeyValues, NEW mark \in BOOLEAN, Delete(kv, mark) PROVE KeyTypes'
  <2>1. primaryKey' = primaryKey /\ rows' \subseteq rows
    BY <1>3 DEF Delete, Done, DoneWith
  <2> QED BY <1>1, <2>1 DEF KeyTypes
<1>4. ASSUME NEW data \in KeyData, NEW r \in RowType, Insert(data, r) PROVE KeyTypes'
  <2>1. primaryKey' = primaryKey /\ (rows' \subseteq RowType \/ rows' = rows \cup {r})
    BY <1>4, InsertFacts
  <2> QED BY <1>1, <2>1 DEF KeyTypes
<1>5. ASSUME NEW k \in DOMAIN cache, Expire(k) PROVE KeyTypes'
  BY <1>1, <1>5 DEF Expire, KeyTypes
<1>6. CASE UNCHANGED kvars
  BY <1>1, <1>6 DEF kvars, KeyTypes
<1> QED BY <1>2, <1>3, <1>4, <1>5, <1>6 DEF Next, Quiet, RowType

(* KeyTypeInvariance: primaryKey stays what the class declares, and the    *)
(* table's rows have a value for each field of it.                         *)
THEOREM KeyTypeInvariance == Spec => []KeyTypes
BY TypesInit, TypesNext, PTL DEF Spec

-----------------------------------------------------------------------------
(* What is under a cache key.                                              *)

(* Each record in the cache is that of a row, under the row's cache key.   *)
Filed ==
  \A key \in DOMAIN cache : cache[key].is = "record" =>
    /\ cache[key].row \in rows
    /\ MakeCacheKey(KeyOf(cache[key].row)) = key

(* What an operation gives back is of one kind.                            *)
LEMMA EntryKinds ==
  /\ None.is # "record" /\ Deleted.is # "record" /\ Rejected.is # "record"
  /\ None # Rejected /\ \A r : Record(r).is = "record" /\ Record(r).row = r
  /\ \A r : Record(r) # Rejected
BY DEF None, Deleted, Rejected, Record

(* Putting the record of a row under its key keeps the cache filed.        *)
LEMMA FiledPut ==
  ASSUME Filed, KeyTypes, UNCHANGED primaryKey, rows \subseteq rows', NEW kv, NEW r \in rows',
         MakeCacheKey(KeyOf(r)) = MakeCacheKey(kv), cache' = Put(kv, Record(r))
  PROVE  Filed'
<1>1. \A q : MakeCacheKey(KeyOf(q))' = MakeCacheKey(KeyOf(q))
  BY DEF MakeCacheKey, KeyOf, KeyValuesOf
<1> SUFFICES ASSUME NEW key \in DOMAIN cache', cache'[key].is = "record"
             PROVE  cache'[key].row \in rows' /\ MakeCacheKey(KeyOf(cache'[key].row)) = key
  BY <1>1 DEF Filed
<1>2. \/ key = MakeCacheKey(kv) /\ cache'[key] = Record(r)
      \/ key \in DOMAIN cache /\ cache'[key] = cache[key]
  BY PutFacts
<1>3. CASE key = MakeCacheKey(kv) /\ cache'[key] = Record(r)
  BY <1>3, EntryKinds
<1>4. CASE key \in DOMAIN cache /\ cache'[key] = cache[key]
  BY <1>4 DEF Filed
<1> QED BY <1>2, <1>3, <1>4

(* The cache stays filed where no entry is added and no row goes.          *)
LEMMA FiledSame ==
  ASSUME Filed, UNCHANGED primaryKey, rows \subseteq rows',
         \A key \in DOMAIN cache' : cache'[key].is = "record" =>
           key \in DOMAIN cache /\ cache'[key] = cache[key]
  PROVE  Filed'
<1>1. \A q : MakeCacheKey(KeyOf(q))' = MakeCacheKey(KeyOf(q))
  BY DEF MakeCacheKey, KeyOf, KeyValuesOf
<1> QED BY <1>1 DEF Filed

(* delete: the rows that go had the cache key whose entry is replaced or   *)
(* removed.                                                                *)
LEMMA FiledDelete ==
  ASSUME Filed, KeyTypes, NEW r \in RowType, NEW mark \in BOOLEAN, Delete(KeyOf(r), mark)
  PROVE  Filed'
<1>1. \A q : MakeCacheKey(KeyOf(q))' = MakeCacheKey(KeyOf(q))
  BY DEF Delete, Done, DoneWith, MakeCacheKey, KeyOf, KeyValuesOf
<1> SUFFICES ASSUME NEW key \in DOMAIN cache', cache'[key].is = "record"
             PROVE  cache'[key].row \in rows' /\ MakeCacheKey(KeyOf(cache'[key].row)) = key
  BY <1>1 DEF Filed
<1>2. key # MakeCacheKey(KeyOf(r)) /\ key \in DOMAIN cache /\ cache'[key] = cache[key]
  <2>1. CASE mark
    <3>1. cache' = Put(KeyOf(r), Deleted)
      BY <2>1 DEF Delete
    <3> QED BY <3>1, PutFacts, EntryKinds
  <2>2. CASE ~mark
    <3>1. cache' = Without(MakeCacheKey(KeyOf(r)))
      BY <2>2 DEF Delete
    <3> QED BY <3>1, WithoutFacts
  <2> QED BY <2>1, <2>2
<1> DEFINE q == cache[key].row
<1>3. q \in rows /\ MakeCacheKey(KeyOf(q)) = key
  BY <1>2 DEF Filed
<1>4. ~KeyClause(KeyOf(r), q)
  BY <1>2, <1>3, SelectedKey DEF KeyTypes
<1>5. q \in rows'
  BY <1>3, <1>4 DEF Delete, Selected
<1> QED BY <1>2, <1>3, <1>5

(* Each operation keeps the cache filed.                                   *)
LEMMA FiledInit == Init => Filed
BY DEF Init, Filed

LEMMA FiledNext ==
  ASSUME ~AnyOrder
  PROVE  KeyTypes /\ Filed /\ [Next]_kvars => Filed'
<1> SUFFICES ASSUME KeyTypes, Filed, [Next]_kvars PROVE Filed'
  OBVIOUS
<1>1. ASSUME NEW kv \in KeyValues, Load(kv) PROVE Filed'
  <2>1. PICK r \in RowType : kv = KeyOf(r)
    BY KeyValuesFacts
  <2>2. primaryKey' = primaryKey /\ rows' = rows
    BY <1>1 DEF Load, Done, DoneWith
  <2>3. CASE cache' = cache
    BY <2>2, <2>3, FiledSame
  <2>4. CASE cache' # cache
    <3>1. PICK s \in Selected(kv, rows) : cache' = Put(kv, Record(s))
      BY <1>1, <2>4 DEF Load
    <3>2. s \in rows /\ KeyClause(KeyOf(r), s)
      BY <2>1 DEF Selected
    <3>3. MakeCacheKey(KeyOf(s)) = MakeCacheKey(kv)
      BY <2>1, <3>2, SelectedKey DEF KeyTypes
    <3> QED BY <2>2, <3>1, <3>2, <3>3, FiledPut
  <2> QED BY <2>3, <2>4
<1>2. ASSUME NEW kv \in KeyValues, IsInCache(kv) PROVE Filed'
  BY <1>2, FiledSame DEF IsInCache, Done, DoneWith
<1>3. ASSUME NEW kv \in KeyValues, NEW mark \in BOOLEAN, Delete(kv, mark) PROVE Filed'
  BY <1>3, KeyValuesFacts, FiledDelete
<1>4. ASSUME NEW data \in KeyData, NEW r \in RowType, Insert(data, r) PROVE Filed'
  <2>1. CASE cache' = cache /\ rows \subseteq rows'
    BY <1>4, <2>1, InsertFacts, FiledSame
  <2>2. CASE rows' = rows \cup {r} /\ cache' = Put(KeyOf(r), Record(r))
    BY <1>4, <2>2, InsertFacts, FiledPut
  <2> QED BY <1>4, <2>1, <2>2, InsertFacts
<1>5. ASSUME NEW k \in DOMAIN cache, Expire(k) PROVE Filed'
  BY <1>5, WithoutFacts, FiledSame DEF Expire
<1>6. CASE UNCHANGED kvars
  BY <1>6, FiledSame DEF kvars
<1> QED BY <1>1, <1>2, <1>3, <1>4, <1>5, <1>6 DEF Next, Quiet, RowType

(* RowsOfTheCache: where callers give key values in the key's order, every *)
(* record in the cache is that of a row of the table, so delete leaves no  *)
(* entry behind, whatever the case of the values it was given.             *)
THEOREM RowsOfTheCache ==
  ASSUME ~AnyOrder
  PROVE  Spec => []CachedRowsExist
<1>1. KeyTypes /\ Filed /\ [Next]_kvars => Filed'
  BY FiledNext
<1>2. Filed => CachedRowsExist
  BY DEF Filed, CachedRowsExist
<1> QED BY <1>1, <1>2, TypesInit, TypesNext, FiledInit, PTL DEF Spec

(* What an entry holds is a row that the key values select.                *)
LEMMA EntrySelected ==
  ASSUME IgnoresCase, Plain, KeyTypes, Filed, NEW r \in RowType, Entry(KeyOf(r)).is = "record"
  PROVE  KeyClause(KeyOf(r), Entry(KeyOf(r)).row)
<1> DEFINE key == MakeCacheKey(KeyOf(r))
           q == cache[key].row
<1>1. key \in DOMAIN cache /\ Entry(KeyOf(r)) = cache[key] /\ cache[key].is = "record"
  BY EntryKinds DEF Entry
<1>2. q \in RowType /\ MakeCacheKey(KeyOf(q)) = key
  BY <1>1 DEF Filed, KeyTypes
<1>3. \A f \in KeyField : Lower(q[f]) = Lower(r[f])
  BY <1>2, KeysTell DEF KeyTypes
<1> QED BY <1>1, <1>3, ClauseFacts, SameValueFacts DEF KeyTypes

(* What each operation serves has the key values it was given.             *)
LEMMA ServedNext ==
  ASSUME ~AnyOrder, IgnoresCase, Plain
  PROVE  KeyTypes /\ Filed /\ ServesItsRow /\ [Next]_kvars => ServesItsRow'
<1> SUFFICES ASSUME KeyTypes, Filed, ServesItsRow, [Next]_kvars PROVE ServesItsRow'
  OBVIOUS
<1>1. ASSUME NEW op, NEW kv, NEW got, NEW null,
             last' = [op |-> op, kv |-> kv, got |-> got, null |-> null],
             got.is = "record" => KeyClause(kv, got.row)
      PROVE  ServesItsRow'
  <2>1. last'.got = got /\ last'.kv = kv
    BY <1>1
  <2> QED BY <1>1, <2>1 DEF ServesItsRow, KeyClause, SameValue, Lower
<1>2. ASSUME NEW kv \in KeyValues, Load(kv) PROVE ServesItsRow'
  <2>1. PICK r \in RowType : kv = KeyOf(r)
    BY KeyValuesFacts
  <2>2. CASE Entry(kv).is = "record"
    <3>1. last' = [op |-> "load", kv |-> kv, got |-> Entry(kv), null |-> FALSE]
      BY <1>2, <2>2 DEF Load, Done, DoneWith
    <3> QED BY <1>1, <2>1, <2>2, <3>1, EntrySelected
  <2>3. CASE Entry(kv).is # "record"
    <3>1. \/ last' = [op |-> "load", kv |-> kv, got |-> None, null |-> FALSE]
          \/ \E s \in Selected(kv, rows) :
               last' = [op |-> "load", kv |-> kv, got |-> Record(s), null |-> FALSE]
      BY <1>2, <2>3 DEF Load, Done, DoneWith
    <3> QED BY <1>1, <3>1, EntryKinds DEF Selected
  <2> QED BY <2>2, <2>3
<1>3. ASSUME NEW kv \in KeyValues, IsInCache(kv) PROVE ServesItsRow'
  <2>1. PICK r \in RowType : kv = KeyOf(r)
    BY KeyValuesFacts
  <2>2. last' = [op |-> "isInCache", kv |-> kv, got |-> Entry(kv), null |-> FALSE]
    BY <1>3 DEF IsInCache, Done, DoneWith
  <2> QED BY <1>1, <2>1, <2>2, EntrySelected
<1>4. ASSUME NEW kv \in KeyValues, NEW mark \in BOOLEAN, Delete(kv, mark) PROVE ServesItsRow'
  <2>1. last' = [op |-> "delete", kv |-> kv, got |-> None, null |-> FALSE]
    BY <1>4 DEF Delete, Done, DoneWith
  <2> QED BY <1>1, <2>1, EntryKinds
<1>5. ASSUME NEW data \in KeyData, NEW r \in RowType, Insert(data, r) PROVE ServesItsRow'
  <2>1. KeyClause(KeyOf(r), r)
    BY ClauseFacts, SameValueFacts DEF KeyTypes
  <2>2. \E got \in {Rejected, None, Record(r)} : \E null :
          last' = [op |-> "insert", kv |-> KeyOf(r), got |-> got, null |-> null]
    BY <1>5, InsertFacts
  <2> QED BY <1>1, <2>1, <2>2, EntryKinds
<1>6. CASE UNCHANGED last
  BY <1>6 DEF ServesItsRow, KeyClause, SameValue, Lower
<1> QED BY <1>2, <1>3, <1>4, <1>5, <1>6 DEF Next, Quiet, RowType, Expire, kvars

(* ServesTheRowAsked: where callers give key values in the key's order,    *)
(* the columns ignore case as the cache key does, and the key has a single *)
(* field or its values have no dots, load never serves another row.        *)
THEOREM ServesTheRowAsked ==
  ASSUME ~AnyOrder, IgnoresCase, Plain
  PROVE  Spec => []ServesItsRow
<1>1. KeyTypes /\ Filed /\ [Next]_kvars => Filed'
  BY FiledNext
<1>2. KeyTypes /\ Filed /\ ServesItsRow /\ [Next]_kvars => ServesItsRow'
  BY ServedNext
<1>3. Init => ServesItsRow
  BY EntryKinds DEF Init, ServesItsRow
<1> QED BY <1>1, <1>2, <1>3, TypesInit, TypesNext, FiledInit, PTL DEF Spec

(* Only insert is of concern here, and InsertFacts says what it loads.     *)
LEMMA LoadsNext == KeyTypes /\ InsertLoadsInserted /\ [Next]_kvars => InsertLoadsInserted'
<1> SUFFICES ASSUME KeyTypes, InsertLoadsInserted, [Next]_kvars PROVE InsertLoadsInserted'
  OBVIOUS
<1>1. ASSUME last'.op # "insert" PROVE InsertLoadsInserted'
  BY <1>1 DEF InsertLoadsInserted
<1>2. ASSUME NEW kv \in KeyValues, Load(kv) PROVE InsertLoadsInserted'
  <2>1. \E got : last' = [op |-> "load", kv |-> kv, got |-> got, null |-> FALSE]
    BY <1>2 DEF Load, Done, DoneWith
  <2> QED BY <1>1, <2>1
<1>3. ASSUME NEW kv \in KeyValues, IsInCache(kv) PROVE InsertLoadsInserted'
  BY <1>1, <1>3 DEF IsInCache, Done, DoneWith
<1>4. ASSUME NEW kv \in KeyValues, NEW mark \in BOOLEAN, Delete(kv, mark)
      PROVE  InsertLoadsInserted'
  BY <1>1, <1>4 DEF Delete, Done, DoneWith
<1>5. ASSUME NEW data \in KeyData, NEW r \in RowType, Insert(data, r) PROVE InsertLoadsInserted'
  <2>1. PICK got : /\ last' = [op |-> "insert", kv |-> KeyOf(r), got |-> got,
                               null |-> GivesNull(data)]
                   /\ \/ got = Rejected \/ (got = None /\ GivesNull(data))
                      \/ got = Record(r) /\ ~GivesNull(data)
                   /\ primaryKey' = primaryKey
    BY <1>5, InsertFacts
  <2>2. /\ last'.got = got /\ last'.null = GivesNull(data)
        /\ last'.kv = KeyValuesOf(r, primaryKey) /\ Rejected' = Rejected /\ None' = None
    BY <2>1 DEF KeyOf, Rejected, None
  <2>3. \A q : KeyValuesOf(q, primaryKey)' = KeyValuesOf(q, primaryKey)
    BY <2>1 DEF KeyValuesOf
  <2> QED BY <2>1, <2>2, <2>3, EntryKinds DEF InsertLoadsInserted
<1>6. CASE UNCHANGED <<last, primaryKey>>
  BY <1>6 DEF InsertLoadsInserted, Rejected, None, KeyValuesOf
<1> QED BY <1>2, <1>3, <1>4, <1>5, <1>6 DEF Next, Quiet, RowType, Expire, kvars

(* LoadsWhatItInserted: whatever the caller of insert gives for the key's  *)
(* fields, an insert that does not reject returns the record of the row it *)
(* wrote, or no record where a field of the key was given as null: never   *)
(* another row's.                                                          *)
THEOREM LoadsWhatItInserted == Spec => []InsertLoadsInserted
<1>1. Init => InsertLoadsInserted
  BY DEF Init, InsertLoadsInserted
<1> QED BY <1>1, LoadsNext, TypesInit, TypesNext, PTL DEF Spec
=============================================================================
