--------------------------- MODULE FilteringProofs ---------------------------
(***************************************************************************)
(* What a filtered sequence contains, and the induction this takes: the    *)
(* library's induction theorems have a predicate as a parameter, these     *)
(* have a set.                                                             *)
(***************************************************************************)
EXTENDS Filtering, Functions, FiniteSetTheorems, WellFoundedInduction, TLAPS

\* A set of naturals has a least element: of the intervals 0 .. m, which are finite
\* sets, one has no smaller one.
LEMMA LeastElement ==
  ASSUME NEW T \in SUBSET Nat, T # {}
  PROVE  \E m \in T : \A n \in T : m <= n
<1> DEFINE I == {0 .. m : m \in T}
<1>1. I \subseteq FiniteSubsetsOf(Nat)
  <2> SUFFICES ASSUME NEW m \in T PROVE 0 .. m \in FiniteSubsetsOf(Nat)
    OBVIOUS
  <2>1. IsFiniteSet(0 .. m)
    BY FS_Interval
  <2>2. 0 .. m \in SUBSET Nat
    OBVIOUS
  <2> QED
    BY <2>1, <2>2 DEF FiniteSubsetsOf
<1>2. I # {}
  OBVIOUS
<1>3. PICK X \in I : \A Y \in I : ~(<<Y, X>> \in StrictSubsetOrdering(Nat))
  <2> HIDE DEF I
  <2> QED
    BY <1>1, <1>2, WFMin, FS_StrictSubsetOrderingWellFounded
<1>4. PICK m \in T : X = 0 .. m
  OBVIOUS
<1>5. ASSUME NEW n \in T, n < m PROVE FALSE
  <2>1. <<0 .. n, 0 .. m>> \in StrictSubsetOrdering(Nat)
    BY <1>5 DEF StrictSubsetOrdering
  <2> QED
    BY <2>1, <1>3, <1>4
<1> QED
  BY <1>4, <1>5

LEMMA SetInduction ==
  ASSUME NEW S, 0 \in S, \A n \in Nat : n \in S => n + 1 \in S
  PROVE  Nat \subseteq S
<1> SUFFICES ASSUME Nat \ S # {} PROVE FALSE
  OBVIOUS
<1>1. PICK m \in Nat \ S : \A n \in Nat \ S : m <= n
  BY LeastElement
<1>2. m - 1 \in Nat /\ m - 1 \in S
  BY <1>1
<1> QED
  BY <1>1, <1>2

-----------------------------------------------------------------------------
\* One step of the loop: what is kept of s up to i, when K has what is kept before.
KeptAt(K, s, S, i) == IF i = 0 THEN <<>>
                      ELSE IF s[i] \in S THEN Append(K[i - 1], s[i]) ELSE K[i - 1]

\* The recursive function exists for as many steps as one likes.
LEMMA KeptExists ==
  ASSUME NEW s, NEW S, NEW n \in Nat
  PROVE  \E K : K = [i \in 0 .. n |-> KeptAt(K, s, S, i)]
<1> DEFINE N == {m \in Nat : \E K : K = [i \in 0 .. m |-> KeptAt(K, s, S, i)]}
<1>1. 0 \in N
  <2>1. [i \in 0 .. 0 |-> <<>>] = [i \in 0 .. 0 |-> KeptAt([j \in 0 .. 0 |-> <<>>], s, S, i)]
    BY DEF KeptAt
  <2> QED
    BY <2>1
<1>2. ASSUME NEW m \in Nat, m \in N PROVE m + 1 \in N
  <2>1. PICK K : K = [i \in 0 .. m |-> KeptAt(K, s, S, i)]
    BY <1>2
  <2> DEFINE L == [i \in 0 .. m + 1 |-> IF i <= m THEN K[i] ELSE KeptAt(K, s, S, m + 1)]
  <2>2. L = [i \in 0 .. m + 1 |-> KeptAt(L, s, S, i)]
    <3> SUFFICES ASSUME NEW i \in 0 .. m + 1 PROVE L[i] = KeptAt(L, s, S, i)
      OBVIOUS
    <3>1. CASE i <= m
      <4>1. L[i] = KeptAt(K, s, S, i)
        BY <2>1, <3>1
      <4>2. i # 0 => L[i - 1] = K[i - 1]
        BY <3>1
      <4> HIDE DEF L
      <4> QED
        BY <4>1, <4>2 DEF KeptAt
    <3>2. CASE i = m + 1
      <4>1. L[i] = KeptAt(K, s, S, m + 1)
        BY <3>2
      <4>2. L[m] = K[m] /\ i - 1 = m /\ i # 0
        BY <3>2
      <4> HIDE DEF L
      <4> QED
        BY <3>2, <4>1, <4>2 DEF KeptAt
    <3> QED
      BY <3>1, <3>2
  <2> HIDE DEF L
  <2> QED
    BY <2>2
<1>3. Nat \subseteq N
  <2> HIDE DEF N
  <2> QED
    BY <1>1, <1>2, SetInduction
<1> QED
  BY <1>3

LEMMA FilterUnfolds ==
  ASSUME NEW s, NEW S, Len(s) \in Nat
  PROVE  \E K : /\ K = [i \in 0 .. Len(s) |-> KeptAt(K, s, S, i)]
                /\ Filter(s, S) = K[Len(s)]
<1> DEFINE K == CHOOSE f : f = [i \in 0 .. Len(s) |-> KeptAt(f, s, S, i)]
<1>1. Filter(s, S) = K[Len(s)]
  BY DEF Filter, KeptAt
<1>2. K = [i \in 0 .. Len(s) |-> KeptAt(K, s, S, i)]
  BY KeptExists
<1> QED
  BY <1>1, <1>2

\* r is what the places of s up to n hold that are in S; at[i] is the place of r[i].
Keeps(r, at, s, S, n) ==
  /\ at \in [1 .. Len(r) -> 1 .. n]
  /\ \A i \in 1 .. Len(r) : r[i] = s[at[i]] /\ r[i] \in S
  /\ \A i, j \in 1 .. Len(r) : i < j => at[i] < at[j]
  /\ \A k \in 1 .. n : s[k] \in S => \E i \in 1 .. Len(r) : at[i] = k

\* A filtered sequence has exactly the elements in S, in their order.
LEMMA FilterKeeps ==
  ASSUME NEW T, NEW s \in Seq(T), NEW S
  PROVE  /\ Filter(s, S) \in Seq(T)
         /\ \E at : Keeps(Filter(s, S), at, s, S, Len(s))
<1>0. Len(s) \in Nat
  OBVIOUS
<1>1. PICK K : /\ K = [i \in 0 .. Len(s) |-> KeptAt(K, s, S, i)]
               /\ Filter(s, S) = K[Len(s)]
  BY <1>0, FilterUnfolds
<1> DEFINE N == {n \in Nat : n <= Len(s) => K[n] \in Seq(T) /\ \E at : Keeps(K[n], at, s, S, n)}
<1>2. 0 \in N
  <2>1. K[0] = <<>>
    BY <1>0, <1>1 DEF KeptAt
  <2>2. Keeps(<<>>, <<>>, s, S, 0)
    BY DEF Keeps
  <2>3. \E at : Keeps(K[0], at, s, S, 0)
    BY <2>1, <2>2
  <2>4. K[0] \in Seq(T)
    BY <2>1
  <2> QED
    BY <2>3, <2>4
<1>3. ASSUME NEW n \in Nat, n \in N PROVE n + 1 \in N
  <2> SUFFICES ASSUME n + 1 <= Len(s)
               PROVE  K[n + 1] \in Seq(T) /\ \E at : Keeps(K[n + 1], at, s, S, n + 1)
    OBVIOUS
  <2>1. PICK at : K[n] \in Seq(T) /\ Keeps(K[n], at, s, S, n)
    BY <1>3
  <2>2. K[n + 1] = IF s[n + 1] \in S THEN Append(K[n], s[n + 1]) ELSE K[n]
    <3>1. n + 1 \in 0 .. Len(s) /\ n + 1 # 0 /\ (n + 1) - 1 = n
      BY <1>0
    <3>2. K[n + 1] = KeptAt(K, s, S, n + 1)
      BY <1>1, <3>1
    <3> QED
      BY <3>1, <3>2 DEF KeptAt
  <2>3. CASE s[n + 1] \notin S
    <3>1. Keeps(K[n], at, s, S, n + 1)
      BY <2>1, <2>3 DEF Keeps
    <3> QED
      BY <2>1, <2>2, <2>3, <3>1
  <2>4. CASE s[n + 1] \in S
    <3> DEFINE r == Append(K[n], s[n + 1])
               m == Len(K[n])
               b == [i \in 1 .. m + 1 |-> IF i <= m THEN at[i] ELSE n + 1]
    <3>1. /\ r \in Seq(T) /\ Len(r) = m + 1 /\ m \in Nat
          /\ \A i \in 1 .. m : r[i] = K[n][i]
          /\ r[m + 1] = s[n + 1]
      BY <2>1
    <3>2. \A i \in 1 .. m : b[i] = at[i] /\ at[i] \in 1 .. n
      BY <2>1 DEF Keeps
    <3>3. b[m + 1] = n + 1 /\ DOMAIN b = 1 .. m + 1
      BY <3>1
    <3> HIDE DEF r, m, b
    <3>4. b \in [1 .. Len(r) -> 1 .. n + 1]
      <4>1. \A i \in 1 .. m + 1 : b[i] \in 1 .. n + 1
        BY <3>1, <3>2, <3>3
      <4>2. b = [i \in 1 .. m + 1 |-> b[i]]
        BY DEF b
      <4> QED
        BY <4>1, <4>2, <3>1
    <3>5. \A i \in 1 .. Len(r) : r[i] = s[b[i]] /\ r[i] \in S
      <4> SUFFICES ASSUME NEW i \in 1 .. m + 1 PROVE r[i] = s[b[i]] /\ r[i] \in S
        BY <3>1
      <4>1. CASE i = m + 1
        BY <4>1, <2>4, <3>1, <3>3
      <4>2. CASE i \in 1 .. m
        <5>1. K[n][i] = s[at[i]] /\ K[n][i] \in S
          BY <4>2, <2>1 DEF Keeps, m
        <5> QED
          BY <5>1, <4>2, <3>1, <3>2
      <4> QED
        BY <4>1, <4>2, <3>1
    <3>6. \A i, j \in 1 .. Len(r) : i < j => b[i] < b[j]
      BY <2>1, <3>1, <3>2, <3>3 DEF Keeps, m
    <3>7. \A k \in 1 .. n + 1 : s[k] \in S => \E i \in 1 .. Len(r) : b[i] = k
      <4> SUFFICES ASSUME NEW k \in 1 .. n + 1, s[k] \in S PROVE \E i \in 1 .. Len(r) : b[i] = k
        OBVIOUS
      <4>1. CASE k = n + 1
        BY <4>1, <3>1, <3>3
      <4>2. CASE k \in 1 .. n
        <5>1. PICK i \in 1 .. m : at[i] = k
          BY <2>1, <4>2 DEF Keeps, m
        <5> QED
          BY <5>1, <3>1, <3>2
      <4> QED
        BY <4>1, <4>2
    <3>8. Keeps(r, b, s, S, n + 1)
      BY <3>4, <3>5, <3>6, <3>7 DEF Keeps
    <3> QED
      BY <2>2, <2>4, <3>1, <3>8 DEF r
  <2> QED
    BY <2>3, <2>4
<1>4. Len(s) \in N
  <2> HIDE DEF N
  <2>1. Nat \subseteq N
    BY <1>2, <1>3, SetInduction
  <2> QED
    BY <2>1
<1> QED
  BY <1>1, <1>4

-----------------------------------------------------------------------------
LEMMA IntervalSize ==
  ASSUME NEW n \in Nat
  PROVE  IsFiniteSet(1 .. n) /\ Cardinality(1 .. n) = n
<1>1. 1 \in Int /\ n \in Int
  OBVIOUS
<1>2. IsFiniteSet(1 .. n) /\ Cardinality(1 .. n) = IF 1 > n THEN 0 ELSE n - 1 + 1
  BY <1>1, FS_Interval
<1> QED
  BY <1>2

\* No two places hold the same.
Distinct(s) == \A i, j \in DOMAIN s : s[i] = s[j] => i = j

\* A sequence without duplicates is as long as it has elements.
LEMMA DistinctLength ==
  ASSUME NEW T, NEW s \in Seq(T), Distinct(s)
  PROVE  IsFiniteSet(Range(s)) /\ Cardinality(Range(s)) = Len(s)
<1>1. s \in [1 .. Len(s) -> Range(s)] /\ Len(s) \in Nat /\ DOMAIN s = 1 .. Len(s)
  BY DEF Range
<1>2. s \in Bijection(1 .. Len(s), Range(s))
  BY <1>1 DEF Bijection, Injection, IsInjective, Surjection, Range, Distinct
<1>3. ExistsBijection(1 .. Len(s), Range(s))
  BY <1>2 DEF ExistsBijection
<1>4. IsFiniteSet(1 .. Len(s)) /\ Cardinality(1 .. Len(s)) = Len(s)
  BY <1>1, IntervalSize
<1> QED
  BY <1>3, <1>4, FS_Bijection

\* The elements of a filtered sequence, and that it has no new duplicates.
LEMMA FilterRange ==
  ASSUME NEW T, NEW s \in Seq(T), NEW S
  PROVE  /\ Filter(s, S) \in Seq(T)
         /\ Range(Filter(s, S)) = Range(s) \cap S
         /\ Distinct(s) => Distinct(Filter(s, S))
         /\ Len(Filter(s, S)) <= Len(s)
<1> DEFINE r == Filter(s, S)
<1>1. PICK at : r \in Seq(T) /\ Keeps(r, at, s, S, Len(s))
  BY FilterKeeps
<1> HIDE DEF r
<1>2. DOMAIN r = 1 .. Len(r) /\ Len(r) \in Nat /\ DOMAIN s = 1 .. Len(s) /\ Len(s) \in Nat
  BY <1>1
<1>3. Range(r) = Range(s) \cap S
  BY <1>1, <1>2 DEF Range, Keeps
<1>4. \A i, j \in 1 .. Len(r) : at[i] = at[j] => i = j
  BY <1>1, <1>2 DEF Keeps
<1>5. Distinct(s) => Distinct(r)
  BY <1>1, <1>2, <1>4 DEF Distinct, Keeps
<1>6. at \in Injection(1 .. Len(r), 1 .. Len(s))
  BY <1>1, <1>4 DEF Keeps, Injection, IsInjective
<1>7. Len(r) <= Len(s)
  <2>1. /\ IsFiniteSet(1 .. Len(s)) /\ Cardinality(1 .. Len(s)) = Len(s)
        /\ Cardinality(1 .. Len(r)) = Len(r)
    BY <1>2, IntervalSize
  <2>2. Cardinality(1 .. Len(r)) <= Cardinality(1 .. Len(s))
    BY <2>1, <1>6, FS_Injection
  <2> QED
    BY <2>1, <2>2
<1> QED
  BY <1>1, <1>3, <1>5, <1>7 DEF r

\* Filter looks only at the elements.
LEMMA FilterSame ==
  ASSUME NEW T, NEW s \in Seq(T), NEW S, NEW U, \A x \in Range(s) : x \in S <=> x \in U
  PROVE  Filter(s, S) = Filter(s, U)
<1>0. Len(s) \in Nat /\ DOMAIN s = 1 .. Len(s)
  OBVIOUS
<1>1. \A i \in 1 .. Len(s) : s[i] \in S <=> s[i] \in U
  BY <1>0 DEF Range
<1>2. \A f : \A i \in 0 .. Len(s) : KeptAt(f, s, S, i) = KeptAt(f, s, U, i)
  BY <1>0, <1>1 DEF KeptAt
<1>3. \A f : [i \in 0 .. Len(s) |-> KeptAt(f, s, S, i)] = [i \in 0 .. Len(s) |-> KeptAt(f, s, U, i)]
  BY <1>2
<1> DEFINE K(V) == CHOOSE f : f = [i \in 0 .. Len(s) |-> KeptAt(f, s, V, i)]
<1>4. Filter(s, S) = K(S)[Len(s)] /\ Filter(s, U) = K(U)[Len(s)]
  BY DEF Filter, KeptAt
<1>5. K(S) = K(U)
  BY <1>3
<1> QED
  BY <1>4, <1>5

-----------------------------------------------------------------------------
(* Orders: a strict one on finitely many places enumerates them.           *)

\* A strict total order on finitely many places: there is an enumeration in that order,
\* which has each of them.
StrictOrder(R, D) ==
  /\ \A i \in D : <<i, i>> \notin R
  /\ \A i, j, k \in D : <<i, j>> \in R /\ <<j, k>> \in R => <<i, k>> \in R
  /\ \A i, j \in D : i = j \/ <<i, j>> \in R \/ <<j, i>> \in R

\* An enumeration of D that goes by R, and one that has each place once.
InOrder(o, R, D) == /\ o \in [D -> D]
                    /\ \A i, j \in D : i < j => <<o[i], o[j]>> \in R

HasEach(o, n) == /\ \A i, j \in 1 .. n : o[i] = o[j] => i = j
                 /\ \A k \in 1 .. n : \E i \in 1 .. n : o[i] = k
                 /\ \A k \in 1 .. n : o[k] \in 1 .. n

\* No place comes twice, so each comes.
LEMMA EnumerationHasAll ==
  ASSUME NEW n \in Nat, NEW R, StrictOrder(R, 1 .. n), NEW o, InOrder(o, R, 1 .. n)
  PROVE  HasEach(o, n)
<1> DEFINE D == 1 .. n
<1>1. IsFiniteSet(D)
  BY FS_Interval
<1>2. ASSUME NEW i \in D, NEW j \in D, o[i] = o[j] PROVE i = j
  <2>1. o[i] \in D /\ o[j] \in D
    BY DEF InOrder
  <2>2. ~ i < j /\ ~ j < i
    BY <1>2, <2>1 DEF InOrder, StrictOrder
  <2> QED
    BY <2>2
<1>3. o \in Injection(D, D)
  BY <1>2 DEF InOrder, Injection, IsInjective
<1>4. o \in Surjection(D, D)
  BY <1>1, <1>3, FS_Injection
<1> QED
  BY <1>2, <1>4 DEF Surjection, HasEach, InOrder

\* A place is ranked by how many are before it.
LEMMA EnumerationExists ==
  ASSUME NEW n \in Nat, NEW R, StrictOrder(R, 1 .. n)
  PROVE  \E o : InOrder(o, R, 1 .. n)
<1> DEFINE D == 1 .. n
           before(i) == {j \in D : <<j, i>> \in R}
           rank == [i \in D |-> Cardinality(before(i)) + 1]
<1>1. IsFiniteSet(D) /\ Cardinality(D) = n
  BY FS_Interval
<1>2. ASSUME NEW i \in D PROVE IsFiniteSet(before(i)) /\ Cardinality(before(i)) \in 0 .. n - 1
  <2>1. before(i) \in SUBSET D /\ i \notin before(i)
    BY DEF StrictOrder
  <2> HIDE DEF before
  <2>2. IsFiniteSet(before(i)) /\ Cardinality(before(i)) <= n /\ Cardinality(before(i)) # n
    BY <1>1, <2>1, FS_Subset
  <2>3. Cardinality(before(i)) \in Nat
    BY <2>2, FS_CardinalityType
  <2> QED
    BY <2>2, <2>3
<1>3. rank \in [D -> D]
  <2> SUFFICES ASSUME NEW i \in D PROVE Cardinality(before(i)) + 1 \in D
    OBVIOUS
  <2>1. Cardinality(before(i)) \in 0 .. n - 1
    BY <1>2
  <2> HIDE DEF before
  <2> QED
    BY <2>1
<1>4. ASSUME NEW i \in D, NEW j \in D, <<i, j>> \in R PROVE rank[i] < rank[j]
  <2>1. before(i) \in SUBSET before(j) /\ i \in before(j) /\ i \notin before(i)
    BY <1>4 DEF StrictOrder
  <2>2. Cardinality(before(i)) <= Cardinality(before(j)) /\ Cardinality(before(i)) # Cardinality(before(j))
    <3>1. IsFiniteSet(before(j))
      BY <1>2
    <3> HIDE DEF before
    <3> QED
      BY <2>1, <3>1, FS_Subset
  <2>3. Cardinality(before(i)) \in 0 .. n - 1 /\ Cardinality(before(j)) \in 0 .. n - 1
    BY <1>2
  <2> HIDE DEF before
  <2> QED
    BY <2>2, <2>3
<1>5. ASSUME NEW i \in D, NEW j \in D, rank[i] = rank[j] PROVE i = j
  <2>1. rank[i] \in Nat
    BY <1>3
  <2>2. ~ <<i, j>> \in R /\ ~ <<j, i>> \in R
    <3>1. ~ rank[i] < rank[j] /\ ~ rank[j] < rank[i]
      <4> HIDE DEF rank
      <4> QED
        BY <1>5, <2>1
    <3> HIDE DEF rank
    <3> QED
      BY <1>4, <3>1
  <2> QED
    BY <2>2 DEF StrictOrder
<1> HIDE DEF rank
<1>6. rank \in Surjection(D, D)
  <2>1. rank \in Injection(D, D)
    BY <1>3, <1>5 DEF Injection, IsInjective
  <2> QED
    BY <1>1, <2>1, FS_Injection
<1> DEFINE o == [k \in D |-> CHOOSE i \in D : rank[i] = k]
<1>7. \A k \in D : o[k] \in D /\ rank[o[k]] = k
  BY <1>6 DEF Surjection
<1>8. ASSUME NEW k \in D, NEW l \in D, k < l PROVE <<o[k], o[l]>> \in R
  <2>1. o[k] \in D /\ o[l] \in D /\ rank[o[k]] = k /\ rank[o[l]] = l
    BY <1>7
  <2> HIDE DEF o
  <2>2. ~ <<o[l], o[k]>> \in R /\ o[k] # o[l]
    BY <1>4, <1>8, <2>1
  <2> QED
    BY <2>1, <2>2 DEF StrictOrder
<1>9. o \in [D -> D]
  BY <1>7
<1> HIDE DEF o
<1> QED
  BY <1>8, <1>9 DEF InOrder

\* Whichever enumeration ORDER BY takes, it has each row once and goes by the order.
OrderOf(rows, R) == CHOOSE o \in [DOMAIN rows -> DOMAIN rows] :
                      \A i, j \in DOMAIN rows : i < j => <<o[i], o[j]>> \in R

LEMMA OrderedIs ==
  ASSUME NEW rows, NEW R, Len(rows) \in Nat, DOMAIN rows = 1 .. Len(rows),
         StrictOrder(R, 1 .. Len(rows))
  PROVE  /\ InOrder(OrderOf(rows, R), R, 1 .. Len(rows))
         /\ Ordered(rows, R) = [k \in 1 .. Len(rows) |-> rows[OrderOf(rows, R)[k]]]
<1> DEFINE o == OrderOf(rows, R)
<1>1. \E f : InOrder(f, R, 1 .. Len(rows))
  BY EnumerationExists
<1>2. /\ o \in [DOMAIN rows -> DOMAIN rows]
      /\ \A i, j \in DOMAIN rows : i < j => <<o[i], o[j]>> \in R
  BY <1>1 DEF InOrder, OrderOf
<1>3. Ordered(rows, R) = [k \in DOMAIN o |-> rows[o[k]]]
  BY DEF Ordered, OrderOf
<1> HIDE DEF o
<1>4. Ordered(rows, R) = [k \in 1 .. Len(rows) |-> rows[o[k]]]
  BY <1>2, <1>3
<1>5. InOrder(o, R, 1 .. Len(rows))
  BY <1>2 DEF InOrder
<1> QED
  BY <1>4, <1>5 DEF o

-----------------------------------------------------------------------------
(* Finite sums.                                                            *)

\* The parts of a finite set, from the empty one, each from those with one element less.
LEMMA PartsInduction ==
  ASSUME NEW T, IsFiniteSet(T), NEW G, {} \in G,
         \A S \in SUBSET T : S # {} /\ (\A x \in S : S \ {x} \in G) => S \in G
  PROVE  SUBSET T \subseteq G
<1> DEFINE N == {n \in Nat : \A S \in SUBSET T : Cardinality(S) <= n => S \in G}
<1>1. \A S \in SUBSET T : IsFiniteSet(S) /\ Cardinality(S) \in Nat
  BY FS_Subset, FS_CardinalityType
<1>2. 0 \in N
  <2> SUFFICES ASSUME NEW S \in SUBSET T, Cardinality(S) <= 0 PROVE S \in G
    OBVIOUS
  <2>1. S = {}
    BY <1>1, FS_EmptySet
  <2> QED
    BY <2>1
<1>3. ASSUME NEW n \in Nat, n \in N PROVE n + 1 \in N
  <2> SUFFICES ASSUME NEW S \in SUBSET T, Cardinality(S) <= n + 1 PROVE S \in G
    OBVIOUS
  <2>1. ASSUME NEW x \in S PROVE S \ {x} \in G
    <3>1. Cardinality(S \ {x}) = Cardinality(S) - 1 /\ S \ {x} \in SUBSET T
      BY <1>1, FS_RemoveElement
    <3>2. Cardinality(S \ {x}) <= n
      BY <1>1, <3>1
    <3> QED
      BY <1>3, <3>1, <3>2
  <2> HIDE DEF N
  <2> QED
    BY <2>1
<1>4. Nat \subseteq N
  <2> HIDE DEF N
  <2> QED
    BY <1>2, <1>3, SetInduction
<1> QED
  BY <1>1, <1>4

\* One step of the sum: K has the sums of smaller sets.
SumStep(K, f, s) == IF s = {} THEN 0
                    ELSE LET x == CHOOSE x \in s : TRUE IN f[x] + K[s \ {x}]

\* The parts of T with at most n elements, over which the sums are defined one by one.
Small(T, n) == {s \in SUBSET T : Cardinality(s) <= n}

\* They grow with n and reach every part of T.
LEMMA SmallOnes ==
  ASSUME NEW T, IsFiniteSet(T), NEW n \in Nat
  PROVE  /\ \A s \in Small(T, 0) : s = {}
         /\ \A s \in Small(T, n + 1) : \A x \in s : s \ {x} \in Small(T, n)
         /\ Small(T, n) \subseteq Small(T, n + 1)
         /\ \A s \in SUBSET T : s \in Small(T, Cardinality(s)) /\ Cardinality(s) \in Nat
         /\ \A s \in Small(T, n) : s \in SUBSET T /\ IsFiniteSet(s)
<1>1. \A s \in SUBSET T : IsFiniteSet(s) /\ Cardinality(s) \in Nat
  BY FS_Subset, FS_CardinalityType
<1>2. \A s \in Small(T, 0) : s = {}
  BY <1>1, FS_EmptySet DEF Small
<1>3. \A s \in SUBSET T : \A x \in s : Cardinality(s \ {x}) = Cardinality(s) - 1
  BY <1>1, FS_RemoveElement
<1>4. ASSUME NEW s \in Small(T, n + 1), NEW x \in s PROVE s \ {x} \in Small(T, n)
  <2>1. s \in SUBSET T /\ Cardinality(s) <= n + 1 /\ Cardinality(s) \in Nat
    BY <1>1 DEF Small
  <2>2. Cardinality(s \ {x}) = Cardinality(s) - 1
    BY <1>3, <2>1
  <2>3. s \ {x} \in SUBSET T /\ Cardinality(s \ {x}) <= n
    BY <2>1, <2>2
  <2> QED
    BY <2>3 DEF Small
<1> QED
  BY <1>1, <1>2, <1>4 DEF Small

\* The recursive function of the sum exists on a finite set.
LEMMA SumExists ==
  ASSUME NEW f, NEW T, IsFiniteSet(T)
  PROVE  \E K : K = [s \in SUBSET T |-> SumStep(K, f, s)]
<1> DEFINE N == {n \in Nat : \E K : K = [s \in Small(T, n) |-> SumStep(K, f, s)]}
<1>1. 0 \in N
  <2>1. [s \in Small(T, 0) |-> 0] = [s \in Small(T, 0) |-> SumStep([r \in Small(T, 0) |-> 0], f, s)]
    BY SmallOnes DEF SumStep
  <2> QED
    BY <2>1
<1>2. ASSUME NEW n \in Nat, n \in N PROVE n + 1 \in N
  <2>1. PICK K : K = [s \in Small(T, n) |-> SumStep(K, f, s)]
    BY <1>2
  <2> DEFINE L == [s \in Small(T, n + 1) |-> IF s \in Small(T, n) THEN K[s] ELSE SumStep(K, f, s)]
  <2>2. \A s \in Small(T, n) : L[s] = K[s]
    BY SmallOnes
  <2>3. L = [s \in Small(T, n + 1) |-> SumStep(L, f, s)]
    <3> SUFFICES ASSUME NEW s \in Small(T, n + 1) PROVE L[s] = SumStep(L, f, s)
      OBVIOUS
    <3>1. L[s] = SumStep(K, f, s)
      BY <2>1
    <3>2. ASSUME s # {} PROVE SumStep(L, f, s) = SumStep(K, f, s)
      <4> DEFINE x == CHOOSE x \in s : TRUE
      <4>1. s \ {x} \in Small(T, n)
        BY <3>2, SmallOnes
      <4>2. L[s \ {x}] = K[s \ {x}]
        BY <4>1, <2>2
      <4> HIDE DEF L
      <4> QED
        BY <4>2 DEF SumStep
    <3>3. ASSUME s = {} PROVE SumStep(L, f, s) = SumStep(K, f, s)
      BY <3>3 DEF SumStep
    <3> HIDE DEF L
    <3> QED
      BY <3>1, <3>2, <3>3
  <2> HIDE DEF L
  <2> QED
    BY <2>3
<1>3. Cardinality(T) \in N
  <2> HIDE DEF N
  <2> QED
    BY <1>1, <1>2, SetInduction, FS_CardinalityType
<1>4. Small(T, Cardinality(T)) = SUBSET T
  BY FS_Subset DEF Small
<1> QED
  BY <1>3, <1>4

\* K has the sum of every part of T.
Sums(K, f, T) == K = [s \in SUBSET T |-> SumStep(K, f, s)]

\* The sum that the library takes is such a function's.
LEMMA SumUnfolds ==
  ASSUME NEW f, NEW T, IsFiniteSet(T)
  PROVE  \E K : Sums(K, f, T) /\ SumFunctionOnSet(f, T) = K[T]
<1> DEFINE K == CHOOSE k : k = [s \in SUBSET T |-> SumStep(k, f, s)]
<1>1. SumFunctionOnSet(f, T) = K[T]
  BY DEF SumFunctionOnSet, FoldFunctionOnSet, MapThenFoldSet, SumStep
<1>2. K = [s \in SUBSET T |-> SumStep(K, f, s)]
  BY SumExists
<1> QED
  BY <1>1, <1>2 DEF Sums

\* The sum of a set is found in the sums of a larger one, of what agrees with f on it.
LEMMA SumAgrees ==
  ASSUME NEW f, NEW g, NEW T, IsFiniteSet(T), NEW S \in SUBSET T, \A x \in S : f[x] = g[x],
         NEW K, Sums(K, g, T)
  PROVE  SumFunctionOnSet(f, S) = K[S]
<1>1. IsFiniteSet(S)
  BY FS_Subset
<1>2. PICK L : Sums(L, f, S) /\ SumFunctionOnSet(f, S) = L[S]
  BY <1>1, SumUnfolds
<1> DEFINE G == {s \in SUBSET S : L[s] = K[s]}
<1>3. ASSUME NEW s \in SUBSET S
      PROVE  L[s] = SumStep(L, f, s) /\ K[s] = SumStep(K, g, s)
  BY <1>2 DEF Sums
<1>4. {} \in G
  BY <1>3 DEF SumStep
<1>5. ASSUME NEW s \in SUBSET S, s # {}, \A x \in s : s \ {x} \in G PROVE s \in G
  <2> DEFINE x == CHOOSE x \in s : TRUE
  <2>1. x \in s /\ L[s \ {x}] = K[s \ {x}] /\ f[x] = g[x]
    BY <1>5
  <2>2. SumStep(L, f, s) = SumStep(K, g, s)
    BY <2>1, <1>5 DEF SumStep
  <2> QED
    BY <2>2, <1>3
<1>6. S \in G
  <2> HIDE DEF G
  <2>1. SUBSET S \subseteq G
    BY <1>1, <1>4, <1>5, PartsInduction
  <2> QED
    BY <2>1
<1> QED
  BY <1>2, <1>6

\* What is summed is looked at only on the set.
LEMMA SumSame ==
  ASSUME NEW f, NEW g, NEW S, IsFiniteSet(S), \A x \in S : f[x] = g[x]
  PROVE  SumFunctionOnSet(f, S) = SumFunctionOnSet(g, S)
<1>1. PICK K : Sums(K, g, S) /\ SumFunctionOnSet(g, S) = K[S]
  BY SumUnfolds
<1> QED
  BY <1>1, SumAgrees

\* The order in which the elements are added does not matter.
LEMMA SumFacts ==
  ASSUME NEW f, NEW T, IsFiniteSet(T), \A x \in T : f[x] \in Int
  PROVE  /\ SumFunctionOnSet(f, {}) = 0
         /\ \A S \in SUBSET T : SumFunctionOnSet(f, S) \in Int
         /\ \A S \in SUBSET T : \A x \in S :
              SumFunctionOnSet(f, S) = f[x] + SumFunctionOnSet(f, S \ {x})
<1>1. PICK K : Sums(K, f, T)
  BY SumUnfolds
<1>2. ASSUME NEW S \in SUBSET T PROVE SumFunctionOnSet(f, S) = K[S]
  BY <1>1, SumAgrees
<1>3. ASSUME NEW S \in SUBSET T PROVE K[S] = SumStep(K, f, S)
  BY <1>1 DEF Sums
<1>4. K[{}] = 0
  <2>1. K[{}] = SumStep(K, f, {})
    BY <1>3
  <2> QED
    BY <2>1 DEF SumStep
<1>5. ASSUME NEW S \in SUBSET T, S # {}
      PROVE  \E y \in S : K[S] = f[y] + K[S \ {y}]
  <2>1. (CHOOSE y \in S : TRUE) \in S /\ K[S] = SumStep(K, f, S)
    BY <1>3, <1>5
  <2> QED
    BY <2>1, <1>5 DEF SumStep
<1> DEFINE I == {S \in SUBSET T : K[S] \in Int}
<1>6. ASSUME NEW S \in SUBSET T, S # {}, \A x \in S : S \ {x} \in I PROVE S \in I
  <2>1. PICK y \in S : K[S] = f[y] + K[S \ {y}]
    BY <1>5, <1>6
  <2>2. K[S \ {y}] \in Int /\ f[y] \in Int
    BY <1>6
  <2> QED
    BY <2>1, <2>2
<1>7. SUBSET T \subseteq I
  <2>1. {} \in I
    BY <1>4
  <2> HIDE DEF I
  <2> QED
    BY <2>1, <1>6, PartsInduction
<1> DEFINE G == {S \in SUBSET T : \A x \in S : K[S] = f[x] + K[S \ {x}]}
<1>8. ASSUME NEW S \in SUBSET T, S # {}, \A x \in S : S \ {x} \in G PROVE S \in G
  <2>1. PICK y \in S : K[S] = f[y] + K[S \ {y}]
    BY <1>5, <1>8
  <2>2. ASSUME NEW x \in S, x # y PROVE K[S] = f[x] + K[S \ {x}]
    <3> DEFINE R == (S \ {y}) \ {x}
    <3>1. (S \ {x}) \ {y} = R /\ x \in S \ {y} /\ y \in S \ {x} /\ R \in SUBSET T
      BY <2>2
    <3>2. K[S \ {y}] = f[x] + K[R]
      BY <1>8, <3>1
    <3> HIDE DEF R
    <3>3. K[S \ {x}] = f[y] + K[R]
      BY <1>8, <3>1
    <3>4. K[R] \in Int /\ f[x] \in Int /\ f[y] \in Int
      BY <1>7, <3>1
    <3> QED
      BY <2>1, <3>2, <3>3, <3>4
  <2> QED
    BY <2>1, <2>2
<1>9. SUBSET T \subseteq G
  <2>1. {} \in G
    OBVIOUS
  <2> HIDE DEF G
  <2> QED
    BY <2>1, <1>8, PartsInduction
<1> QED
  BY <1>2, <1>4, <1>7, <1>9

\* Who adds nothing may be left out.
LEMMA SumZeros ==
  ASSUME NEW f, NEW T, IsFiniteSet(T), \A x \in T : f[x] \in Int,
         NEW S \in SUBSET T, \A x \in T \ S : f[x] = 0
  PROVE  SumFunctionOnSet(f, T) = SumFunctionOnSet(f, S)
<1> DEFINE sum(U) == SumFunctionOnSet(f, U)
           G == {U \in SUBSET T : S \subseteq U => sum(U) = sum(S)}
<1>1. /\ \A U \in SUBSET T : sum(U) \in Int
      /\ \A U \in SUBSET T : \A x \in U : sum(U) = f[x] + sum(U \ {x})
  BY SumFacts
<1>2. {} \in G
  OBVIOUS
<1>3. ASSUME NEW U \in SUBSET T, U # {}, \A x \in U : U \ {x} \in G PROVE U \in G
  <2> SUFFICES ASSUME S \subseteq U, S # U PROVE sum(U) = sum(S)
    OBVIOUS
  <2>1. PICK x \in U : x \notin S
    OBVIOUS
  <2>2. sum(U \ {x}) = sum(S) /\ f[x] = 0
    BY <2>1, <1>3
  <2>3. sum(U) = f[x] + sum(U \ {x}) /\ sum(S) \in Int
    BY <1>1
  <2> QED
    BY <2>2, <2>3
<1>4. SUBSET T \subseteq G
  <2> HIDE DEF G
  <2> QED
    BY <1>2, <1>3, PartsInduction
<1> QED
  BY <1>4

\* A sum over places is one over what is at them, when each has its own.
LEMMA SumImage ==
  ASSUME NEW f, NEW g, NEW e, NEW I, IsFiniteSet(I), \A i \in I : g[i] = f[e[i]] /\ g[i] \in Int,
         \A i, j \in I : e[i] = e[j] => i = j
  PROVE  SumFunctionOnSet(f, {e[i] : i \in I}) = SumFunctionOnSet(g, I)
<1> DEFINE at(J) == {e[i] : i \in J}
           G == {J \in SUBSET I : SumFunctionOnSet(f, at(J)) = SumFunctionOnSet(g, J)}
<1>1. IsFiniteSet(at(I)) /\ \A x \in at(I) : f[x] \in Int
  <2> DEFINE h == [i \in I |-> e[i]]
  <2>1. h \in Surjection(I, at(I))
    BY DEF Surjection
  <2>2. IsFiniteSet(at(I))
    BY <2>1, FS_Surjection
  <2> QED
    BY <2>2
<1>2. /\ SumFunctionOnSet(f, {}) = 0 /\ SumFunctionOnSet(g, {}) = 0
      /\ \A X \in SUBSET at(I) : \A x \in X :
           SumFunctionOnSet(f, X) = f[x] + SumFunctionOnSet(f, X \ {x})
      /\ \A J \in SUBSET I : \A i \in J :
           SumFunctionOnSet(g, J) = g[i] + SumFunctionOnSet(g, J \ {i})
  BY <1>1, SumFacts
<1>3. {} \in G
  <2>1. at({}) = {}
    OBVIOUS
  <2> QED
    BY <2>1, <1>2
<1>4. ASSUME NEW J \in SUBSET I, J # {}, \A i \in J : J \ {i} \in G PROVE J \in G
  <2>1. PICK i \in J : TRUE
    BY <1>4
  <2>2. at(J) \ {e[i]} = at(J \ {i}) /\ e[i] \in at(J) /\ at(J) \in SUBSET at(I)
    OBVIOUS
  <2>5. f[e[i]] = g[i] /\ J \in SUBSET I
    OBVIOUS
  <2>3. SumFunctionOnSet(f, at(J \ {i})) = SumFunctionOnSet(g, J \ {i})
    BY <1>4
  <2> HIDE DEF at
  <2>4. SumFunctionOnSet(g, J) = g[i] + SumFunctionOnSet(g, J \ {i})
    BY <2>1, <2>5, <1>2
  <2>6. SumFunctionOnSet(f, at(J)) = f[e[i]] + SumFunctionOnSet(f, at(J) \ {e[i]})
    BY <2>2, <1>2
  <2>7. SumFunctionOnSet(f, at(J)) = f[e[i]] + SumFunctionOnSet(f, at(J \ {i}))
    BY <2>2, <2>6
  <2> QED
    BY <2>3, <2>4, <2>5, <2>7
<1>5. SUBSET I \subseteq G
  <2> HIDE DEF G
  <2> QED
    BY <1>3, <1>4, PartsInduction
<1> QED
  BY <1>5

\* g has the rises of R from place to place.
Telescope(g, R, m, n) ==
  /\ m \in Nat /\ n \in Nat /\ m <= n
  /\ \A i \in m .. n : R[i] \in Int
  /\ \A i \in (m + 1) .. n : g[i] = R[i] - R[i - 1]

\* What rises from place to place rises from the first to the last.
LEMMA SumTelescopes ==
  ASSUME NEW g, NEW R, NEW m, NEW n, Telescope(g, R, m, n)
  PROVE  SumFunctionOnSet(g, (m + 1) .. n) = R[n] - R[m]
<1> SUFFICES ASSUME m \in Nat, n \in Nat, m <= n,
                    \A i \in m .. n : R[i] \in Int,
                    \A i \in (m + 1) .. n : g[i] = R[i] - R[i - 1]
             PROVE  SumFunctionOnSet(g, (m + 1) .. n) = R[n] - R[m]
  BY DEF Telescope
<1> DEFINE sum(k) == SumFunctionOnSet(g, (m + 1) .. k)
           N == {k \in Nat : m + k <= n => sum(m + k) = R[m + k] - R[m]}
<1>1. IsFiniteSet((m + 1) .. n) /\ \A i \in (m + 1) .. n : g[i] \in Int
  <2>1. \A i \in (m + 1) .. n : i \in m .. n /\ i - 1 \in m .. n
    OBVIOUS
  <2>2. IsFiniteSet((m + 1) .. n)
    BY FS_Interval
  <2>3. ASSUME NEW i \in (m + 1) .. n PROVE g[i] \in Int
    <3>1. R[i] \in Int /\ R[i - 1] \in Int /\ g[i] = R[i] - R[i - 1]
      BY <2>1
    <3> QED
      BY <3>1
  <2> QED
    BY <2>2, <2>3
<1>2. /\ SumFunctionOnSet(g, {}) = 0
      /\ \A S \in SUBSET ((m + 1) .. n) : SumFunctionOnSet(g, S) \in Int
      /\ \A S \in SUBSET ((m + 1) .. n) : \A i \in S :
           SumFunctionOnSet(g, S) = g[i] + SumFunctionOnSet(g, S \ {i})
  BY <1>1, SumFacts, ZenonT(30)
<1>3. 0 \in N
  <2>1. (m + 1) .. m = {} /\ m + 0 = m
    OBVIOUS
  <2>2. sum(m) = 0 /\ R[m] \in Int
    BY <2>1, <1>2
  <2> QED
    BY <2>1, <2>2
<1>4. ASSUME NEW k \in Nat, k \in N PROVE k + 1 \in N
  <2> SUFFICES ASSUME m + (k + 1) <= n PROVE sum(m + (k + 1)) = R[m + (k + 1)] - R[m]
    OBVIOUS
  <2> DEFINE S == (m + 1) .. (m + (k + 1))
             i == m + (k + 1)
  <2>1. S \ {i} = (m + 1) .. (m + k) /\ i \in S /\ S \in SUBSET ((m + 1) .. n)
    OBVIOUS
  <2>2. sum(m + (k + 1)) = g[i] + sum(m + k)
    <3> HIDE DEF i
    <3>1. SumFunctionOnSet(g, S) = g[i] + SumFunctionOnSet(g, S \ {i})
      <4> HIDE DEF S
      <4> QED
        BY <2>1, <1>2
    <3> QED
      BY <3>1, <2>1 DEF i
  <2>3. g[i] = R[i] - R[m + k]
    <3>1. i \in (m + 1) .. n /\ i - 1 = m + k
      OBVIOUS
    <3> QED
      BY <3>1
  <2>4. sum(m + k) = R[m + k] - R[m]
    BY <1>4
  <2>5. R[i] \in Int /\ R[m + k] \in Int /\ R[m] \in Int
    OBVIOUS
  <2> HIDE DEF S, sum
  <2> QED
    BY <2>2, <2>3, <2>4, <2>5
<1>5. n - m \in N
  <2>1. n - m \in Nat
    OBVIOUS
  <2> HIDE DEF N
  <2> QED
    BY <1>3, <1>4, <2>1, SetInduction
<1> QED
  BY <1>5

\* A sum over two sets that share nothing.
LEMMA SumOfTwo ==
  ASSUME NEW f, NEW T, IsFiniteSet(T), \A x \in T : f[x] \in Int,
         NEW A \in SUBSET T, NEW B \in SUBSET T, A \cap B = {}
  PROVE  SumFunctionOnSet(f, A \cup B) = SumFunctionOnSet(f, A) + SumFunctionOnSet(f, B)
<1> DEFINE sum(S) == SumFunctionOnSet(f, S)
           G == {S \in SUBSET B : sum(A \cup S) = sum(A) + sum(S)}
<1>1. /\ sum({}) = 0
      /\ \A S \in SUBSET T : sum(S) \in Int
      /\ \A S \in SUBSET T : \A x \in S : sum(S) = f[x] + sum(S \ {x})
  BY SumFacts
<1> HIDE DEF sum
<1>2. {} \in G
  <2>1. A \cup {} = A
    OBVIOUS
  <2> QED
    BY <1>1, <2>1
<1>3. ASSUME NEW S \in SUBSET B, S # {}, \A x \in S : S \ {x} \in G
      PROVE  S \in G
  <2>1. PICK x \in S : TRUE
    BY <1>3
  <2>2. sum(A \cup (S \ {x})) = sum(A) + sum(S \ {x})
    BY <1>3
  <2>3. (A \cup S) \ {x} = A \cup (S \ {x}) /\ x \in A \cup S /\ A \cup S \in SUBSET T /\ S \in SUBSET T
    OBVIOUS
  <2>4. sum(A \cup S) = f[x] + sum(A \cup (S \ {x}))
    <3> DEFINE U == A \cup S
    <3>1. U \in SUBSET T /\ x \in U
      BY <2>3
    <3> HIDE DEF U
    <3>2. sum(U) = f[x] + sum(U \ {x})
      BY <1>1, <3>1
    <3> QED
      BY <2>3, <3>2 DEF U
  <2>5. sum(S) = f[x] + sum(S \ {x})
    BY <1>1, <2>3
  <2>6. f[x] \in Int /\ sum(A) \in Int /\ sum(S \ {x}) \in Int
    <3>1. x \in T /\ S \ {x} \in SUBSET T
      OBVIOUS
    <3> QED
      BY <1>1, <3>1
  <2>7. sum(A \cup S) = sum(A) + sum(S)
    BY <2>2, <2>4, <2>5, <2>6
  <2> QED
    BY <2>7
<1>4. B \in G
  <2>1. IsFiniteSet(B)
    BY FS_Subset
  <2> HIDE DEF G
  <2>2. SUBSET B \subseteq G
    BY <1>2, <1>3, <2>1, PartsInduction
  <2> QED
    BY <2>2
<1> QED
  BY <1>4 DEF sum

\* The parts P[k] have nothing in common.
Divides(P, K, T) == /\ \A k \in K : P[k] \in SUBSET T
                    /\ \A k, l \in K : k # l => P[k] \cap P[l] = {}
AllOf(P, K) == UNION {P[k] : k \in K}

\* The sum over a set that is divided is that of the sums over its parts.
LEMMA SumOfParts ==
  ASSUME NEW f, NEW T, IsFiniteSet(T), \A x \in T : f[x] \in Int,
         NEW P, NEW K, IsFiniteSet(K), Divides(P, K, T),
         NEW g, \A k \in K : g[k] = SumFunctionOnSet(f, P[k])
  PROVE  SumFunctionOnSet(g, K) = SumFunctionOnSet(f, AllOf(P, K))
<1> DEFINE sum(S) == SumFunctionOnSet(f, S)
           G == {L \in SUBSET K : SumFunctionOnSet(g, L) = sum(AllOf(P, L))}
<1>1. /\ sum({}) = 0
      /\ \A S \in SUBSET T : sum(S) \in Int
  BY SumFacts
<1> HIDE DEF sum
<1>2. \A k \in K : g[k] = sum(P[k]) /\ g[k] \in Int /\ P[k] \in SUBSET T
  BY <1>1 DEF sum, Divides
<1>3. /\ SumFunctionOnSet(g, {}) = 0
      /\ \A L \in SUBSET K : \A k \in L : SumFunctionOnSet(g, L) = g[k] + SumFunctionOnSet(g, L \ {k})
  BY <1>2, SumFacts
<1>4. {} \in G
  <2>1. AllOf(P, {}) = {}
    BY DEF AllOf
  <2> QED
    BY <1>1, <1>3, <2>1
<1>5. ASSUME NEW L \in SUBSET K, L # {}, \A k \in L : L \ {k} \in G
      PROVE  L \in G
  <2>1. PICK k \in L : TRUE
    BY <1>5
  <2> DEFINE R == AllOf(P, L \ {k})
  <2>2. SumFunctionOnSet(g, L \ {k}) = sum(R)
    BY <1>5
  <2>3. AllOf(P, L) = P[k] \cup R
    BY DEF AllOf
  <2>4. P[k] \cap R = {} /\ P[k] \in SUBSET T /\ R \in SUBSET T
    BY DEF AllOf, Divides
  <2> HIDE DEF R
  <2>5. sum(P[k] \cup R) = sum(P[k]) + sum(R)
    BY <2>4, SumOfTwo DEF sum
  <2>6. SumFunctionOnSet(g, L) = g[k] + SumFunctionOnSet(g, L \ {k})
    BY <1>3
  <2>7. SumFunctionOnSet(g, L) = sum(AllOf(P, L))
    BY <1>2, <2>2, <2>3, <2>5, <2>6
  <2> QED
    BY <2>7
<1> HIDE DEF G
<1>6. SUBSET K \subseteq G
  BY <1>4, <1>5, PartsInduction
<1> QED
  BY <1>6 DEF G, sum

\* How many there are is a sum of ones.
LEMMA SumOfOnes ==
  ASSUME NEW f, NEW T, IsFiniteSet(T), \A x \in T : f[x] = 1
  PROVE  SumFunctionOnSet(f, T) = Cardinality(T)
<1> DEFINE G == {S \in SUBSET T : SumFunctionOnSet(f, S) = Cardinality(S)}
<1>1. /\ SumFunctionOnSet(f, {}) = 0
      /\ \A S \in SUBSET T : \A x \in S : SumFunctionOnSet(f, S) = f[x] + SumFunctionOnSet(f, S \ {x})
  BY SumFacts
<1>2. {} \in G
  BY <1>1, FS_EmptySet
<1>3. ASSUME NEW S \in SUBSET T, S # {}, \A x \in S : S \ {x} \in G
      PROVE  S \in G
  <2>1. PICK x \in S : TRUE
    BY <1>3
  <2>2. IsFiniteSet(S)
    BY FS_Subset
  <2>3. Cardinality(S \ {x}) = Cardinality(S) - 1 /\ Cardinality(S) \in Nat
    BY <2>2, FS_RemoveElement, FS_CardinalityType
  <2>4. SumFunctionOnSet(f, S) = 1 + SumFunctionOnSet(f, S \ {x})
    BY <1>1
  <2>5. SumFunctionOnSet(f, S \ {x}) = Cardinality(S \ {x})
    BY <1>3
  <2>6. SumFunctionOnSet(f, S) = Cardinality(S)
    BY <2>3, <2>4, <2>5
  <2> QED
    BY <2>6
<1> HIDE DEF G
<1>4. SUBSET T \subseteq G
  BY <1>2, <1>3, PartsInduction
<1> QED
  BY <1>4 DEF G

\* The elements of a divided set are counted part by part.
LEMMA CountOfParts ==
  ASSUME NEW T, IsFiniteSet(T), NEW P, NEW K, IsFiniteSet(K), Divides(P, K, T),
         NEW g, \A k \in K : g[k] = Cardinality(P[k])
  PROVE  SumFunctionOnSet(g, K) = Cardinality(AllOf(P, K))
<1> DEFINE one == [x \in T |-> 1]
<1>1. \A x \in T : one[x] = 1 /\ one[x] \in Int
  OBVIOUS
<1> HIDE DEF one
<1>2. ASSUME NEW S \in SUBSET T PROVE SumFunctionOnSet(one, S) = Cardinality(S)
  <2>1. IsFiniteSet(S)
    BY FS_Subset
  <2> QED
    BY <1>1, <2>1, SumOfOnes
<1>3. \A k \in K : g[k] = SumFunctionOnSet(one, P[k])
  BY <1>2 DEF Divides
<1>4. SumFunctionOnSet(g, K) = SumFunctionOnSet(one, AllOf(P, K))
  BY <1>1, <1>3, SumOfParts
<1>5. AllOf(P, K) \in SUBSET T
  BY DEF AllOf, Divides
<1> QED
  BY <1>2, <1>4, <1>5
=============================================================================
