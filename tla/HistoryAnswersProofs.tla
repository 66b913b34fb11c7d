------------------------ MODULE HistoryAnswersProofs ------------------------
(***************************************************************************)
(* What the history reads answer, for tables, bindings, mappings, samples  *)
(* and questions of any size: the tables of a topic, the newest archived   *)
(* value, exports, counters, and what was recorded of an entity.           *)
(*                                                                         *)
(* The state is a question and its answer, so each theorem is one about    *)
(* the operators that calculate the answer.                                *)
(***************************************************************************)
EXTENDS HistoryAnswers, FilteringProofs

-----------------------------------------------------------------------------
(* Tables of a topic: the length of a pinned text is a sum over a set of   *)
(* levels, in whichever order, and a refined rule pins more text.          *)

\* How much text a rule pins at the levels in S.
TextSum(p, S) == SumFunction([i \in S |-> TextLength[p[i]]])

\* Rules that pin the same text at the same levels are as long.
LEMMA SumOfSameText ==
  ASSUME NEW p, NEW q, NEW S, IsFiniteSet(S), \A i \in S : TextLength[p[i]] = TextLength[q[i]]
  PROVE  TextSum(p, S) = TextSum(q, S)
BY DEF TextSum

\* More levels are no shorter; no level has no text, and one has its own.
LEMMA TextSums ==
  ASSUME NEW p, NEW T, IsFiniteSet(T), NEW S \in SUBSET T, \A i \in T : TextLength[p[i]] \in Nat
  PROVE  /\ TextSum(p, S) \in Nat /\ TextSum(p, T) \in Nat /\ TextSum(p, S) <= TextSum(p, T)
         /\ T = {} => TextSum(p, T) = 0
         /\ \A x : T = {x} => TextSum(p, T) = TextLength[p[x]]
<1> DEFINE f == [i \in T |-> TextLength[p[i]]]
           sum(R) == SumFunctionOnSet(f, R)
<1>1. ASSUME NEW R \in SUBSET T PROVE TextSum(p, R) = sum(R) /\ IsFiniteSet(R)
  <2> DEFINE g == [i \in R |-> TextLength[p[i]]]
  <2>1. IsFiniteSet(R) /\ \A i \in R : g[i] = f[i]
    BY FS_Subset
  <2>2. TextSum(p, R) = SumFunctionOnSet(g, R)
    BY DEF TextSum, SumFunction
  <2> HIDE DEF f, g
  <2> QED
    BY <2>1, <2>2, SumSame
<1>2. \A i \in T : f[i] = TextLength[p[i]] /\ f[i] \in Nat
  OBVIOUS
<1> HIDE DEF f
<1>3. /\ sum({}) = 0
      /\ \A R \in SUBSET T : sum(R) \in Int
      /\ \A R \in SUBSET T : \A x \in R : sum(R) = f[x] + sum(R \ {x})
  BY <1>2, SumFacts
<1>4. ASSUME NEW R \in SUBSET T, NEW Q \in SUBSET R PROVE sum(Q) <= sum(R)
  <2> DEFINE G == {U \in SUBSET R : Q \subseteq U => sum(Q) <= sum(U)}
  <2>1. {} \in G
    BY <1>3
  <2>2. ASSUME NEW U \in SUBSET R, U # {}, \A x \in U : U \ {x} \in G PROVE U \in G
    <3> SUFFICES ASSUME Q \subseteq U, Q # U PROVE sum(Q) <= sum(U)
      BY <1>3
    <3>1. PICK x \in U : x \notin Q
      OBVIOUS
    <3>2. sum(Q) <= sum(U \ {x}) /\ sum(U) = f[x] + sum(U \ {x}) /\ f[x] \in Nat
      BY <3>1, <2>2, <1>2, <1>3
    <3>3. sum(U \ {x}) \in Int /\ sum(Q) \in Int
      BY <1>3
    <3> QED
      BY <3>2, <3>3
  <2>3. R \in G
    <3>1. IsFiniteSet(R)
      BY <1>1
    <3> HIDE DEF G
    <3>2. SUBSET R \subseteq G
      BY <3>1, <2>1, <2>2, PartsInduction
    <3> QED
      BY <3>2
  <2> QED
    BY <2>3
<1>5. \A R \in SUBSET T : sum(R) \in Nat
  BY <1>3, <1>4
<1>6. \A x : T = {x} => sum(T) = f[x]
  <2> SUFFICES ASSUME NEW x, T = {x} PROVE sum(T) = f[x]
    OBVIOUS
  <2>1. T \ {x} = {} /\ x \in T
    OBVIOUS
  <2> QED
    BY <2>1, <1>2, <1>3
<1> QED
  BY <1>1, <1>2, <1>3, <1>4, <1>5, <1>6

\* A rule as the assumption has it.
Rule(p) == /\ p \in Seq(DOMAIN TextLength \cup Wildcard)
           /\ \A i \in Literal(p) : TextLength[p[i]] \in Nat
           /\ \A i \in DOMAIN p : Literal(p) = {i} => TextLength[p[i]] > 0

\* The length that selects a rule is the sum of the text it pins.
LEMMA LengthIs ==
  ASSUME NEW p, Rule(p)
  PROVE  LET S == Literal(p)
         IN  /\ IsFiniteSet(S) /\ Cardinality(S) \in Nat
             /\ \A i \in S : TextLength[p[i]] \in Nat
             /\ TextSum(p, S) \in Nat
             /\ LiteralLength(p)
                  = TextSum(p, S) + (IF S = {} THEN 0 ELSE Cardinality(S) - 1)
<1> DEFINE S == Literal(p)
<1>1. DOMAIN p = 1 .. Len(p) /\ Len(p) \in Nat
  BY DEF Rule
<1>2. IsFiniteSet(S)
  <2>1. IsFiniteSet(1 .. Len(p))
    BY <1>1, FS_Interval
  <2>2. S \subseteq 1 .. Len(p)
    BY <1>1 DEF Literal
  <2> QED
    BY <2>1, <2>2, FS_Subset
<1>3. Cardinality(S) \in Nat /\ (Cardinality(S) = 0 <=> S = {})
  BY <1>2, FS_CardinalityType, FS_EmptySet
<1>4. \A i \in S : TextLength[p[i]] \in Nat
  BY DEF Rule, Literal
<1>5. TextSum(p, S) \in Nat
  <2> HIDE DEF S
  <2> QED
    BY <1>2, <1>4, TextSums
<1>6. LiteralLength(p) = TextSum(p, S) + Max({0, Cardinality(S) - 1})
  BY DEF LiteralLength, TextSum
<1>8. ASSUME NEW n \in Nat
      PROVE  Max({0, n - 1}) = IF n = 0 THEN 0 ELSE n - 1
  <2> DEFINE m == IF n = 0 THEN 0 ELSE n - 1
             top == CHOOSE x \in {0, n - 1} : \A y \in {0, n - 1} : x >= y
  <2>1. Max({0, n - 1}) = top
    BY DEF Max
  <2>2. m \in {0, n - 1} /\ \A y \in {0, n - 1} : m >= y
    OBVIOUS
  <2>3. top \in {0, n - 1} /\ \A y \in {0, n - 1} : top >= y
    BY <2>2
  <2> HIDE DEF top
  <2> QED
    BY <2>1, <2>2, <2>3
<1> QED
  BY <1>2, <1>3, <1>4, <1>5, <1>6, <1>8

\* A rule that pins more levels has a longer text.
LEMMA RefinedIsLonger ==
  ASSUME NEW m, NEW n, Rule(m.prefix), Rule(n.prefix), Refines(m, n)
  PROVE  LiteralLength(m.prefix) > LiteralLength(n.prefix)
<1> DEFINE p == m.prefix
           q == n.prefix
           S == Literal(q)
           T == Literal(p)
<1>1. /\ \A i \in S : i \in T /\ p[i] = q[i]
      /\ S # T
  <2> DEFINE pins(r) == {<<i, r[i]>> : i \in Literal(r)}
  <2>1. pins(q) \subseteq pins(p) /\ pins(p) # pins(q)
    BY DEF Refines
  <2>2. ASSUME NEW i \in S PROVE i \in T /\ p[i] = q[i]
    <3>1. <<i, q[i]>> \in pins(p)
      BY <2>1
    <3> QED
      BY <3>1
  <2>3. ASSUME S = T PROVE FALSE
    <3>1. pins(p) = pins(q)
      BY <2>2, <2>3
    <3> QED
      BY <3>1, <2>1
  <2> QED
    BY <2>2, <2>3
<1>2. /\ IsFiniteSet(T) /\ Cardinality(T) \in Nat /\ \A i \in T : TextLength[p[i]] \in Nat
      /\ LiteralLength(p) = TextSum(p, T) + (IF T = {} THEN 0 ELSE Cardinality(T) - 1)
      /\ TextSum(p, T) \in Nat
  BY LengthIs
<1>3. /\ IsFiniteSet(S) /\ Cardinality(S) \in Nat
      /\ LiteralLength(q) = TextSum(q, S) + (IF S = {} THEN 0 ELSE Cardinality(S) - 1)
      /\ TextSum(q, S) \in Nat
  BY LengthIs
<1>4. T # {} /\ S \in SUBSET T
  BY <1>1
<1>5. TextSum(q, S) = TextSum(p, S)
  <2>1. \A i \in S : TextLength[q[i]] = TextLength[p[i]]
    BY <1>1
  <2> HIDE DEF S, T, p, q
  <2> QED
    BY <1>3, <2>1, SumOfSameText
<1>6. TextSum(p, S) <= TextSum(p, T)
  <2> HIDE DEF S, T, p, q
  <2> QED
    BY <1>2, <1>4, TextSums
<1>7. Cardinality(S) < Cardinality(T)
  BY <1>1, <1>2, <1>3, <1>4, FS_Subset
<1>8. CASE S # {}
  <2>1. /\ LiteralLength(p) = TextSum(p, T) + (Cardinality(T) - 1)
        /\ LiteralLength(q) = TextSum(q, S) + (Cardinality(S) - 1)
    BY <1>2, <1>3, <1>4, <1>8
  <2> HIDE DEF S, T, p, q
  <2>2. LiteralLength(p) > LiteralLength(q)
    BY <2>1, <1>2, <1>3, <1>5, <1>6, <1>7
  <2> QED
    BY <2>2 DEF p, q
<1>9. CASE S = {}
  <2>1. LiteralLength(q) = 0
    <3>1. TextSum(q, S) = 0
      BY <1>3, <1>9, TextSums
    <3> QED
      BY <3>1, <1>3, <1>9
  <2>2. LiteralLength(p) = TextSum(p, T) + (Cardinality(T) - 1) /\ Cardinality(T) >= 1
    BY <1>2, <1>3, <1>4, <1>7
  <2>3. CASE Cardinality(T) = 1
    <3>1. PICK i : T = {i}
      BY <1>2, <2>3, FS_Singleton
    <3>2. TextLength[p[i]] > 0 /\ TextLength[p[i]] \in Nat
      BY <3>1, <1>2 DEF Rule, Literal
    <3>3. TextSum(p, T) = TextLength[p[i]]
      <4> HIDE DEF T, p
      <4> QED
        BY <1>2, <3>1, TextSums
    <3> HIDE DEF S, T, p, q
    <3>4. LiteralLength(p) > LiteralLength(q)
      BY <2>1, <2>2, <2>3, <3>2, <3>3
    <3> QED
      BY <3>4 DEF p, q
  <2>4. CASE Cardinality(T) # 1
    <3> HIDE DEF S, T, p, q
    <3>1. LiteralLength(p) > LiteralLength(q)
      BY <2>1, <2>2, <2>4, <1>2
    <3> QED
      BY <3>1 DEF p, q
  <2> QED
    BY <2>3, <2>4
<1> QED
  BY <1>8, <1>9

\* Of finitely many numbers one is the greatest.
LEMMA GreatestOf ==
  ASSUME NEW S, IsFiniteSet(S), NEW f, \A x \in S : f[x] \in Nat, NEW D \in SUBSET S, D # {}
  PROVE  \E x \in D : \A y \in D : f[x] >= f[y]
<1> DEFINE Greatest(s) == s # {} => \E x \in s : \A y \in s : f[x] >= f[y]
           N == {n \in Nat : \A s \in Small(S, n) : Greatest(s)}
<1>1. 0 \in N
  BY SmallOnes
<1>2. ASSUME NEW n \in Nat, n \in N PROVE n + 1 \in N
  <2> SUFFICES ASSUME NEW s \in Small(S, n + 1), s # {}
               PROVE  \E x \in s : \A y \in s : f[x] >= f[y]
    OBVIOUS
  <2>1. PICK x \in s : TRUE
    OBVIOUS
  <2>2. s \in SUBSET S /\ s \ {x} \in Small(S, n)
    BY SmallOnes
  <2>3. CASE s = {x}
    BY <2>2, <2>3
  <2>4. CASE s # {x}
    <3>1. PICK z \in s \ {x} : \A y \in s \ {x} : f[z] >= f[y]
      BY <2>2, <2>4, <1>2
    <3>2. \A y \in s : f[y] \in Nat
      BY <2>2
    <3>3. CASE f[x] >= f[z]
      <4>1. \A y \in s : f[x] >= f[y]
        BY <3>1, <3>2, <3>3
      <4> QED
        BY <4>1
    <3>4. CASE ~(f[x] >= f[z])
      <4>1. \A y \in s : f[z] >= f[y]
        BY <3>1, <3>2, <3>4
      <4> QED
        BY <4>1
    <3> QED
      BY <3>3, <3>4
  <2> QED
    BY <2>3, <2>4
<1>3. Nat \subseteq N
  <2> HIDE DEF N
  <2> QED
    BY <1>1, <1>2, SetInduction
<1>4. D \in Small(S, Cardinality(D)) /\ Cardinality(D) \in N
  BY <1>3, SmallOnes
<1> QED
  BY <1>4

\* What selectMappedHistory answers, for any topic and mappings.
LEMMA SelectsMostSpecific ==
  ASSUME NEW topic, NEW M, IsFiniteSet(M), \A m \in M : Rule(m.prefix)
  PROVE  LET A      == selectMappedHistory(topic, M)
             direct == {m \in M : WellFormed(m) /\ Covers(m.prefix, topic)}
         IN  /\ direct # {} => A # {} /\ A \subseteq direct
             /\ \A m \in A, n \in direct : ~ Refines(n, m)
             /\ \A m \in A, n \in M : n.prefix = m.prefix => n \in A
<1> DEFINE A         == selectMappedHistory(topic, M)
           wellFormed == {m \in M : WellFormed(m)}
           direct    == {m \in M : WellFormed(m) /\ Covers(m.prefix, topic)}
           length    == [m \in M |-> LiteralLength(m.prefix)]
           scores    == {LiteralLength(m.prefix) : m \in direct}
           top       == Max(scores)
<1>1. {m \in wellFormed : Covers(m.prefix, topic)} = direct
  OBVIOUS
<1>2. A = IF direct # {} THEN {m \in direct : LiteralLength(m.prefix) = top}
          ELSE {m \in wellFormed : Sibling(m.prefix, topic)}
  BY <1>1 DEF selectMappedHistory
<1>3. \A m \in M : length[m] \in Nat /\ length[m] = LiteralLength(m.prefix)
  <2> SUFFICES ASSUME NEW m \in M PROVE LiteralLength(m.prefix) \in Nat
    OBVIOUS
  <2> DEFINE S == Literal(m.prefix)
  <2>1. /\ IsFiniteSet(S) /\ Cardinality(S) \in Nat /\ TextSum(m.prefix, S) \in Nat
        /\ LiteralLength(m.prefix)
             = TextSum(m.prefix, S) + (IF S = {} THEN 0 ELSE Cardinality(S) - 1)
    BY LengthIs
  <2>2. S # {} => Cardinality(S) # 0
    BY <2>1, FS_EmptySet
  <2> HIDE DEF S
  <2> QED
    BY <2>1, <2>2
<1>4. ASSUME direct # {}
      PROVE  \E x \in direct : top = length[x] /\ \A y \in direct : top >= length[y]
  <2>1. PICK x \in direct : \A y \in direct : length[x] >= length[y]
    <3> HIDE DEF length
    <3>1. direct \in SUBSET M
      OBVIOUS
    <3> HIDE DEF direct
    <3> QED
      BY <3>1, <1>3, <1>4, GreatestOf
  <2>2. length[x] \in scores /\ \A y \in scores : length[x] >= y
    BY <2>1, <1>3
  <2>3. top = CHOOSE a \in scores : \A y \in scores : a >= y
    BY DEF Max
  <2>4. top \in scores /\ \A y \in scores : top >= y
    <3> HIDE DEF scores, top
    <3> QED
      BY <2>2, <2>3
  <2>5. PICK z \in direct : top = LiteralLength(z.prefix)
    <3> HIDE DEF top
    <3> QED
      BY <2>4
  <2>6. top = length[z]
    BY <2>5, <1>3
  <2>7. ASSUME NEW y \in direct PROVE top >= length[y]
    <3>1. length[y] \in scores
      OBVIOUS
    <3> QED
      BY <3>1, <2>4
  <2> HIDE DEF top, length
  <2> QED
    BY <2>6, <2>7
<1>5. direct # {} => A # {} /\ A \subseteq direct
  <2> HIDE DEF A, top
  <2> QED
    BY <1>2, <1>3, <1>4
<1>6. ASSUME NEW m \in A, NEW n \in direct, Refines(n, m) PROVE FALSE
  <2>1. m \in direct /\ LiteralLength(m.prefix) = top
    <3> HIDE DEF A, top
    <3> QED
      BY <1>2, <1>6
  <2>2. LiteralLength(n.prefix) > LiteralLength(m.prefix)
    BY <2>1, <1>6, RefinedIsLonger
  <2>3. /\ top >= LiteralLength(n.prefix)
        /\ LiteralLength(n.prefix) \in Nat /\ LiteralLength(m.prefix) \in Nat
    BY <1>3, <1>4, <2>1
  <2> HIDE DEF top
  <2> QED
    BY <2>1, <2>2, <2>3
<1>7. ASSUME NEW m \in A, NEW n \in M, n.prefix = m.prefix PROVE n \in A
  <2>1. WellFormed(n) <=> WellFormed(m)
    BY <1>7 DEF WellFormed
  <2> HIDE DEF A, top
  <2> QED
    BY <2>1, <1>2, <1>7
<1> QED
  BY <1>5, <1>6, <1>7

\* A topic's tables are those of a rule that no other matching one refines, and of all
\* its mappings; another object's table only when no rule matches (selectMappedHistory).
THEOREM TablesMostSpecific == AnswersSpec => []MostSpecific
<1>1. ASSUME NEW S \in MappingSets PROVE IsFiniteSet(S) /\ \A m \in S : Rule(m.prefix)
  BY RuleAssumption DEF RulesFit, Rule, Literal
<1>2. AnswersInit => MostSpecific
  BY DEF AnswersInit, Idle, MostSpecific
<1>3. ASSUME MostSpecific, [AnswersNext]_<<asked, answer>>
      PROVE  MostSpecific'
  <2>1. CASE UNCHANGED <<asked, answer>>
    BY <1>3, <2>1 DEF MostSpecific
  <2>2. ASSUME NEW S \in MappingSets, NEW t \in MappedTopics, ResolveTables(S, t)
        PROVE  MostSpecific'
    <3>1. /\ asked'.kind = "tables" /\ asked'.mappings = S /\ asked'.topic = t
          /\ answer' = selectMappedHistory(t, S)
      BY <2>2 DEF ResolveTables
    <3> QED
      BY <3>1, <1>1, SelectsMostSpecific DEF MostSpecific
  <2>3. ASSUME asked'.kind # "tables" PROVE MostSpecific'
    BY <2>3 DEF MostSpecific
  <2>4. \/ \E S \in MappingSets, t \in MappedTopics : ResolveTables(S, t)
        \/ asked'.kind # "tables"
        \/ UNCHANGED <<asked, answer>>
    <3>1. ASSUME NEW w, NEW q, ReadEntity(w, q) PROVE asked'.kind # "tables"
      BY <3>1 DEF ReadEntity
    <3>2. ASSUME NEW r, NEW q, ReadCounter(r, q) PROVE asked'.kind # "tables"
      BY <3>2 DEF ReadCounter
    <3>3. ASSUME NEW r, NEW q, ExportRows(r, q) PROVE asked'.kind # "tables"
      BY <3>3 DEF ExportRows
    <3>4. ASSUME NEW r, NEW q, RecoverLatest(r, q) PROVE asked'.kind # "tables"
      BY <3>4 DEF RecoverLatest
    <3>5. ASSUME NEW r, NEW q, NormalizeRange(r, q) PROVE asked'.kind # "tables"
      BY <3>5 DEF NormalizeRange
    <3>6. ASSUME Done PROVE asked'.kind # "tables"
      BY <3>6 DEF Done, Idle
    <3> QED
      BY <1>3, <3>1, <3>2, <3>3, <3>4, <3>5, <3>6 DEF AnswersNext, Ask
  <2> QED
    BY <2>1, <2>2, <2>3, <2>4
<1> QED
  BY <1>2, <1>3, PTL DEF AnswersSpec, answerVars

-----------------------------------------------------------------------------
(* The newest archived value: rows are enumerated in the order of the      *)
(* statement, those of the newest instant come first, and one row more     *)
(* than may tie is enough to tell.                                         *)

\* A row that can be ordered.
Dated(r, temporal) == /\ r.at[temporal.fromColumn] \in Int /\ r.at[temporal.toColumn] \in Int
                      /\ r.table \in Int

\* The instant of r is later than that of s, or they are one.
Later(r, s, temporal) ==
  \/ r.at[temporal.fromColumn] > s.at[temporal.fromColumn]
  \/ /\ r.at[temporal.fromColumn] = s.at[temporal.fromColumn]
     /\ r.at[temporal.toColumn] > s.at[temporal.toColumn]

\* The order of the statement, by the rows' instants, tables and places.
LEMMA LatestOrderIs ==
  ASSUME NEW s, NEW i, NEW j, NEW temporal
  PROVE  LatestOrder(s, i, j, temporal) <=>
           \/ Later(s[i], s[j], temporal)
           \/ /\ SameInstant(s[i], s[j], temporal)
              /\ s[i].table < s[j].table \/ (s[i].table = s[j].table /\ i < j)
<1> DEFINE key == <<temporal.fromColumn, temporal.toColumn>>
<1>1. key[1] = temporal.fromColumn /\ key[2] = temporal.toColumn
  OBVIOUS
<1>2. 1 .. 2 = {1, 2} /\ 1 .. (1 - 1) = {} /\ 1 .. (2 - 1) = {1}
  OBVIOUS
<1>3. (\E k \in 1 .. 2 : /\ s[i].at[key[k]] > s[j].at[key[k]]
                         /\ \A l \in 1 .. (k - 1) : s[i].at[key[l]] = s[j].at[key[l]])
        <=> Later(s[i], s[j], temporal)
  <2> HIDE DEF key
  <2> QED
    BY <1>1, <1>2 DEF Later
<1>4. (\A k \in 1 .. 2 : s[i].at[key[k]] = s[j].at[key[k]])
        <=> SameInstant(s[i], s[j], temporal)
  <2> HIDE DEF key
  <2> QED
    BY <1>1, <1>2 DEF SameInstant
<1>5. LatestOrder(s, i, j, temporal) <=>
        \/ \E k \in 1 .. 2 : /\ s[i].at[key[k]] > s[j].at[key[k]]
                             /\ \A l \in 1 .. (k - 1) : s[i].at[key[l]] = s[j].at[key[l]]
        \/ /\ \A k \in 1 .. 2 : s[i].at[key[k]] = s[j].at[key[k]]
           /\ s[i].table < s[j].table \/ (s[i].table = s[j].table /\ i < j)
  BY DEF LatestOrder
<1> HIDE DEF key
<1> QED
  BY <1>3, <1>4, <1>5

\* The order of the statement as a relation on the places of s, which is a strict one.
Places(s, temporal) == {p \in (1 .. Len(s)) \X (1 .. Len(s)) :
                          LatestOrder(s, p[1], p[2], temporal)}

\* Two rows of one instant and table are told apart by their places.
LEMMA LatestIsOrder ==
  ASSUME NEW s, NEW temporal, Len(s) \in Nat, \A i \in 1 .. Len(s) : Dated(s[i], temporal)
  PROVE  /\ StrictOrder(Places(s, temporal), 1 .. Len(s))
         /\ \A i, j \in 1 .. Len(s) :
              <<i, j>> \in Places(s, temporal) <=> LatestOrder(s, i, j, temporal)
<1> DEFINE D == 1 .. Len(s)
           f == [i \in D |-> s[i].at[temporal.fromColumn]]
           g == [i \in D |-> s[i].at[temporal.toColumn]]
           t == [i \in D |-> s[i].table]
           O(i, j) == \/ f[i] > f[j]
                      \/ f[i] = f[j] /\ g[i] > g[j]
                      \/ f[i] = f[j] /\ g[i] = g[j] /\ (t[i] < t[j] \/ (t[i] = t[j] /\ i < j))
<1>1. ASSUME NEW i \in D, NEW j \in D
      PROVE  <<i, j>> \in Places(s, temporal) <=> LatestOrder(s, i, j, temporal)
  BY DEF Places
<1>2. ASSUME NEW i \in D, NEW j \in D
      PROVE  <<i, j>> \in Places(s, temporal) <=> O(i, j)
  <2>1. /\ f[i] = s[i].at[temporal.fromColumn] /\ f[j] = s[j].at[temporal.fromColumn]
        /\ g[i] = s[i].at[temporal.toColumn] /\ g[j] = s[j].at[temporal.toColumn]
        /\ t[i] = s[i].table /\ t[j] = s[j].table
    OBVIOUS
  <2>2. LatestOrder(s, i, j, temporal) <=>
           \/ Later(s[i], s[j], temporal)
           \/ /\ SameInstant(s[i], s[j], temporal)
              /\ s[i].table < s[j].table \/ (s[i].table = s[j].table /\ i < j)
    BY LatestOrderIs
  <2>3. /\ Later(s[i], s[j], temporal) <=> f[i] > f[j] \/ (f[i] = f[j] /\ g[i] > g[j])
        /\ SameInstant(s[i], s[j], temporal) <=> f[i] = f[j] /\ g[i] = g[j]
    BY <2>1 DEF Later, SameInstant
  <2>4. LatestOrder(s, i, j, temporal) <=> O(i, j)
    <3> HIDE DEF f, g, t
    <3> QED
      BY <2>1, <2>2, <2>3
  <2> HIDE DEF O
  <2> QED
    BY <1>1, <2>4
<1>3. f \in [D -> Int] /\ g \in [D -> Int] /\ t \in [D -> Int]
  BY DEF Dated
<1> HIDE DEF f, g, t
<1>4. \A i \in D : ~ O(i, i)
  BY <1>3
<1>5. \A i, j, k \in D : O(i, j) /\ O(j, k) => O(i, k)
  BY <1>3, SMTT(20)
<1>6. ASSUME NEW i \in D, NEW j \in D PROVE i = j \/ O(i, j) \/ O(j, i)
  <2>1. /\ f[i] \in Int /\ f[j] \in Int /\ g[i] \in Int /\ g[j] \in Int
        /\ t[i] \in Int /\ t[j] \in Int /\ i \in Int /\ j \in Int
    BY <1>3
  <2> QED
    BY <2>1
<1> HIDE DEF O
<1> QED
  BY <1>1, <1>2, <1>4, <1>5, <1>6 DEF StrictOrder

\* The smaller of two numbers.
LEMMA SmallerOf ==
  ASSUME NEW a \in Int, NEW b \in Int
  PROVE  Min({a, b}) = IF a <= b THEN a ELSE b
<1> DEFINE m == IF a <= b THEN a ELSE b
           low == CHOOSE x \in {a, b} : \A y \in {a, b} : x =< y
<1>1. Min({a, b}) = low
  BY DEF Min
<1>2. m \in {a, b} /\ \A y \in {a, b} : m =< y
  OBVIOUS
<1>3. low \in {a, b} /\ \A y \in {a, b} : low =< y
  BY <1>2
<1> HIDE DEF low
<1> QED
  BY <1>1, <1>2, <1>3

\* The rows of a topic that have both times.
OwnRows(rows, topic, temporal) ==
  Filter(rows, {r \in ToSet(rows) : r.topic = topic /\ Timed(r, temporal)})

\* The first rows of s in the order of the statement, one more than may tie.
PageOf(page, s, temporal) ==
  /\ Len(page) = IF TieRows + 1 <= Len(s) THEN TieRows + 1 ELSE Len(s)
  /\ DOMAIN page = 1 .. Len(page) /\ (page = <<>> <=> Len(page) = 0)
  /\ \E o : /\ InOrder(o, Places(s, temporal), 1 .. Len(s))
            /\ \A k \in 1 .. Len(page) : page[k] = s[o[k]]

\* Rows that can all be ordered.
Sortable(s, temporal) == /\ Len(s) \in Nat /\ DOMAIN s = 1 .. Len(s)
                         /\ \A i \in 1 .. Len(s) : Dated(s[i], temporal)

\* The page has the first rows in the order of the statement.
LEMMA PageIs ==
  ASSUME NEW rows, NEW topic, NEW temporal, TieRows \in Nat,
         Sortable(OwnRows(rows, topic, temporal), temporal)
  PROVE  PageOf(buildLatestHistorySql(rows, topic, temporal),
                OwnRows(rows, topic, temporal), temporal)
<1> DEFINE s == OwnRows(rows, topic, temporal)
<1>0. /\ Len(s) \in Nat /\ DOMAIN s = 1 .. Len(s)
      /\ \A i \in 1 .. Len(s) : Dated(s[i], temporal)
  BY DEF Sortable
<1> DEFINE n == Len(s)
           o == OrderOf(s, Places(s, temporal))
           sorted == [k \in 1 .. n |-> s[o[k]]]
           page == buildLatestHistorySql(rows, topic, temporal)
<1>1. page = SubSeq(Ordered(s, Places(s, temporal)), 1,
                    Min({TieRows + 1, Len(Ordered(s, Places(s, temporal)))}))
  <2>1. Places(s, temporal)
          = {p \in (DOMAIN s) \X (DOMAIN s) : LatestOrder(s, p[1], p[2], temporal)}
    BY <1>0 DEF Places
  <2> QED
    BY <2>1 DEF buildLatestHistorySql, Limited, PageRows, OwnRows
<1> HIDE DEF s
<1>2. InOrder(o, Places(s, temporal), 1 .. n) /\ Ordered(s, Places(s, temporal)) = sorted
  BY <1>0, LatestIsOrder, OrderedIs
<1>3. page = SubSeq(sorted, 1, Min({TieRows + 1, Len(sorted)}))
  BY <1>1, <1>2
<1> HIDE DEF o
<1>4. sorted \in Seq({s[i] : i \in 1 .. n}) /\ Len(sorted) = n /\ DOMAIN sorted = 1 .. n
  <2>1. DOMAIN o = 1 .. n /\ \A k \in 1 .. n : o[k] \in 1 .. n
    BY <1>2 DEF InOrder
  <2>2. sorted = [k \in 1 .. n |-> s[o[k]]]
    BY <2>1
  <2>3. \A k \in 1 .. n : s[o[k]] \in {s[i] : i \in 1 .. n}
    BY <2>1
  <2> HIDE DEF sorted
  <2> DEFINE X == {s[i] : i \in 1 .. n}
  <2>4. sorted \in [1 .. n -> X]
    BY <2>2, <2>3
  <2>5. n \in Nat
    BY <1>0
  <2> HIDE DEF n, X
  <2>6. sorted \in Seq(X) /\ Len(sorted) = n /\ DOMAIN sorted = 1 .. n
    BY <2>4, <2>5
  <2> QED
    BY <2>6 DEF X
<1>5. \A k \in 1 .. n : sorted[k] = s[o[k]]
  BY <1>2 DEF InOrder
<1> HIDE DEF sorted, page
<1> DEFINE m == IF TieRows + 1 <= n THEN TieRows + 1 ELSE n
<1>6. Min({TieRows + 1, Len(sorted)}) = m
  BY <1>0, <1>4, SmallerOf
<1>7. page = SubSeq(sorted, 1, m) /\ m \in 0 .. n
  <2>1. m \in 0 .. n
    BY <1>0
  <2> HIDE DEF m
  <2> QED
    BY <1>3, <1>6, <2>1
<1> HIDE DEF m
<1>8. Len(page) = m /\ DOMAIN page = 1 .. m /\ \A k \in 1 .. m : page[k] = sorted[k]
  BY <1>0, <1>4, <1>7
<1>9. page = <<>> <=> Len(page) = 0
  <2> DEFINE X == {s[i] : i \in 1 .. n}
  <2>1. sorted \in Seq(X) /\ m \in 0 .. Len(sorted) /\ page = SubSeq(sorted, 1, m)
    BY <1>4, <1>7
  <2> HIDE DEF X
  <2>2. page \in Seq(X)
    BY <2>1
  <2> QED
    BY <2>2
<1>10. \A k \in 1 .. Len(page) : page[k] = s[o[k]]
  BY <1>5, <1>7, <1>8
<1> QED
  BY <1>2, <1>8, <1>9, <1>10 DEF page, m, s, PageOf

\* The first row of a page that is in order is the one it calls the newest.
LEMMA HeadIsNewest ==
  ASSUME NEW page, NEW temporal, Len(page) \in Nat \ {0}, DOMAIN page = 1 .. Len(page),
         \A i \in 1 .. Len(page) : Dated(page[i], temporal),
         \A i, j \in 1 .. Len(page) : i < j => LatestOrder(page, i, j, temporal)
  PROVE  (CHOOSE i \in DOMAIN page :
            \A j \in DOMAIN page \ {i} : LatestOrder(page, i, j, temporal)) = 1
<1> DEFINE D == 1 .. Len(page)
           newest == CHOOSE i \in D : \A j \in D \ {i} : LatestOrder(page, i, j, temporal)
<1>1. 1 \in D /\ \A j \in D \ {1} : LatestOrder(page, 1, j, temporal)
  OBVIOUS
<1>2. newest \in D /\ \A j \in D \ {newest} : LatestOrder(page, newest, j, temporal)
  BY <1>1
<1> HIDE DEF newest
<1>3. ASSUME newest # 1 PROVE FALSE
  <2>1. /\ <<newest, 1>> \in Places(page, temporal)
        /\ <<1, newest>> \in Places(page, temporal)
    BY <1>1, <1>2, <1>3 DEF Places
  <2>2. StrictOrder(Places(page, temporal), D)
    BY LatestIsOrder
  <2> QED
    BY <1>1, <1>2, <2>1, <2>2 DEF StrictOrder
<1> QED
  BY <1>3 DEF newest

\* In an enumeration the rows are in the order of their instants, and a part of it is in
\* the order of the statement, too.
LEMMA EnumerationOrders ==
  ASSUME NEW s, NEW temporal, Len(s) \in Nat, \A i \in 1 .. Len(s) : Dated(s[i], temporal),
         NEW o, InOrder(o, Places(s, temporal), 1 .. Len(s)),
         NEW page, NEW n \in 0 .. Len(s), \A k \in 1 .. n : page[k] = s[o[k]],
         NEW i \in 1 .. n, NEW j \in 1 .. n, i < j
  PROVE  /\ Dated(page[i], temporal)
         /\ \/ Later(page[i], page[j], temporal)
            \/ SameInstant(page[i], page[j], temporal)
         /\ LatestOrder(page, i, j, temporal)
<1>1. /\ i \in 1 .. Len(s) /\ j \in 1 .. Len(s)
      /\ o[i] \in 1 .. Len(s) /\ o[j] \in 1 .. Len(s)
  BY DEF InOrder
<1>2. LatestOrder(s, o[i], o[j], temporal)
  BY <1>1, LatestIsOrder DEF InOrder
<1>3. \/ Later(page[i], page[j], temporal)
      \/ /\ SameInstant(page[i], page[j], temporal)
         /\ page[i].table < page[j].table
              \/ (page[i].table = page[j].table /\ o[i] < o[j])
  BY <1>2, LatestOrderIs
<1>4. Dated(page[i], temporal)
  BY <1>1
<1>5. LatestOrder(page, i, j, temporal) <=>
           \/ Later(page[i], page[j], temporal)
           \/ /\ SameInstant(page[i], page[j], temporal)
              /\ page[i].table < page[j].table \/ (page[i].table = page[j].table /\ i < j)
  BY LatestOrderIs
<1> QED
  BY <1>3, <1>4, <1>5

\* The rows of the newest instant come first, one after the other.
LEMMA TiesComeFirst ==
  ASSUME NEW n \in Nat \ {0}, NEW temporal, NEW r, \A i \in 1 .. n : Dated(r[i], temporal),
         \A i, j \in 1 .. n : i < j => \/ Later(r[i], r[j], temporal)
                                       \/ SameInstant(r[i], r[j], temporal)
  PROVE  \E m \in 1 .. n : \A k \in 1 .. n :
           SameInstant(r[k], r[1], temporal) <=> k <= m
<1> DEFINE T == {k \in 1 .. n : SameInstant(r[k], r[1], temporal)}
           f == [k \in 1 .. n |-> k]
<1>1. 1 \in T
  BY DEF SameInstant
<1>2. IsFiniteSet(1 .. n)
  BY FS_Interval
<1>3. PICK m \in T : \A k \in T : f[m] >= f[k]
  <2>1. T \in SUBSET (1 .. n) /\ T # {} /\ \A k \in 1 .. n : f[k] \in Nat
    BY <1>1
  <2> HIDE DEF T, f
  <2> QED
    BY <1>2, <2>1, GreatestOf
<1>4. ASSUME NEW k \in 1 .. n, k <= m PROVE SameInstant(r[k], r[1], temporal)
  <2>1. CASE k = m \/ k = 1
    BY <1>1, <2>1
  <2>2. CASE k # m /\ k # 1
    <3>1. /\ Later(r[1], r[k], temporal) \/ SameInstant(r[1], r[k], temporal)
          /\ Later(r[k], r[m], temporal) \/ SameInstant(r[k], r[m], temporal)
          /\ SameInstant(r[m], r[1], temporal)
      BY <1>4, <2>2
    <3>2. Dated(r[1], temporal) /\ Dated(r[k], temporal) /\ Dated(r[m], temporal)
      OBVIOUS
    <3> QED
      BY <3>1, <3>2 DEF Later, SameInstant, Dated
  <2> QED
    BY <2>1, <2>2
<1>5. ASSUME NEW k \in 1 .. n, SameInstant(r[k], r[1], temporal) PROVE k <= m
  BY <1>3, <1>5
<1> QED
  BY <1>4, <1>5

\* The rows at the places own, one after the other, newest first, and a page of the first ones.
Listing(h, n, page, rows, own, temporal) ==
  /\ n \in Nat /\ \A i, j \in 1 .. n : h[i] = h[j] => i = j
  /\ (\A k \in 1 .. n : h[k] \in own) /\ (\A l \in own : \E k \in 1 .. n : h[k] = l)
  /\ \A k \in 1 .. n : Dated(rows[h[k]], temporal)
  /\ \A i, j \in 1 .. n : i < j => \/ Later(rows[h[i]], rows[h[j]], temporal)
                                   \/ SameInstant(rows[h[i]], rows[h[j]], temporal)
  /\ Len(page) = IF TieRows + 1 <= n THEN TieRows + 1 ELSE n
  /\ DOMAIN page = 1 .. Len(page) /\ (page = <<>> <=> Len(page) = 0)
  /\ \A k \in 1 .. Len(page) : page[k] = rows[h[k]]
  /\ \A i, j \in 1 .. Len(page) : i < j => LatestOrder(page, i, j, temporal)

\* Rows as the assumption has them.
RowsAre(rows, temporal) ==
  /\ TieRows \in Nat /\ rows \in Seq(ToSet(rows))
  /\ \A x \in ToSet(rows) :
       /\ {x.at[temporal.fromColumn], x.at[temporal.toColumn]} \subseteq Int \cup {Null}
       /\ x.table \in Int

\* The places of a topic's rows that have both times.
Own(rows, topic, temporal) ==
  {k \in DOMAIN rows : /\ rows[k].topic = topic
                       /\ Null \notin {rows[k].at[temporal.fromColumn], rows[k].at[temporal.toColumn]}}

\* Whatever order the statement chooses, its page is listed.
LEMMA TopicListing ==
  ASSUME NEW rows, NEW topic, NEW temporal, RowsAre(rows, temporal)
  PROVE  \E n, h : Listing(h, n, buildLatestHistorySql(rows, topic, temporal),
                           rows, Own(rows, topic, temporal), temporal)
<1> DEFINE own == Own(rows, topic, temporal)
           S == {x \in ToSet(rows) : x.topic = topic /\ Timed(x, temporal)}
           s == OwnRows(rows, topic, temporal)
           n == Len(s)
           page == buildLatestHistorySql(rows, topic, temporal)
<1>0. DOMAIN rows = 1 .. Len(rows) /\ Len(rows) \in Nat /\ TieRows \in Nat
  BY DEF RowsAre
<1>1. s = Filter(rows, S)
  BY DEF Filter, Filter, OwnRows
<1>2. /\ s \in Seq(ToSet(rows))
      /\ \E at : Keeps(s, at, rows, S, Len(rows))
  <2>1. rows \in Seq(ToSet(rows))
    BY DEF RowsAre
  <2> HIDE DEF S, s
  <2> QED
    BY <1>1, <2>1, FilterKeeps
<1>3. PICK at : Keeps(s, at, rows, S, Len(rows))
  BY <1>2
<1>4. ASSUME NEW x \in S PROVE Dated(x, temporal)
  BY DEF Timed, Dated, RowsAre
<1>5. Sortable(s, temporal)
  <2>1. n \in Nat /\ DOMAIN s = 1 .. n
    BY <1>2
  <2>2. \A i \in 1 .. n : s[i] \in S
    BY <1>3 DEF Keeps
  <2> HIDE DEF s, S
  <2> QED
    BY <1>4, <2>1, <2>2 DEF Sortable
<1>6. PageOf(page, s, temporal)
  BY <1>0, <1>5, PageIs
<1> HIDE DEF s, page
<1>7. n \in Nat /\ DOMAIN s = 1 .. n /\ \A i \in 1 .. n : s[i] \in S /\ Dated(s[i], temporal)
  BY <1>3, <1>5 DEF Sortable, Keeps
<1>8. PICK o : /\ InOrder(o, Places(s, temporal), 1 .. Len(s))
               /\ \A k \in 1 .. Len(page) : page[k] = s[o[k]]
  BY <1>6 DEF PageOf
<1>9. ASSUME NEW k PROVE k \in own <=> k \in DOMAIN rows /\ rows[k] \in S
  BY DEF ToSet, Timed, Own
<1>10. StrictOrder(Places(s, temporal), 1 .. n)
  BY <1>7, LatestIsOrder
<1>11. HasEach(o, n)
  <2>1. n \in Nat
    BY <1>7
  <2> QED
    BY <1>8, <1>10, <2>1, EnumerationHasAll, Zenon
<1> DEFINE h == [k \in 1 .. n |-> at[o[k]]]
<1>12. ASSUME NEW k \in 1 .. n PROVE h[k] \in own /\ rows[h[k]] = s[o[k]] /\ o[k] \in 1 .. n
  <2>1. o[k] \in 1 .. n
    BY <1>11 DEF HasEach
  <2>2. /\ at[o[k]] \in 1 .. Len(rows) /\ s[o[k]] = rows[at[o[k]]]
        /\ s[o[k]] \in S
    BY <2>1, <1>3, <1>7 DEF Keeps
  <2>3. h[k] \in DOMAIN rows /\ rows[h[k]] \in S /\ rows[h[k]] = s[o[k]]
    BY <2>2, <1>0
  <2> HIDE DEF h, S, own
  <2> QED
    BY <2>1, <2>3, <1>9
<1>13. ASSUME NEW i \in 1 .. n, NEW j \in 1 .. n, h[i] = h[j] PROVE i = j
  <2>1. at[o[i]] = at[o[j]] /\ o[i] \in 1 .. n /\ o[j] \in 1 .. n
    BY <1>13, <1>11 DEF HasEach
  <2>2. at[o[i]] \in 1 .. Len(rows)
    BY <2>1, <1>3 DEF Keeps
  <2>3. ~ o[i] < o[j] /\ ~ o[j] < o[i]
    BY <2>1, <2>2, <1>0, <1>3 DEF Keeps
  <2>4. o[i] = o[j]
    BY <2>1, <2>3, <1>7
  <2> QED
    BY <2>4, <1>11 DEF HasEach
<1>14. ASSUME NEW l \in own PROVE \E k \in 1 .. n : h[k] = l
  <2>1. l \in 1 .. Len(rows) /\ rows[l] \in S
    BY <1>0, <1>9
  <2>2. PICK i \in 1 .. n : at[i] = l
    BY <2>1, <1>3 DEF Keeps
  <2>3. PICK k \in 1 .. n : o[k] = i
    BY <1>11 DEF HasEach
  <2> QED
    BY <2>2, <2>3
<1> HIDE DEF h, S, own
<1>15. \A k \in 1 .. n : Dated(rows[h[k]], temporal)
  BY <1>7, <1>12
<1>16. ASSUME NEW i \in 1 .. n, NEW j \in 1 .. n, i < j
       PROVE  \/ Later(rows[h[i]], rows[h[j]], temporal)
              \/ SameInstant(rows[h[i]], rows[h[j]], temporal)
  <2> DEFINE r == [k \in 1 .. n |-> s[o[k]]]
  <2>1. \A k \in 1 .. n : r[k] = s[o[k]]
    OBVIOUS
  <2>2. r[i] = rows[h[i]] /\ r[j] = rows[h[j]]
    BY <1>12
  <2>3. /\ Len(s) \in Nat /\ \A k \in 1 .. Len(s) : Dated(s[k], temporal)
        /\ Len(s) \in 0 .. Len(s)
    BY <1>7
  <2> HIDE DEF r
  <2>4. \/ Later(r[i], r[j], temporal)
        \/ SameInstant(r[i], r[j], temporal)
    BY <1>8, <1>16, <2>1, <2>3, EnumerationOrders
  <2> QED
    BY <2>2, <2>4
<1>17. /\ Len(page) = IF TieRows + 1 <= n THEN TieRows + 1 ELSE n
       /\ DOMAIN page = 1 .. Len(page) /\ (page = <<>> <=> Len(page) = 0)
  BY <1>6 DEF PageOf
<1>18. Len(page) \in 0 .. n
  BY <1>0, <1>7, <1>17
<1>19. \A k \in 1 .. Len(page) : page[k] = rows[h[k]]
  BY <1>7, <1>8, <1>12, <1>18
<1>20. ASSUME NEW i \in 1 .. Len(page), NEW j \in 1 .. Len(page), i < j
       PROVE  LatestOrder(page, i, j, temporal)
  <2>1. Len(s) \in Nat /\ \A k \in 1 .. Len(s) : Dated(s[k], temporal)
    BY <1>7
  <2> QED
    BY <1>8, <1>18, <1>20, <2>1, EnumerationOrders
<1>21. n \in Nat
  BY <1>7
<1> HIDE DEF n
<1>22. Listing(h, n, page, rows, own, temporal)
  BY <1>12, <1>13, <1>14, <1>15, <1>16, <1>17, <1>19, <1>20, <1>21 DEF Listing
<1> QED
  BY <1>22 DEF page, own

\* The rows of the newest instant.
NewestOf(rows, own, temporal) ==
  {k \in own : \A l \in own :
     \/ rows[l].at[temporal.fromColumn] < rows[k].at[temporal.fromColumn]
     \/ /\ rows[l].at[temporal.fromColumn] = rows[k].at[temporal.fromColumn]
        /\ rows[l].at[temporal.toColumn] <= rows[k].at[temporal.toColumn]}

\* They are the first ones of a listing.
LEMMA NewestListed ==
  ASSUME NEW h, NEW n, NEW page, NEW rows, NEW own, NEW temporal,
         Listing(h, n, page, rows, own, temporal), n # 0
  PROVE  \E m \in 1 .. n :
           /\ NewestOf(rows, own, temporal) = {h[k] : k \in 1 .. m}
           /\ Cardinality(NewestOf(rows, own, temporal)) = m
           /\ \A k \in 1 .. n : SameInstant(rows[h[k]], rows[h[1]], temporal) <=> k <= m
<1> DEFINE newest == NewestOf(rows, own, temporal)
           r == [k \in 1 .. n |-> rows[h[k]]]
<1>1. /\ n \in Nat \ {0} /\ \A i, j \in 1 .. n : h[i] = h[j] => i = j
      /\ (\A k \in 1 .. n : h[k] \in own) /\ (\A l \in own : \E k \in 1 .. n : h[k] = l)
  BY DEF Listing
<1>2. \A k \in 1 .. n : r[k] = rows[h[k]]
  OBVIOUS
<1> HIDE DEF r
<1>3. /\ \A i \in 1 .. n : Dated(r[i], temporal)
      /\ \A i, j \in 1 .. n : i < j => \/ Later(r[i], r[j], temporal)
                                       \/ SameInstant(r[i], r[j], temporal)
  BY <1>2 DEF Listing
<1>4. PICK m \in 1 .. n : \A k \in 1 .. n :
         SameInstant(r[k], r[1], temporal) <=> k <= m
  BY <1>1, <1>3, TiesComeFirst
<1>5. ASSUME NEW j \in 1 .. m PROVE h[j] \in newest
  <2>1. j \in 1 .. n /\ j <= m /\ 1 \in 1 .. n
    BY <1>1
  <2>2. ASSUME NEW l \in own
        PROVE  \/ rows[l].at[temporal.fromColumn] < rows[h[j]].at[temporal.fromColumn]
               \/ /\ rows[l].at[temporal.fromColumn] = rows[h[j]].at[temporal.fromColumn]
                  /\ rows[l].at[temporal.toColumn] <= rows[h[j]].at[temporal.toColumn]
    <3>1. PICK k \in 1 .. n : h[k] = l
      BY <1>1
    <3>2. rows[l] = r[k] /\ rows[h[j]] = r[j]
      BY <1>2, <2>1, <3>1
    <3>3. SameInstant(r[j], r[1], temporal)
      BY <1>4, <2>1
    <3>4. k # 1 => \/ Later(r[1], r[k], temporal)
                   \/ SameInstant(r[1], r[k], temporal)
      BY <1>1, <1>3
    <3>5. Dated(r[1], temporal) /\ Dated(r[j], temporal) /\ Dated(r[k], temporal)
      BY <1>3, <2>1
    <3> QED
      BY <3>2, <3>3, <3>4, <3>5 DEF Later, SameInstant, Dated
  <2>3. h[j] \in own
    BY <1>1, <2>1
  <2> QED
    BY <2>2, <2>3 DEF NewestOf
<1>6. ASSUME NEW l \in newest PROVE \E k \in 1 .. m : h[k] = l
  <2>1. l \in own /\ 1 \in 1 .. n
    BY <1>1 DEF NewestOf
  <2>2. PICK k \in 1 .. n : h[k] = l
    BY <2>1, <1>1
  <2>3. rows[l] = r[k] /\ rows[h[1]] = r[1] /\ h[1] \in own
    BY <1>1, <1>2, <2>1, <2>2
  <2>4. \/ rows[h[1]].at[temporal.fromColumn] < rows[l].at[temporal.fromColumn]
        \/ /\ rows[h[1]].at[temporal.fromColumn] = rows[l].at[temporal.fromColumn]
           /\ rows[h[1]].at[temporal.toColumn] <= rows[l].at[temporal.toColumn]
    BY <2>3 DEF NewestOf
  <2>5. k # 1 => \/ Later(r[1], r[k], temporal)
                 \/ SameInstant(r[1], r[k], temporal)
    BY <1>1, <1>3
  <2>6. Dated(r[1], temporal) /\ Dated(r[k], temporal)
    BY <1>3, <2>1
  <2>7. SameInstant(r[k], r[1], temporal)
    BY <2>3, <2>4, <2>5, <2>6 DEF Later, SameInstant, Dated
  <2>8. k <= m
    BY <1>4, <2>7
  <2> QED
    BY <2>2, <2>8
<1> HIDE DEF newest
<1>7. newest = {h[k] : k \in 1 .. m}
  BY <1>5, <1>6
<1>8. Cardinality(newest) = m
  <2> DEFINE f == [k \in 1 .. m |-> h[k]]
  <2>1. \A i, j \in 1 .. m : f[i] = f[j] => i = j
    BY <1>1
  <2>2. f \in [1 .. m -> newest] /\ \A l \in newest : \E k \in 1 .. m : f[k] = l
    BY <1>7
  <2> HIDE DEF f
  <2>3. f \in Bijection(1 .. m, newest)
    BY <2>1, <2>2 DEF Bijection, Injection, Surjection, IsInjective
  <2>4. IsFiniteSet(1 .. m) /\ Cardinality(1 .. m) = m
    BY FS_Interval
  <2> QED
    BY <2>3, <2>4, FS_Bijection DEF ExistsBijection
<1>9. \A k \in 1 .. n : SameInstant(rows[h[k]], rows[h[1]], temporal) <=> k <= m
  BY <1>1, <1>2, <1>4
<1> QED
  BY <1>7, <1>8, <1>9 DEF newest

\* More than one value, or one that all have.
LEMMA ValuesAgree ==
  ASSUME NEW m \in Nat \ {0}, NEW v
  PROVE  LET V == {v[k] : k \in 1 .. m}
         IN  /\ Cardinality(V) > 1 <=> \E k \in 1 .. m : v[k] # v[1]
             /\ Cardinality(V) <= 1 => V = {v[1]}
<1> DEFINE V == {v[k] : k \in 1 .. m}
           f == [k \in 1 .. m |-> v[k]]
<1>1. IsFiniteSet(V)
  <2>1. f \in Surjection(1 .. m, V)
    BY DEF Surjection
  <2>2. IsFiniteSet(1 .. m)
    BY FS_Interval
  <2> HIDE DEF f, V
  <2> QED
    BY <2>1, <2>2, FS_Surjection
<1>2. v[1] \in V
  OBVIOUS
<1> HIDE DEF f
<1>3. CASE \E k \in 1 .. m : v[k] # v[1]
  <2>1. PICK k \in 1 .. m : v[k] # v[1]
    BY <1>3
  <2>2. {v[1], v[k]} \subseteq V
    OBVIOUS
  <2>3. Cardinality({v[1], v[k]}) = 2
    <3>1. IsFiniteSet({v[1]}) /\ Cardinality({v[1]}) = 1 /\ v[k] \notin {v[1]}
      BY <2>1, FS_Singleton
    <3>2. Cardinality({v[1]} \cup {v[k]}) = 2
      BY <3>1, FS_AddElement
    <3>3. {v[1]} \cup {v[k]} = {v[1], v[k]}
      OBVIOUS
    <3> QED
      BY <3>2, <3>3
  <2>4. Cardinality(V) \in Nat
    BY <1>1, FS_CardinalityType
  <2>5. Cardinality({v[1], v[k]}) <= Cardinality(V)
    <3> HIDE DEF V
    <3> QED
      BY <1>1, <2>2, FS_Subset
  <2> HIDE DEF V
  <2>6. Cardinality(V) > 1 /\ ~ Cardinality(V) <= 1
    BY <2>3, <2>4, <2>5
  <2> QED
    BY <1>3, <2>6 DEF V
<1>4. CASE \A k \in 1 .. m : v[k] = v[1]
  <2>1. V = {v[1]}
    BY <1>4, <1>2
  <2>2. Cardinality(V) = 1
    BY <2>1, FS_Singleton
  <2> HIDE DEF V
  <2>3. ~ Cardinality(V) > 1
    BY <2>2
  <2> QED
    BY <1>4, <2>1, <2>3 DEF V
<1> QED
  BY <1>3, <1>4

\* What is to be recovered when the newest rows are these.
Recovers(found, rows, newest, temporal) ==
  LET values == {rows[k].value : k \in newest}
  IN  IF Cardinality(newest) > TieRows \/ Cardinality(values) > 1
      THEN found = Conflict
      ELSE IF values \in {{}, {Null}} THEN found = NothingArchived
      ELSE /\ {found.value} = values
           /\ {found.timestamp} = {rows[k].at[temporal.fromColumn] : k \in newest}
           /\ found.selectedTables = {rows[k].table : k \in newest}

\* The decision on a page whose first row is the newest, and its ties are these.
Decision(page, ties, temporal) ==
  IF Cardinality(ties) > TieRows THEN Conflict
  ELSE IF \E i \in ties : page[i].value # page[1].value THEN Conflict
  ELSE IF page[1].value = Null THEN NothingArchived
  ELSE [kind |-> "value", value |-> page[1].value,
        timestamp |-> page[1].at[temporal.fromColumn],
        selectedTables |-> {page[i].table : i \in ties}]

Ties(page, temporal) == {i \in DOMAIN page : SameInstant(page[i], page[1], temporal)}

\* A page that is listed is decided by its rows of the newest instant.
LEMMA PageDecided ==
  ASSUME NEW h, NEW n, NEW page, NEW rows, NEW own, NEW temporal,
         TieRows \in Nat, Listing(h, n, page, rows, own, temporal), n # 0
  PROVE  selectArchivedLatest(page, temporal)
           = Decision(page, Ties(page, temporal), temporal)
<1>1. /\ Len(page) \in Nat \ {0} /\ DOMAIN page = 1 .. Len(page) /\ page # <<>>
      /\ \A k \in 1 .. Len(page) : k \in 1 .. n /\ page[k] = rows[h[k]]
  BY DEF Listing
<1>2. \A k \in 1 .. Len(page) : Dated(page[k], temporal)
  BY <1>1 DEF Listing
<1>3. \A i, j \in 1 .. Len(page) : i < j => LatestOrder(page, i, j, temporal)
  BY DEF Listing
<1>4. (CHOOSE i \in DOMAIN page :
         \A j \in DOMAIN page \ {i} : LatestOrder(page, i, j, temporal)) = 1
  BY <1>1, <1>2, <1>3, HeadIsNewest
<1> QED
  BY <1>1, <1>4 DEF selectArchivedLatest, Decision, Ties

\* What latestArchived answers of a topic, compared with all of its rows.
LEMMA NewestRecovered ==
  ASSUME NEW rows, NEW topic, NEW temporal, RowsAre(rows, temporal)
  PROVE  Recovers(latestArchived(rows, topic, temporal), rows,
                  NewestOf(rows, Own(rows, topic, temporal), temporal), temporal)
<1> DEFINE own == Own(rows, topic, temporal)
           newest == NewestOf(rows, own, temporal)
           page == buildLatestHistorySql(rows, topic, temporal)
           found == latestArchived(rows, topic, temporal)
           values == {rows[k].value : k \in newest}
<1>1. PICK n, h : Listing(h, n, page, rows, own, temporal)
  BY TopicListing
<1>2. found = selectArchivedLatest(page, temporal)
  BY DEF latestArchived
<1>3. TieRows \in Nat
  BY DEF RowsAre
<1> HIDE DEF page, own, found
<1>4. CASE n = 0
  <2>1. newest = {} /\ values = {}
    BY <1>1, <1>4 DEF Listing, NewestOf
  <2>2. found = NothingArchived
    BY <1>1, <1>2, <1>4 DEF Listing, selectArchivedLatest
  <2>3. Cardinality({}) = 0
    BY FS_EmptySet
  <2> HIDE DEF newest, values
  <2>4. ~ (Cardinality(newest) > TieRows \/ Cardinality(values) > 1)
    BY <1>3, <2>1, <2>3
  <2>5. values \in {{}, {Null}}
    BY <2>1
  <2> QED
    BY <2>2, <2>4, <2>5 DEF newest, values, own, found, Recovers
<1>5. CASE n # 0
  <2> DEFINE p == Len(page)
             ties == Ties(page, temporal)
             v == [k \in 1 .. n |-> rows[h[k]].value]
  <2>1. PICK m \in 1 .. n :
           /\ newest = {h[k] : k \in 1 .. m}
           /\ Cardinality(newest) = m
           /\ \A k \in 1 .. n : SameInstant(rows[h[k]], rows[h[1]], temporal) <=> k <= m
    BY <1>1, <1>5, NewestListed
  <2>2. found = Decision(page, ties, temporal)
    BY <1>1, <1>2, <1>3, <1>5, PageDecided
  <2>3. /\ p = IF TieRows + 1 <= n THEN TieRows + 1 ELSE n
        /\ n \in Nat \ {0} /\ DOMAIN page = 1 .. p
        /\ \A k \in 1 .. p : page[k] = rows[h[k]]
    BY <1>1, <1>5 DEF Listing
  <2> HIDE DEF p, v, newest, values
  <2>4. p \in 1 .. n /\ m \in Nat \ {0}
    BY <1>3, <2>3
  <2>5. ties = {i \in 1 .. p : i <= m}
    BY <2>1, <2>3, <2>4 DEF Ties
  <2> HIDE DEF ties
  <2>6. CASE m > TieRows
    <3>1. p = TieRows + 1
      BY <1>3, <2>3, <2>6
    <3>2. ties = 1 .. TieRows + 1
      BY <1>3, <2>4, <2>5, <2>6, <3>1
    <3>3. Cardinality(ties) = TieRows + 1
      <4>1. TieRows + 1 \in Nat
        BY <1>3
      <4> QED
        BY <3>2, <4>1, FS_Interval
    <3>4. Cardinality(ties) > TieRows
      BY <1>3, <3>3
    <3>5. found = Conflict
      BY <2>2, <3>4 DEF Decision
    <3>6. Cardinality(newest) > TieRows
      BY <2>1, <2>6
    <3> QED
      BY <3>5, <3>6 DEF newest, own, found, Recovers
  <2>7. CASE m <= TieRows
    <3>1. m <= p
      BY <1>3, <2>3, <2>4, <2>7
    <3>2. ties = 1 .. m
      BY <2>4, <2>5, <3>1
    <3>3. Cardinality(ties) = m
      <4>1. m \in Nat
        BY <2>4
      <4> QED
        BY <3>2, <4>1, FS_Interval
    <3>4. ~ Cardinality(ties) > TieRows /\ ~ Cardinality(newest) > TieRows
      BY <1>3, <2>1, <2>4, <2>7, <3>3
    <3>5. \A k \in 1 .. m : page[k] = rows[h[k]] /\ v[k] = page[k].value
      BY <2>3, <2>4, <3>1 DEF v
    <3>6. 1 \in 1 .. m
      BY <2>4
    <3>7. /\ values = {v[k] : k \in 1 .. m}
          /\ {rows[k].at[temporal.fromColumn] : k \in newest}
               = {page[k].at[temporal.fromColumn] : k \in 1 .. m}
          /\ {rows[k].table : k \in newest} = {page[k].table : k \in 1 .. m}
      BY <2>1, <3>5 DEF values
    <3>8. \A k \in 1 .. m : page[k].at[temporal.fromColumn] = page[1].at[temporal.fromColumn]
      BY <2>5, <3>2 DEF ties, Ties, SameInstant
    <3>9. /\ Cardinality(values) > 1 <=> \E k \in 1 .. m : v[k] # v[1]
          /\ Cardinality(values) <= 1 => values = {v[1]}
      BY <2>4, <3>7, ValuesAgree
    <3>10. CASE \E k \in 1 .. m : v[k] # v[1]
      <4>1. found = Conflict
        BY <2>2, <3>2, <3>4, <3>5, <3>6, <3>10 DEF Decision
      <4>2. Cardinality(values) > 1
        BY <3>9, <3>10
      <4> QED
        BY <4>1, <4>2 DEF values, newest, own, found, Recovers
    <3>11. CASE \A k \in 1 .. m : v[k] = v[1]
      <4>1. values = {page[1].value}
        BY <3>5, <3>6, <3>7, <3>11
      <4>2. ~ Cardinality(values) > 1
        BY <3>9, <3>11
      <4>3. found = IF page[1].value = Null THEN NothingArchived
                    ELSE [kind |-> "value", value |-> page[1].value,
                          timestamp |-> page[1].at[temporal.fromColumn],
                          selectedTables |-> {page[i].table : i \in ties}]
        BY <2>2, <3>2, <3>4, <3>5, <3>6, <3>11 DEF Decision
      <4>4. CASE page[1].value = Null
        <5>1. found = NothingArchived /\ values \in {{}, {Null}}
          BY <4>1, <4>3, <4>4
        <5> QED
          BY <3>4, <4>2, <5>1 DEF values, newest, own, found, Recovers
      <4>5. CASE page[1].value # Null
        <5>1. values \notin {{}, {Null}}
          BY <4>1, <4>5
        <5>2. /\ found.value = page[1].value
              /\ found.timestamp = page[1].at[temporal.fromColumn]
              /\ found.selectedTables = {page[i].table : i \in ties}
          BY <4>3, <4>5
        <5>3. /\ {found.value} = values
              /\ {found.timestamp} = {rows[k].at[temporal.fromColumn] : k \in newest}
              /\ found.selectedTables = {rows[k].table : k \in newest}
          <6>1. {found.value} = values
            BY <4>1, <5>2
          <6>2. {page[k].at[temporal.fromColumn] : k \in 1 .. m} = {page[1].at[temporal.fromColumn]}
            BY <3>6, <3>8
          <6>3. {found.timestamp} = {rows[k].at[temporal.fromColumn] : k \in newest}
            BY <3>7, <5>2, <6>2
          <6>4. found.selectedTables = {rows[k].table : k \in newest}
            BY <3>2, <3>7, <5>2
          <6> QED
            BY <6>1, <6>3, <6>4
        <5> QED
          BY <3>4, <4>2, <5>1, <5>3 DEF values, newest, own, found, Recovers
      <4> QED
        BY <4>4, <4>5
    <3> QED
      BY <3>10, <3>11
  <2>8. m \in Nat
    BY <2>4
  <2> QED
    BY <1>3, <2>6, <2>7, <2>8
<1>6. n \in Nat
  BY <1>1 DEF Listing
<1> QED
  BY <1>4, <1>5

\* The answer b to the question a is the one to give.
Answered(a, b) ==
  a.kind = "latest" =>
    LET temporal == resolveTemporalStrategy(a.question.columns, "auto")
    IN  Recovers(b, a.rows, NewestOf(a.rows, Own(a.rows, a.question.topic, temporal), temporal), temporal)

\* The property says so of the question and the answer.
LEMMA LatestExactIs == LatestExact <=> Answered(asked, answer)
<1> DEFINE temporal == resolveTemporalStrategy(asked.question.columns, "auto")
           from(k) == asked.rows[k].at[temporal.fromColumn]
           to(k)   == asked.rows[k].at[temporal.toColumn]
           own     == {k \in DOMAIN asked.rows : /\ asked.rows[k].topic = asked.question.topic
                                             /\ Null \notin {from(k), to(k)}}
           newest  == {k \in own : \A l \in own :
                      from(l) < from(k) \/ (from(l) = from(k) /\ to(l) <= to(k))}
           values  == {asked.rows[k].value : k \in newest}
<1>1. own = Own(asked.rows, asked.question.topic, temporal)
  BY DEF Own
<1>2. newest = NewestOf(asked.rows, own, temporal)
  BY DEF NewestOf
<1>3. LatestExact <=> (asked.kind = "latest" =>
       IF Cardinality(newest) > TieRows \/ Cardinality(values) > 1 THEN answer = Conflict
        ELSE IF values \in {{}, {Null}} THEN answer = NothingArchived
        ELSE /\ {answer.value} = values
             /\ {answer.timestamp} = {from(k) : k \in newest}
             /\ answer.selectedTables = {asked.rows[k].table : k \in newest})
  BY DEF LatestExact
<1>4. Answered(asked, answer) <=> (asked.kind = "latest" =>
       IF Cardinality(newest) > TieRows \/ Cardinality(values) > 1 THEN answer = Conflict
        ELSE IF values \in {{}, {Null}} THEN answer = NothingArchived
        ELSE /\ {answer.value} = values
             /\ {answer.timestamp} = {from(k) : k \in newest}
             /\ answer.selectedTables = {asked.rows[k].table : k \in newest})
  <2> HIDE DEF newest
  <2> QED BY <1>1, <1>2 DEF Answered, Recovers
<1> QED BY <1>3, <1>4

\* The archived value that is recovered is the one that every row of the topic's newest
\* instant has, in whichever tables and order the rows are; rows that disagree, and more
\* than TieRows of them, are refused (buildLatestHistorySql, selectArchivedLatest).
THEOREM NewestAlwaysRecovered == AnswersSpec => []LatestExact
<1> DEFINE strategy(q) == resolveTemporalStrategy(q.columns, "auto")
<1>1. ASSUME NEW rows \in ArchiveRows, NEW q \in LatestQuestions
      PROVE  RowsAre(rows, strategy(q))
  <2> DEFINE temporal == strategy(q)
  <2>1. /\ TieRows \in Nat /\ rows \in Seq(ToSet(rows))
        /\ \A x \in ToSet(rows) : Times(x, {temporal.fromColumn, temporal.toColumn})
        /\ \A x \in ToSet(rows) : x.table \in Int
    BY ArchiveAssumption DEF RowsFit
  <2> HIDE DEF temporal
  <2>2. ASSUME NEW x \in ToSet(rows)
        PROVE  {x.at[temporal.fromColumn], x.at[temporal.toColumn]} \subseteq Int \cup {Null}
    BY <2>1 DEF Times
  <2> QED
    BY <2>1, <2>2 DEF RowsAre, temporal
<1> HIDE DEF strategy
<1>2. AnswersInit => LatestExact
  BY LatestExactIs DEF AnswersInit, Idle, Answered
<1>3. ASSUME LatestExact, [AnswersNext]_<<asked, answer>>
      PROVE  LatestExact'
  <2>0. LatestExact' <=> Answered(asked, answer)'
    BY LatestExactIs, PTL
  <2>1. CASE UNCHANGED <<asked, answer>>
    <3>1. Answered(asked, answer) => Answered(asked, answer)'
      BY <2>1 DEF Answered
    <3> QED
      BY <1>3, <2>0, <3>1, LatestExactIs
  <2>2. ASSUME NEW rows \in ArchiveRows, NEW q \in LatestQuestions, RecoverLatest(rows, q)
        PROVE  LatestExact'
    <3>1. /\ asked' = [kind |-> "latest", rows |-> rows, question |-> q]
          /\ answer' = latestArchived(rows, q.topic, strategy(q))
      BY <2>2 DEF RecoverLatest, strategy
    <3>2. Recovers(answer', rows, NewestOf(rows, Own(rows, q.topic, strategy(q)), strategy(q)),
                   strategy(q))
      BY <1>1, <3>1, NewestRecovered
    <3>3. asked'.rows = rows /\ asked'.question = q
      BY <3>1
    <3>4. Answered(asked, answer)'
      BY <3>2, <3>3 DEF Answered, strategy
    <3> QED
      BY <2>0, <3>4
  <2>3. ASSUME asked'.kind # "latest" PROVE LatestExact'
    BY <2>0, <2>3 DEF Answered
  <2>4. \/ \E rows \in ArchiveRows, q \in LatestQuestions : RecoverLatest(rows, q)
        \/ asked'.kind # "latest"
        \/ UNCHANGED <<asked, answer>>
    <3>1. ASSUME NEW w, NEW q, ReadEntity(w, q) PROVE asked'.kind # "latest"
      BY <3>1 DEF ReadEntity
    <3>2. ASSUME NEW r, NEW q, ReadCounter(r, q) PROVE asked'.kind # "latest"
      BY <3>2 DEF ReadCounter
    <3>3. ASSUME NEW r, NEW q, ExportRows(r, q) PROVE asked'.kind # "latest"
      BY <3>3 DEF ExportRows
    <3>4. ASSUME NEW r, NEW q, ResolveTables(r, q) PROVE asked'.kind # "latest"
      BY <3>4 DEF ResolveTables
    <3>5. ASSUME NEW r, NEW q, NormalizeRange(r, q) PROVE asked'.kind # "latest"
      BY <3>5 DEF NormalizeRange
    <3>6. ASSUME Done PROVE asked'.kind # "latest"
      BY <3>6 DEF Done, Idle
    <3> QED
      BY <1>3, <3>1, <3>2, <3>3, <3>4, <3>5, <3>6 DEF AnswersNext, Ask
  <2> QED
    BY <2>1, <2>2, <2>3, <2>4
<1> QED
  BY <1>2, <1>3, PTL DEF AnswersSpec, answerVars

-----------------------------------------------------------------------------
(* Exports: ORDER BY and LIMIT permute the rows that WHERE keeps, so that  *)
(* a page that was not cut off has the rows of its range, one by one.      *)

\* Data has the rows at the places own, each once.
Holds(g, data, rows, own) ==
  /\ data \in Seq(ToSet(rows))
  /\ \A i, j \in 1 .. Len(data) : g[i] = g[j] => i = j
  /\ (\A k \in 1 .. Len(data) : g[k] \in own) /\ (\A l \in own : \E k \in 1 .. Len(data) : g[k] = l)
  /\ \A k \in 1 .. Len(data) : data[k] = rows[g[k]]

\* They are all there, in whichever order.
Whole(data, rows, own) == \E g : Holds(g, data, rows, own)

\* So it has each row as often.
AsOften(data, rows, own) ==
  \A r \in ToSet(rows) \cup ToSet(data) :
    Cardinality({k \in own : rows[k] = r}) = Cardinality({k \in DOMAIN data : data[k] = r})

LEMMA HeldAsOften ==
  ASSUME NEW data, NEW rows, NEW own, Whole(data, rows, own)
  PROVE  AsOften(data, rows, own)
<1> SUFFICES ASSUME NEW r
             PROVE  Cardinality({k \in own : rows[k] = r})
                      = Cardinality({k \in DOMAIN data : data[k] = r})
  BY DEF AsOften
<1>0. PICK g : Holds(g, data, rows, own)
  BY DEF Whole
<1> DEFINE A == {k \in 1 .. Len(data) : data[k] = r}
           B == {k \in own : rows[k] = r}
           f == [k \in A |-> g[k]]
<1>1. /\ Len(data) \in Nat /\ DOMAIN data = 1 .. Len(data)
      /\ \A i, j \in 1 .. Len(data) : g[i] = g[j] => i = j
      /\ \A k \in 1 .. Len(data) : g[k] \in own /\ data[k] = rows[g[k]]
      /\ \A l \in own : \E k \in 1 .. Len(data) : g[k] = l
  BY <1>0 DEF Holds
<1>2. f \in [A -> B]
  BY <1>1
<1>3. \A i, j \in A : f[i] = f[j] => i = j
  BY <1>1
<1>4. \A l \in B : \E k \in A : f[k] = l
  BY <1>1
<1> HIDE DEF f
<1>5. f \in Bijection(A, B)
  BY <1>2, <1>3, <1>4 DEF Bijection, Injection, Surjection, IsInjective
<1>6. IsFiniteSet(A)
  <2>1. IsFiniteSet(1 .. Len(data)) /\ A \subseteq 1 .. Len(data)
    BY <1>1, FS_Interval
  <2> HIDE DEF A
  <2> QED
    BY <2>1, FS_Subset
<1> HIDE DEF A, B
<1>7. Cardinality(A) = Cardinality(B)
  BY <1>5, <1>6, FS_Bijection DEF ExistsBijection
<1> QED
  BY <1>1, <1>7 DEF A, B

\* Two pages with different rows have them all together.
LEMMA PagesJoin ==
  ASSUME NEW s, NEW t, NEW rows, NEW own, NEW other,
         Whole(s, rows, own), Whole(t, rows, other), own \cap other = {}
  PROVE  Whole(s \o t, rows, own \cup other)
<1>0. PICK g, h : Holds(g, s, rows, own) /\ Holds(h, t, rows, other)
  BY DEF Whole
<1> DEFINE n == Len(s)
           m == Len(t)
           f == [k \in 1 .. n + m |-> IF k <= n THEN g[k] ELSE h[k - n]]
           T == ToSet(rows)
<1>1. s \in Seq(T) /\ t \in Seq(T) /\ n \in Nat /\ m \in Nat
  BY <1>0 DEF Holds
<1> HIDE DEF T
<1>2. /\ s \o t \in Seq(T) /\ Len(s \o t) = n + m
      /\ \A k \in 1 .. n + m : (s \o t)[k] = IF k <= n THEN s[k] ELSE t[k - n]
  BY <1>1
<1>3. /\ \A i, j \in 1 .. n : g[i] = g[j] => i = j
      /\ \A k \in 1 .. n : g[k] \in own /\ s[k] = rows[g[k]]
      /\ \A l \in own : \E k \in 1 .. n : g[k] = l
      /\ \A i, j \in 1 .. m : h[i] = h[j] => i = j
      /\ \A k \in 1 .. m : h[k] \in other /\ t[k] = rows[h[k]]
      /\ \A l \in other : \E k \in 1 .. m : h[k] = l
  BY <1>0 DEF Holds
<1> HIDE DEF n, m
<1>4. /\ \A k \in 1 .. n : k \in 1 .. n + m /\ f[k] = g[k] /\ (s \o t)[k] = s[k]
      /\ \A k \in 1 .. m : /\ n + k \in 1 .. n + m /\ f[n + k] = h[k]
                           /\ (s \o t)[n + k] = t[k]
  <2>1. ASSUME NEW k \in 1 .. n PROVE k \in 1 .. n + m /\ f[k] = g[k] /\ (s \o t)[k] = s[k]
    BY <1>1, <1>2
  <2>2. ASSUME NEW k \in 1 .. m
        PROVE  n + k \in 1 .. n + m /\ f[n + k] = h[k] /\ (s \o t)[n + k] = t[k]
    <3>1. n + k \in 1 .. n + m /\ ~ n + k <= n /\ (n + k) - n = k
      BY <1>1
    <3> QED
      BY <3>1, <1>2
  <2> QED
    BY <2>1, <2>2
<1>5. \A k \in 1 .. n + m : k \in 1 .. n \/ \E i \in 1 .. m : k = n + i
  <2>1. ASSUME NEW k \in 1 .. n + m, ~ k <= n PROVE k - n \in 1 .. m /\ k = n + (k - n)
    BY <1>1, <2>1
  <2> QED
    BY <1>1, <2>1
<1> HIDE DEF f
<1>6. ASSUME NEW k \in 1 .. n + m
      PROVE  f[k] \in own \cup other /\ (s \o t)[k] = rows[f[k]]
  <2>1. CASE k \in 1 .. n
    BY <2>1, <1>3, <1>4
  <2>2. ASSUME NEW i \in 1 .. m, k = n + i
        PROVE  f[k] \in own \cup other /\ (s \o t)[k] = rows[f[k]]
    <3>1. f[k] = h[i] /\ (s \o t)[k] = t[i]
      BY <2>2, <1>4
    <3> QED
      BY <3>1, <1>3
  <2> QED
    BY <2>1, <2>2, <1>5
<1>7. \A l \in own \cup other : \E k \in 1 .. n + m : f[k] = l
  BY <1>3, <1>4
<1>8. ASSUME NEW i \in 1 .. n + m, NEW j \in 1 .. n + m, f[i] = f[j] PROVE i = j
  <2>1. CASE i \in 1 .. n /\ j \in 1 .. n
    BY <1>8, <2>1, <1>3, <1>4
  <2>2. ASSUME NEW a \in 1 .. m, NEW b \in 1 .. m, i = n + a, j = n + b PROVE i = j
    BY <1>8, <2>2, <1>3, <1>4
  <2>3. ASSUME NEW a \in 1 .. n, NEW b \in 1 .. m, f[a] = f[n + b] PROVE FALSE
    BY <2>3, <1>3, <1>4
  <2> QED
    BY <1>5, <1>8, <2>1, <2>2, <2>3
<1>9. Holds(f, s \o t, rows, own \cup other)
  BY <1>2, <1>6, <1>7, <1>8 DEF Holds, T
<1> QED
  BY <1>9 DEF Whole

\* The places of a topic's rows with a time in [from, to).
Between(rows, topic, point, from, to) ==
  {k \in DOMAIN rows : rows[k].topic = topic /\ rows[k].at[point] \in from .. (to - 1)}

\* Reading by that time, newest first.
Strategy(point) == [fromColumn |-> point, toColumn |-> point, orderBy |-> <<point>>]

\* Where the rows have times, ORDER BY one time is a strict order.
LEMMA BeforeIsOrder ==
  ASSUME NEW s, NEW point, Len(s) \in Nat, \A i \in 1 .. Len(s) : s[i].at[point] \in Int
  PROVE  StrictOrder({p \in (1 .. Len(s)) \X (1 .. Len(s)) : Before(s, p[1], p[2], <<point>>)},
                     1 .. Len(s))
<1> DEFINE D == 1 .. Len(s)
           R == {p \in D \X D : Before(s, p[1], p[2], <<point>>)}
           f == [i \in D |-> s[i].at[point]]
           B(i, j) == f[i] > f[j] \/ (f[i] = f[j] /\ i < j)
           key == <<point>>
<1>1. key[1] = point /\ DOMAIN key = {1} /\ 1 .. (1 - 1) = {}
  OBVIOUS
<1>2. ASSUME NEW i \in D, NEW j \in D PROVE <<i, j>> \in R <=> B(i, j)
  <2>1. <<i, j>> \in R <=> Before(s, i, j, key)
    OBVIOUS
  <2> HIDE DEF key, R
  <2>2. Before(s, i, j, key) <=> \/ s[i].at[point] > s[j].at[point]
                                 \/ s[i].at[point] = s[j].at[point] /\ i < j
    BY <1>1 DEF Before
  <2>3. f[i] = s[i].at[point] /\ f[j] = s[j].at[point]
    OBVIOUS
  <2> QED
    BY <2>1, <2>2, <2>3
<1>3. f \in [D -> Int]
  OBVIOUS
<1> HIDE DEF f
<1>4. \A i \in D : ~ B(i, i)
  BY <1>3
<1>5. \A i, j, k \in D : B(i, j) /\ B(j, k) => B(i, k)
  BY <1>3
<1>6. \A i, j \in D : i = j \/ B(i, j) \/ B(j, i)
  BY <1>3
<1> HIDE DEF B
<1>7. StrictOrder(R, D)
  <2> HIDE DEF R
  <2> QED
    BY <1>2, <1>4, <1>5, <1>6 DEF StrictOrder
<1> QED
  BY <1>7

\* LIMIT takes the first rows, or all of them.
LEMMA LimitedIs ==
  ASSUME NEW T, NEW s \in Seq(T), NEW limit \in Nat
  PROVE  /\ Len(Limited(s, limit)) = IF limit <= Len(s) THEN limit ELSE Len(s)
         /\ Len(s) <= limit => Limited(s, limit) = s
<1> DEFINE m == IF limit <= Len(s) THEN limit ELSE Len(s)
<1>1. Min({limit, Len(s)}) = m
  BY SmallerOf
<1>2. Limited(s, limit) = SubSeq(s, 1, m)
  BY <1>1 DEF Limited
<1>3. m \in 0 .. Len(s) /\ (Len(s) <= limit => m = Len(s))
  OBVIOUS
<1>4. SubSeq(s, 1, Len(s)) = s
  OBVIOUS
<1> HIDE DEF m
<1>5. Len(SubSeq(s, 1, m)) = m
  BY <1>3
<1> QED
  BY <1>2, <1>3, <1>4, <1>5 DEF m

\* The rows have that time or none.
Stamped(rows, point) == /\ rows \in Seq(ToSet(rows)) /\ Null \notin Int
                        /\ \A r \in ToSet(rows) : r.at[point] \in Int \cup {Null}

\* The page of an export by that time.
PageFrom(rows, topic, point, from, to, limit, dedupe, columns) ==
  completeRawExportPage(
    buildDataSql(rows, topic, [from |-> from, to |-> to, toExclusive |-> TRUE],
                 limit + 1, dedupe, columns, Strategy(point)), limit)

\* A page that was not cut off has every row of its range.
LEMMA PageWhole ==
  ASSUME NEW rows, NEW topic, NEW point, NEW from \in Int, NEW to \in Int,
         NEW limit \in Nat, NEW dedupe, NEW columns, ~ dedupe, Stamped(rows, point),
         ~ PageFrom(rows, topic, point, from, to, limit, dedupe, columns).truncated
  PROVE  Whole(PageFrom(rows, topic, point, from, to, limit, dedupe, columns).data,
               rows, Between(rows, topic, point, from, to))
<1> DEFINE page == PageFrom(rows, topic, point, from, to, limit, dedupe, columns)
           range == [from |-> from, to |-> to, toExclusive |-> TRUE]
           T == ToSet(rows)
           S == {r \in T : r.topic = topic /\ Overlaps(r, range, Strategy(point))}
           s == Filter(rows, S)
           n == Len(s)
           R == {p \in (1 .. n) \X (1 .. n) : Before(s, p[1], p[2], <<point>>)}
           o == OrderOf(s, R)
           sorted == [k \in 1 .. n |-> s[o[k]]]
<1>0. /\ rows \in Seq(ToSet(rows)) /\ Null \notin Int
      /\ \A r \in ToSet(rows) : r.at[point] \in Int \cup {Null}
  BY DEF Stamped
<1>1. s \in Seq(T) /\ \E at : Keeps(s, at, rows, S, Len(rows))
  <2> HIDE DEF S
  <2> QED
    BY <1>0, FilterKeeps
<1>2. PICK at : Keeps(s, at, rows, S, Len(rows))
  BY <1>1
<1>3. ASSUME NEW r \in T
      PROVE  r \in S <=> r.topic = topic /\ r.at[point] \in from .. (to - 1)
  <2>1. Overlaps(r, range, Strategy(point)) <=>
          r.at[point] # Null /\ r.at[point] >= from /\ r.at[point] < to
    BY DEF Overlaps, Timed, Strategy
  <2>2. r.at[point] \in Int \cup {Null}
    BY <1>0
  <2> QED
    BY <1>0, <2>1, <2>2
<1> HIDE DEF S
<1>4. n \in Nat /\ DOMAIN s = 1 .. n /\ \A i \in 1 .. n : s[i] \in S /\ s[i] \in T
  BY <1>1, <1>2 DEF Keeps
<1>5. \A i \in 1 .. n : s[i].at[point] \in Int
  BY <1>3, <1>4
<1>6. buildDataSql(rows, topic, range, limit + 1, dedupe, columns, Strategy(point))
        = Limited(Ordered(s, R), limit + 1)
  BY <1>4 DEF buildDataSql, buildSourceSql, Deduped, canApplyDedupe, buildWhere, Newest, Strategy, S
<1> HIDE DEF page
<1>7. StrictOrder(R, 1 .. n)
  BY <1>4, <1>5, BeforeIsOrder
<1> HIDE DEF s
<1>8. InOrder(o, R, 1 .. n) /\ Ordered(s, R) = sorted
  <2> HIDE DEF R
  <2> QED
    BY <1>4, <1>7, OrderedIs
<1>9. HasEach(o, n)
  <2> HIDE DEF R, o, n
  <2> QED
    BY <1>4, <1>7, <1>8, EnumerationHasAll
<1> HIDE DEF o
<1>10. sorted \in Seq(T) /\ Len(sorted) = n /\ \A k \in 1 .. n : sorted[k] = s[o[k]]
  <2>1. \A k \in 1 .. n : s[o[k]] \in T
    BY <1>4, <1>9 DEF HasEach
  <2>2. sorted \in [1 .. n -> T] /\ n \in Nat
    BY <1>4, <2>1
  <2> HIDE DEF n, T
  <2> QED
    BY <2>2
<1> HIDE DEF sorted, n, R
<1>11. page.data = sorted
  <2>1. /\ page.data = Limited(Limited(sorted, limit + 1), limit)
        /\ ~ Len(Limited(sorted, limit + 1)) > limit
    BY <1>6, <1>8 DEF page, PageFrom, completeRawExportPage
  <2>2. sorted \in Seq(T) /\ limit + 1 \in Nat /\ Len(sorted) = n /\ n \in Nat
    BY <1>4, <1>10
  <2>3. Len(Limited(sorted, limit + 1)) = IF limit + 1 <= n THEN limit + 1 ELSE n
    BY <2>2, LimitedIs
  <2>4. n <= limit
    BY <2>1, <2>2, <2>3
  <2>5. Limited(sorted, limit + 1) = sorted /\ Limited(sorted, limit) = sorted
    BY <2>2, <2>4, LimitedIs
  <2> QED
    BY <2>1, <2>5
<1> DEFINE g == [k \in 1 .. n |-> at[o[k]]]
           own == Between(rows, topic, point, from, to)
<1>12. DOMAIN rows = 1 .. Len(rows) /\ Len(rows) \in Nat /\ \A k \in 1 .. Len(rows) : rows[k] \in T
  BY <1>0 DEF ToSet
<1>13. ASSUME NEW k PROVE k \in own <=> k \in 1 .. Len(rows) /\ rows[k] \in S
  BY <1>3, <1>12 DEF Between
<1>14. ASSUME NEW k \in 1 .. n PROVE g[k] \in own /\ sorted[k] = rows[g[k]]
  <2>1. o[k] \in 1 .. n
    BY <1>9 DEF HasEach
  <2>2. at[o[k]] \in 1 .. Len(rows) /\ s[o[k]] = rows[at[o[k]]] /\ s[o[k]] \in S
    BY <2>1, <1>2, <1>4 DEF Keeps, n
  <2> HIDE DEF own
  <2> QED
    BY <2>2, <1>10, <1>13
<1>15. ASSUME NEW i \in 1 .. n, NEW j \in 1 .. n, g[i] = g[j] PROVE i = j
  <2>1. at[o[i]] = at[o[j]] /\ o[i] \in 1 .. n /\ o[j] \in 1 .. n
    BY <1>15, <1>9 DEF HasEach
  <2>2. at[o[i]] \in 1 .. Len(rows)
    BY <2>1, <1>2 DEF Keeps, n
  <2>3. ~ o[i] < o[j] /\ ~ o[j] < o[i]
    BY <2>1, <2>2, <1>12, <1>2 DEF Keeps, n
  <2>4. o[i] = o[j]
    BY <2>1, <2>3, <1>4
  <2> QED
    BY <2>4, <1>9 DEF HasEach
<1>16. ASSUME NEW l \in own PROVE \E k \in 1 .. n : g[k] = l
  <2>1. l \in 1 .. Len(rows) /\ rows[l] \in S
    BY <1>13
  <2>2. PICK i \in 1 .. n : at[i] = l
    BY <2>1, <1>2 DEF Keeps, n
  <2>3. PICK k \in 1 .. n : o[k] = i
    BY <1>9 DEF HasEach
  <2> QED
    BY <2>2, <2>3
<1> HIDE DEF g, own
<1>17. Holds(g, sorted, rows, own)
  BY <1>10, <1>14, <1>15, <1>16 DEF Holds
<1> QED
  BY <1>11, <1>17 DEF own, page, Whole

\* Two exports that meet have all rows of the range.
LEMMA ExportsMeet ==
  ASSUME NEW rows \in ArchiveRows, NEW q \in ExportQuestions, RowsFit,
         NEW first, NEW second,
         first = ExportPage(rows, q.topic, q.from, q.middle, q.limit, q.dedupe, q.columns, MaxLookback),
         second = ExportPage(rows, q.topic, q.middle, q.to, q.limit, q.dedupe, q.columns, MaxLookback),
         first # Refused, second # Refused, ~ first.truncated, ~ second.truncated
  PROVE  Whole(first.data \o second.data, rows,
               Between(rows, q.topic, resolvePointTimeColumn(q.columns), q.from, q.to))
<1> DEFINE point == resolvePointTimeColumn(q.columns)
           page(a, b) == PageFrom(rows, q.topic, point, a, b, q.limit, q.dedupe, q.columns)
<1>1. /\ rows \in Seq(ToSet(rows)) /\ Null \notin Int /\ q.limit \in Nat
      /\ q.from \in Int /\ q.middle \in Int /\ q.to \in Int
      /\ \A r \in ToSet(rows) : Times(r, {point} \ {Null})
  BY DEF RowsFit
<1>2. ASSUME NEW a \in Int, NEW b \in Int, NEW p, p # Refused,
             p = ExportPage(rows, q.topic, a, b, q.limit, q.dedupe, q.columns, MaxLookback)
      PROVE  p = page(a, b) /\ a < b /\ point # Null /\ ~ q.dedupe
  <2>1. /\ rawExportRange(a, b, q.dedupe, MaxLookback) # Refused
        /\ resolveTemporalStrategy(q.columns, "timestamp") # Refused
    BY <1>2 DEF ExportPage
  <2>2. /\ ~ q.dedupe /\ a < b
        /\ rawExportRange(a, b, q.dedupe, MaxLookback)
             = [from |-> a, to |-> b, toExclusive |-> TRUE]
    BY <2>1 DEF rawExportRange
  <2>3. point # Null /\ resolveTemporalStrategy(q.columns, "timestamp") = Strategy(point)
    BY <2>1 DEF resolveTemporalStrategy, IntervalChosen, Strategy
  <2> QED
    BY <1>2, <2>1, <2>2, <2>3 DEF ExportPage, PageFrom
<1>3. /\ first = page(q.from, q.middle) /\ second = page(q.middle, q.to)
      /\ q.from < q.middle /\ q.middle < q.to /\ point # Null /\ ~ q.dedupe
  BY <1>1, <1>2
<1> HIDE DEF point
<1>4. Stamped(rows, point)
  <2>1. \A r \in ToSet(rows) : r.at[point] \in Int \cup {Null}
    BY <1>1, <1>3 DEF Times
  <2> QED
    BY <1>1, <2>1 DEF Stamped
<1>5. Whole(first.data, rows, Between(rows, q.topic, point, q.from, q.middle))
  BY <1>1, <1>3, <1>4, PageWhole
<1>6. Whole(second.data, rows, Between(rows, q.topic, point, q.middle, q.to))
  BY <1>1, <1>3, <1>4, PageWhole
<1> HIDE DEF page
<1>7. /\ Between(rows, q.topic, point, q.from, q.middle)
           \cap Between(rows, q.topic, point, q.middle, q.to) = {}
      /\ Between(rows, q.topic, point, q.from, q.middle)
           \cup Between(rows, q.topic, point, q.middle, q.to)
           = Between(rows, q.topic, point, q.from, q.to)
  BY <1>1, <1>3 DEF Between
<1> QED
  BY <1>5, <1>6, <1>7, PagesJoin DEF point

\* The larger of two numbers.
LEMMA LargerOf ==
  ASSUME NEW a \in Int, NEW b \in Int
  PROVE  Max({a, b}) = IF a <= b THEN b ELSE a
<1> DEFINE m == IF a <= b THEN b ELSE a
           high == CHOOSE x \in {a, b} : \A y \in {a, b} : x >= y
<1>1. Max({a, b}) = high
  BY DEF Max
<1>2. m \in {a, b} /\ \A y \in {a, b} : m >= y
  OBVIOUS
<1>3. high \in {a, b} /\ \A y \in {a, b} : high >= y
  BY <1>2
<1> HIDE DEF high
<1> QED
  BY <1>1, <1>2, <1>3

\* A range that is accepted is in order and no longer than permitted.
LEMMA RangeAccepted ==
  ASSUME NEW from \in {Null} \cup (0 .. Now), NEW to \in {Null} \cup (0 .. Now), NEW range,
         range = normalizeRange(from, to, Now, DefaultLookback, MaxLookback), range # Refused
  PROVE  range.from <= range.to /\ range.to - range.from <= MaxLookback
<1> DEFINE end   == IF to = Null THEN Now ELSE to
           start == IF from = Null THEN end - DefaultLookback ELSE from
           first == IF start <= end THEN start ELSE end
           last  == IF start <= end THEN end ELSE start
<1>1. MaxLookback \in Nat /\ DefaultLookback \in Nat /\ Now \in Nat
  BY RangeAssumption
<1>2. end \in Int /\ start \in Int
  BY <1>1
<1>3. Min({start, end}) = first /\ Max({start, end}) = last
  BY <1>2, SmallerOf, LargerOf
<1>4. range = IF last - first <= MaxLookback
              THEN [from |-> first, to |-> last, toExclusive |-> FALSE]
              ELSE IF from # Null \/ to # Null THEN Refused
              ELSE [from |-> last - MaxLookback, to |-> last, toExclusive |-> FALSE]
  BY <1>3 DEF normalizeRange
<1>5. first \in Int /\ last \in Int /\ first <= last
  BY <1>2
<1> HIDE DEF first, last
<1>6. CASE last - first <= MaxLookback
  BY <1>4, <1>5, <1>6
<1>7. CASE ~ last - first <= MaxLookback
  <2>1. range.from = last - MaxLookback /\ range.to = last
    BY <1>4, <1>7
  <2> QED
    BY <1>1, <1>5, <2>1
<1> QED
  BY <1>6, <1>7

\* What the property says of a question and its answer.
Exported(a, b) ==
  /\ a.kind = "export" /\ Refused \notin ToSet(b) =>
       LET q    == a.question
           own  == Between(a.rows, q.topic, resolvePointTimeColumn(q.columns), q.from, q.to)
           data == b[1].data \o b[2].data
       IN  ~ b[1].truncated /\ ~ b[2].truncated => AsOften(data, a.rows, own)
  /\ a.kind = "range" /\ b # Refused => b.from <= b.to /\ b.to - b.from <= MaxLookback

\* The definitions above name its parts.
LEMMA ExportExactIs == ExportExact <=> Exported(asked, answer)
BY DEF ExportExact, Exported, Between, AsOften

\* An export that is divided at any instant has every row of its range exactly once when
\* no part was cut off, and an accepted range is in order and no longer than permitted
\* (rawExportRange, completeRawExportPage, normalizeRange).
THEOREM ExportAlwaysExact == AnswersSpec => []ExportExact
<1>1. AnswersInit => ExportExact
  BY ExportExactIs DEF AnswersInit, Idle, Exported
<1>2. ASSUME ExportExact, [AnswersNext]_<<asked, answer>>
      PROVE  ExportExact'
  <2>0. ExportExact' <=> Exported(asked, answer)'
    BY ExportExactIs, PTL
  <2>1. CASE UNCHANGED <<asked, answer>>
    <3>1. Exported(asked, answer) => Exported(asked, answer)'
      BY <2>1 DEF Exported
    <3> QED
      BY <1>2, <2>0, <3>1, ExportExactIs
  <2>2. ASSUME NEW rows \in ArchiveRows, NEW q \in ExportQuestions, ExportRows(rows, q)
        PROVE  ExportExact'
    <3> DEFINE page(a, b) == ExportPage(rows, q.topic, a, b, q.limit, q.dedupe, q.columns, MaxLookback)
               first == page(q.from, q.middle)
               second == page(q.middle, q.to)
               own == Between(rows, q.topic, resolvePointTimeColumn(q.columns), q.from, q.to)
               data == first.data \o second.data
    <3>1. asked' = [kind |-> "export", rows |-> rows, question |-> q] /\ answer' = <<first, second>>
      BY <2>2 DEF ExportRows
    <3> HIDE DEF first, second
    <3>2. /\ asked'.kind = "export" /\ asked'.rows = rows /\ asked'.question = q
          /\ answer'[1] = first /\ answer'[2] = second
      BY <3>1
    <3>3. Refused \notin ToSet(answer') => first # Refused /\ second # Refused
      BY <3>1 DEF ToSet
    <3>4. first # Refused /\ second # Refused /\ ~ first.truncated /\ ~ second.truncated
            => AsOften(data, rows, own)
      BY ArchiveAssumption, ExportsMeet, HeldAsOften DEF first, second
    <3>5. asked'.kind # "range"
      BY <3>2
    <3> HIDE DEF page
    <3>6. Exported(asked, answer)'
      BY <3>2, <3>3, <3>4, <3>5 DEF Exported
    <3> QED
      BY <2>0, <3>6
  <2>3. ASSUME NEW from \in {Null} \cup (0 .. Now), NEW to \in {Null} \cup (0 .. Now),
               NormalizeRange(from, to)
        PROVE  ExportExact'
    <3>1. /\ asked'.kind = "range"
          /\ answer' = normalizeRange(from, to, Now, DefaultLookback, MaxLookback)
      BY <2>3 DEF NormalizeRange
    <3>2. answer' # Refused => /\ answer'.from <= answer'.to
                               /\ answer'.to - answer'.from <= MaxLookback
      BY <3>1, RangeAccepted
    <3>3. Exported(asked, answer)'
      BY <3>1, <3>2 DEF Exported
    <3> QED
      BY <2>0, <3>3
  <2>4. ASSUME asked'.kind \notin {"export", "range"} PROVE ExportExact'
    BY <2>0, <2>4 DEF Exported
  <2>5. \/ \E rows \in ArchiveRows, q \in ExportQuestions : ExportRows(rows, q)
        \/ \E from, to \in {Null} \cup (0 .. Now) : NormalizeRange(from, to)
        \/ asked'.kind \notin {"export", "range"}
        \/ UNCHANGED <<asked, answer>>
    <3>1. ASSUME NEW w, NEW q, ReadEntity(w, q) PROVE asked'.kind \notin {"export", "range"}
      BY <3>1 DEF ReadEntity
    <3>2. ASSUME NEW r, NEW q, ReadCounter(r, q) PROVE asked'.kind \notin {"export", "range"}
      BY <3>2 DEF ReadCounter
    <3>3. ASSUME NEW r, NEW q, RecoverLatest(r, q) PROVE asked'.kind \notin {"export", "range"}
      BY <3>3 DEF RecoverLatest
    <3>4. ASSUME NEW r, NEW q, ResolveTables(r, q) PROVE asked'.kind \notin {"export", "range"}
      BY <3>4 DEF ResolveTables
    <3>5. ASSUME Done PROVE asked'.kind \notin {"export", "range"}
      BY <3>5 DEF Done, Idle
    <3> QED
      BY <1>2, <3>1, <3>2, <3>3, <3>4, <3>5 DEF AnswersNext, Ask
  <2> QED
    BY <2>1, <2>2, <2>3, <2>4, <2>5
<1> QED
  BY <1>1, <1>2, PTL DEF AnswersSpec, answerVars

-----------------------------------------------------------------------------
(* Counters.  The samples that a read has, by time, and where they are in  *)
(* the table.                                                              *)

Sample == [time : Int, value : Int \cup {Null}]

\* s has the rows of D, by time; e[j] is the place of s[j] in the table.
Sorts(s, e, rows, D) ==
  /\ Len(s) \in Nat /\ DOMAIN s = 1 .. Len(s)
  /\ e \in [1 .. Len(s) -> D]
  /\ \A j \in 1 .. Len(s) : s[j] = rows[e[j]]
  /\ \A i, j \in 1 .. Len(s) : i < j => Sooner(rows, e[i], e[j])
  /\ \A k \in D : \E j \in 1 .. Len(s) : e[j] = k

\* The order by time is strict.
LEMMA SoonerIsOrder ==
  ASSUME NEW rows \in Seq(Sample)
  PROVE  StrictOrder({p \in (1 .. Len(rows)) \X (1 .. Len(rows)) : Sooner(rows, p[1], p[2])},
                     1 .. Len(rows))
<1>1. \A i \in 1 .. Len(rows) : rows[i].time \in Int
  <2>1. \A i \in 1 .. Len(rows) : rows[i] \in Sample
    OBVIOUS
  <2> QED
    BY <2>1 DEF Sample
<1> QED
  BY <1>1, SMTT(20) DEF StrictOrder, Sooner

LEMMA ByTimeIs ==
  ASSUME NEW rows \in Seq(Sample)
  PROVE  \E o : /\ HasEach(o, Len(rows))
                /\ ByTime(rows) = [k \in 1 .. Len(rows) |-> rows[o[k]]]
                /\ \A i, j \in 1 .. Len(rows) : i < j => Sooner(rows, o[i], o[j])
<1> DEFINE n == Len(rows)
           R == {p \in (1 .. n) \X (1 .. n) : Sooner(rows, p[1], p[2])}
           o == OrderOf(rows, R)
<1>1. n \in Nat /\ DOMAIN rows = 1 .. n
  OBVIOUS
<1>2. StrictOrder(R, 1 .. n)
  BY SoonerIsOrder
<1>3. ByTime(rows) = Ordered(rows, R)
  BY <1>1 DEF ByTime
<1>4. \A i, j : <<i, j>> \in R => Sooner(rows, i, j)
  OBVIOUS
<1> HIDE DEF n, R
<1>5. InOrder(o, R, 1 .. n) /\ Ordered(rows, R) = [k \in 1 .. n |-> rows[o[k]]]
  BY <1>1, <1>2, OrderedIs DEF n
<1>6. HasEach(o, n)
  BY <1>1, <1>2, <1>5, EnumerationHasAll
<1>7. \A i, j \in 1 .. n : i < j => Sooner(rows, o[i], o[j])
  BY <1>4, <1>5 DEF InOrder
<1> QED
  BY <1>3, <1>5, <1>6, <1>7 DEF n

\* Rows that are kept and then put in order.
LEMMA KeptByTime ==
  ASSUME NEW rows \in Seq(Sample), NEW s \in Seq(Sample), NEW at, NEW X,
         Keeps(s, at, rows, X, Len(rows))
  PROVE  \E e : Sorts(ByTime(s), e, rows, {k \in DOMAIN rows : rows[k] \in X})
<1> DEFINE D == {k \in DOMAIN rows : rows[k] \in X}
           n == Len(s)
<1>1. PICK o : /\ HasEach(o, n)
               /\ ByTime(s) = [k \in 1 .. n |-> s[o[k]]]
               /\ \A i, j \in 1 .. n : i < j => Sooner(s, o[i], o[j])
  BY ByTimeIs
<1> DEFINE e == [k \in 1 .. n |-> at[o[k]]]
           b == ByTime(s)
<1>2. n \in Nat /\ DOMAIN rows = 1 .. Len(rows)
  OBVIOUS
<1>3. b = [k \in 1 .. n |-> s[o[k]]] /\ Len(b) = n /\ DOMAIN b = 1 .. n
  <2>1. b \in Seq({s[o[k]] : k \in 1 .. n})
    BY <1>1, <1>2
  <2> QED
    BY <1>1, <1>2, <2>1
<1> HIDE DEF n, b
<1>4. /\ \A k \in 1 .. n : o[k] \in 1 .. n
      /\ \A k \in 1 .. n : \E i \in 1 .. n : o[i] = k
  BY <1>1 DEF HasEach
<1>5. /\ \A i \in 1 .. n : at[i] \in 1 .. Len(rows) /\ s[i] = rows[at[i]] /\ s[i] \in X
      /\ \A i, j \in 1 .. n : i < j => at[i] < at[j]
      /\ \A k \in 1 .. Len(rows) : rows[k] \in X => \E i \in 1 .. n : at[i] = k
  BY DEF Keeps, n
<1>6. e \in [1 .. n -> D]
  BY <1>2, <1>4, <1>5
<1>7. \A j \in 1 .. n : b[j] = rows[e[j]]
  BY <1>3, <1>4, <1>5
<1>8. ASSUME NEW i \in 1 .. n, NEW j \in 1 .. n, i < j PROVE Sooner(rows, e[i], e[j])
  <2>1. Sooner(s, o[i], o[j]) /\ o[i] \in 1 .. n /\ o[j] \in 1 .. n
    BY <1>1, <1>4, <1>8
  <2>2. s[o[i]] = rows[at[o[i]]] /\ s[o[j]] = rows[at[o[j]]]
    BY <1>5, <2>1
  <2>3. o[i] < o[j] => at[o[i]] < at[o[j]]
    BY <1>5, <2>1
  <2> QED
    BY <2>1, <2>2, <2>3 DEF Sooner
<1>9. \A k \in D : \E j \in 1 .. n : e[j] = k
  <2> SUFFICES ASSUME NEW k \in D PROVE \E j \in 1 .. n : e[j] = k
    OBVIOUS
  <2>1. PICK i \in 1 .. n : at[i] = k
    BY <1>2, <1>5
  <2>2. PICK j \in 1 .. n : o[j] = i
    BY <1>4
  <2> QED
    BY <2>1, <2>2
<1>10. Sorts(b, e, rows, D)
  <2> HIDE DEF e, D
  <2> QED
    BY <1>2, <1>3, <1>6, <1>7, <1>8, <1>9 DEF Sorts
<1> QED
  BY <1>10 DEF b

\* Keeping twice is keeping what is in both sets.
LEMMA KeepsTwice ==
  ASSUME NEW rows \in Seq(Sample), NEW X, NEW Y
  PROVE  \E at : Keeps(Filter(Filter(rows, X), Y), at, rows, X \cap Y, Len(rows))
<1> DEFINE s == Filter(rows, X)
           r == Filter(s, Y)
<1>1. PICK f : s \in Seq(Sample) /\ Keeps(s, f, rows, X, Len(rows))
  BY FilterKeeps
<1> HIDE DEF s
<1>2. PICK g : r \in Seq(Sample) /\ Keeps(r, g, s, Y, Len(s))
  BY <1>1, FilterKeeps
<1> HIDE DEF r
<1>3. Len(s) \in Nat /\ Len(r) \in Nat /\ Len(rows) \in Nat
  BY <1>1, <1>2
<1> DEFINE at == [i \in 1 .. Len(r) |-> f[g[i]]]
<1>4. /\ \A i \in 1 .. Len(s) : f[i] \in 1 .. Len(rows) /\ s[i] = rows[f[i]] /\ s[i] \in X
      /\ \A i, j \in 1 .. Len(s) : i < j => f[i] < f[j]
      /\ \A k \in 1 .. Len(rows) : rows[k] \in X => \E i \in 1 .. Len(s) : f[i] = k
  BY <1>1 DEF Keeps
<1>5. /\ \A i \in 1 .. Len(r) : g[i] \in 1 .. Len(s) /\ r[i] = s[g[i]] /\ r[i] \in Y
      /\ \A i, j \in 1 .. Len(r) : i < j => g[i] < g[j]
      /\ \A k \in 1 .. Len(s) : s[k] \in Y => \E i \in 1 .. Len(r) : g[i] = k
  BY <1>2 DEF Keeps
<1>6. at \in [1 .. Len(r) -> 1 .. Len(rows)]
  BY <1>4, <1>5
<1>7. \A i \in 1 .. Len(r) : r[i] = rows[at[i]] /\ r[i] \in X \cap Y
  BY <1>4, <1>5
<1>8. \A i, j \in 1 .. Len(r) : i < j => at[i] < at[j]
  BY <1>4, <1>5
<1>9. ASSUME NEW k \in 1 .. Len(rows), rows[k] \in X \cap Y PROVE \E i \in 1 .. Len(r) : at[i] = k
  <2>1. PICK i \in 1 .. Len(s) : f[i] = k
    BY <1>4, <1>9
  <2>2. s[i] \in Y
    BY <1>4, <1>9, <2>1
  <2>3. PICK j \in 1 .. Len(r) : g[j] = i
    BY <1>5, <2>2
  <2> QED
    BY <2>1, <2>3
<1>10. Keeps(r, at, rows, X \cap Y, Len(rows))
  <2> HIDE DEF at
  <2> QED
    BY <1>6, <1>7, <1>8, <1>9 DEF Keeps
<1> QED
  BY <1>10 DEF r, s

\* How much a value rises over the one before it.
RiseOver(a, b, policy) ==
  IF b >= a THEN b - a ELSE IF policy = "new-value" THEN b ELSE 0

\* s has all rows with values of a range of time.
Spans(s, e, rows, from, to) ==
  Sorts(s, e, rows, {k \in DOMAIN rows : rows[k].value # Null /\ rows[k].time \in from .. to})

LEMMA ReadsType ==
  ASSUME Null \notin Int, NEW rows \in Seq(Sample), NEW from \in Int, NEW to \in Int,
         NEW s, NEW e, Spans(s, e, rows, from, to)
  PROVE  /\ Len(s) \in Nat /\ DOMAIN s = 1 .. Len(s)
         /\ \A j \in 1 .. Len(s) :
              /\ e[j] \in DOMAIN rows /\ s[j] = rows[e[j]] /\ s[j].time \in from .. to
              /\ s[j].time \in Int /\ s[j].value \in Int
         /\ \A i, j \in 1 .. Len(s) : i < j => Sooner(rows, e[i], e[j]) /\ s[i].time <= s[j].time
         /\ \A k \in DOMAIN rows : rows[k].value # Null /\ rows[k].time \in from .. to =>
              \E j \in 1 .. Len(s) : e[j] = k
<1>1. \A k \in DOMAIN rows : /\ rows[k].time \in Int
                             /\ rows[k].value # Null => rows[k].value \in Int
  <2>1. \A k \in DOMAIN rows : rows[k] \in Sample
    OBVIOUS
  <2> QED
    BY <2>1 DEF Sample
<1>2. Len(s) \in Nat /\ DOMAIN s = 1 .. Len(s)
  BY DEF Spans, Sorts
<1>3. \A j \in 1 .. Len(s) : /\ e[j] \in DOMAIN rows /\ s[j] = rows[e[j]]
                             /\ rows[e[j]].value # Null /\ rows[e[j]].time \in from .. to
  BY DEF Spans, Sorts
<1>4. \A i, j \in 1 .. Len(s) : i < j => Sooner(rows, e[i], e[j])
  BY DEF Spans, Sorts
<1>5. \A k \in DOMAIN rows : rows[k].value # Null /\ rows[k].time \in from .. to =>
        \E j \in 1 .. Len(s) : e[j] = k
  BY DEF Spans, Sorts
<1>6. ASSUME NEW i \in 1 .. Len(s), NEW j \in 1 .. Len(s), i < j PROVE s[i].time <= s[j].time
  <2>1. Sooner(rows, e[i], e[j])
    BY <1>4, <1>6
  <2>2. rows[e[i]].time <= rows[e[j]].time
    BY <1>1, <1>3, <2>1 DEF Sooner
  <2>3. s[i] = rows[e[i]] /\ s[j] = rows[e[j]]
    BY <1>3
  <2> QED
    BY <2>2, <2>3
<1> QED
  BY <1>1, <1>2, <1>3, <1>4, <1>5, <1>6

\* What was read rises from one to the next as its rows do in the table.
RisesAsRead(rows, s, e, policy) ==
  \A j \in 2 .. Len(s) :
    Rise(rows, e[j], policy) = RiseOver(s[j - 1].value, s[j].value, policy)

\* The row before a row of s in s is the row before it in the table.
LEMMA RiseIs ==
  ASSUME Null \notin Int, NEW rows \in Seq(Sample), NEW from \in Int, NEW to \in Int, NEW policy,
         NEW s, NEW e, Spans(s, e, rows, from, to)
  PROVE  RisesAsRead(rows, s, e, policy)
<1> SUFFICES ASSUME NEW j \in 2 .. Len(s)
             PROVE  Rise(rows, e[j], policy) = RiseOver(s[j - 1].value, s[j].value, policy)
  BY DEF RisesAsRead
<1> DEFINE k == e[j]
           i == e[j - 1]
           before == {l \in DOMAIN rows : rows[l].value # Null /\ Sooner(rows, l, k)}
           IsLast(l) == \A m \in before : m = l \/ Sooner(rows, m, l)
           last == CHOOSE l \in before : IsLast(l)
<1>1. Len(s) \in Nat /\ j - 1 \in 1 .. Len(s) /\ j \in 1 .. Len(s)
  BY ReadsType
<1>2. \A l \in DOMAIN rows : rows[l].time \in Int /\ l \in Int
  <2>1. \A l \in DOMAIN rows : rows[l] \in Sample /\ l \in Int
    OBVIOUS
  <2> QED
    BY <2>1 DEF Sample
<1>3. /\ k \in DOMAIN rows /\ s[j] = rows[k] /\ rows[k].value # Null /\ rows[k].time \in from .. to
      /\ i \in DOMAIN rows /\ s[j - 1] = rows[i] /\ rows[i].value # Null
      /\ rows[i].time \in from .. to /\ Sooner(rows, i, k)
  <2>1. \A m \in 1 .. Len(s) : /\ e[m] \in DOMAIN rows /\ s[m] = rows[e[m]]
                               /\ s[m].time \in from .. to /\ s[m].value \in Int
    BY ReadsType
  <2>2. \A m \in 1 .. Len(s) : /\ e[m] \in DOMAIN rows /\ s[m] = rows[e[m]]
                               /\ rows[e[m]].value # Null /\ rows[e[m]].time \in from .. to
    BY <2>1
  <2>3. Sooner(rows, e[j - 1], e[j])
    <3>1. \A l, m \in 1 .. Len(s) : l < m => Sooner(rows, e[l], e[m])
      BY ReadsType
    <3>2. j - 1 < j
      BY <1>1
    <3> QED
      BY <1>1, <3>1, <3>2
  <2> QED
    BY <1>1, <2>2, <2>3
<1>4. \A l, m \in DOMAIN rows : ~(Sooner(rows, l, m) /\ Sooner(rows, m, l)) /\ ~Sooner(rows, l, l)
  BY <1>2 DEF Sooner
<1>5. i \in before
  BY <1>3
<1>6. ASSUME NEW m \in before PROVE m = i \/ Sooner(rows, m, i)
  <2>1. m \in DOMAIN rows /\ rows[m].value # Null /\ Sooner(rows, m, k)
    OBVIOUS
  <2>2. CASE rows[m].time \in from .. to
    <3>1. PICK l \in 1 .. Len(s) : e[l] = m
      BY <2>1, <2>2, ReadsType
    <3>2. \A x, y \in 1 .. Len(s) : x < y => Sooner(rows, e[x], e[y])
      BY ReadsType
    <3>3. l < j
      BY <1>1, <1>4, <2>1, <3>1, <3>2, <1>3
    <3>4. l = j - 1 \/ l < j - 1
      BY <1>1, <3>3
    <3> QED
      BY <1>1, <3>1, <3>2, <3>4
  <2>3. CASE rows[m].time \notin from .. to
    <3>1. rows[m].time <= rows[k].time
      BY <1>2, <1>3, <2>1 DEF Sooner
    <3>2. rows[m].time < rows[i].time
      BY <1>2, <1>3, <2>1, <2>3, <3>1
    <3> QED
      BY <3>2 DEF Sooner
  <2> QED
    BY <2>2, <2>3
<1>7. last \in before /\ IsLast(last)
  <2>1. \E l \in before : IsLast(l)
    BY <1>5, <1>6
  <2> HIDE DEF before, IsLast
  <2> QED
    BY <2>1
<1>8. last = i
  <2>1. last \in DOMAIN rows /\ (i = last \/ Sooner(rows, i, last))
    BY <1>5, <1>7
  <2>2. last = i \/ Sooner(rows, last, i)
    BY <1>6, <1>7
  <2> HIDE DEF last, i
  <2> QED
    BY <2>1, <2>2, <1>3, <1>4
<1>9. Rise(rows, k, policy) =
        IF rows[k].value = Null \/ before = {} THEN 0
        ELSE IF rows[k].value >= rows[last].value THEN rows[k].value - rows[last].value
        ELSE IF policy = "new-value" THEN rows[k].value ELSE 0
  BY DEF Rise
<1> HIDE DEF before, last
<1> QED
  BY <1>3, <1>5, <1>8, <1>9 DEF RiseOver

\* The samples that a read takes are those with values in its range.
LEMMA SourceReads ==
  ASSUME NEW rows \in Seq(Sample), NEW range, range.from \in Int, range.to \in Int
  PROVE  LET source == sourceRows(rows, range)
             kept   == Filter(source, {r \in ToSet(source) : r.value # Null})
         IN  \E e : Spans(ByTime(kept), e, rows, range.from, range.to)
<1> DEFINE X == {r \in ToSet(rows) : r.time >= range.from /\ r.time <= range.to}
           source == Filter(rows, X)
           Y == {r \in ToSet(source) : r.value # Null}
           kept == Filter(source, Y)
           D == {k \in DOMAIN rows : rows[k] \in X \cap Y}
           E == {k \in DOMAIN rows : rows[k].value # Null /\ rows[k].time \in range.from .. range.to}
<1>1. sourceRows(rows, range) = source
  BY DEF sourceRows
<1>2. PICK at : Keeps(kept, at, rows, X \cap Y, Len(rows))
  <2> HIDE DEF X, Y
  <2> QED
    BY KeepsTwice
<1>3. source \in Seq(Sample) /\ Range(source) = Range(rows) \cap X
  <2> HIDE DEF X
  <2> QED
    BY FilterRange
<1>4. kept \in Seq(Sample)
  <2> HIDE DEF source, Y
  <2> QED
    BY <1>3, FilterRange
<1>5. PICK e : Sorts(ByTime(kept), e, rows, D)
  <2> HIDE DEF X, Y, kept
  <2> QED
    BY <1>2, <1>4, KeptByTime
<1>6. \A k \in DOMAIN rows : rows[k] \in Range(rows) /\ rows[k].time \in Int
  <2>1. \A k \in DOMAIN rows : rows[k] \in Sample
    OBVIOUS
  <2> QED
    BY <2>1 DEF Sample, Range
<1>7. ToSet(rows) = Range(rows) /\ ToSet(source) = Range(source)
  BY DEF ToSet, Range
<1>8. ASSUME NEW k \in DOMAIN rows PROVE k \in D <=> k \in E
  <2>1. rows[k] \in X <=> rows[k].time \in range.from .. range.to
    BY <1>6, <1>7
  <2>2. rows[k] \in X => (rows[k] \in Y <=> rows[k].value # Null)
    <3>1. rows[k] \in X => rows[k] \in ToSet(source)
      BY <1>3, <1>6, <1>7
    <3> HIDE DEF X, source
    <3> QED
      BY <3>1
  <2> HIDE DEF X, Y
  <2> QED
    BY <2>1, <2>2
<1>9. D = E
  BY <1>8
<1> HIDE DEF source, D
<1> QED
  BY <1>1, <1>5, <1>9 DEF Spans

\* One step of the loop over the samples.
LoopStep(A, s, policy, k) ==
  IF k = 0 THEN [samples |-> <<>>, raw |-> Null, reached |-> Null, offset |-> 0]
  ELSE Unwrapped(A[k - 1], s[k], policy)

Loops(A, s, policy) == A = [k \in 0 .. Len(s) |-> LoopStep(A, s, policy, k)]

LEMMA LoopExists ==
  ASSUME NEW s, NEW policy, NEW n \in Nat
  PROVE  \E A : A = [k \in 0 .. n |-> LoopStep(A, s, policy, k)]
<1> DEFINE N == {m \in Nat : \E A : A = [k \in 0 .. m |-> LoopStep(A, s, policy, k)]}
<1>1. 0 \in N
  <2> DEFINE c == LoopStep(<<>>, s, policy, 0)
             A == [k \in 0 .. 0 |-> c]
  <2>1. A = [k \in 0 .. 0 |-> LoopStep(A, s, policy, k)]
    BY DEF LoopStep
  <2> HIDE DEF A
  <2> QED
    BY <2>1
<1>2. ASSUME NEW m \in Nat, m \in N PROVE m + 1 \in N
  <2>1. PICK A : A = [k \in 0 .. m |-> LoopStep(A, s, policy, k)]
    BY <1>2
  <2> DEFINE B == [k \in 0 .. m + 1 |-> IF k <= m THEN A[k] ELSE LoopStep(A, s, policy, m + 1)]
  <2>2. B = [k \in 0 .. m + 1 |-> LoopStep(B, s, policy, k)]
    <3> SUFFICES ASSUME NEW k \in 0 .. m + 1 PROVE B[k] = LoopStep(B, s, policy, k)
      OBVIOUS
    <3>1. CASE k <= m
      <4>1. B[k] = LoopStep(A, s, policy, k)
        BY <2>1, <3>1
      <4>2. k # 0 => B[k - 1] = A[k - 1]
        BY <3>1
      <4> HIDE DEF B
      <4> QED
        BY <4>1, <4>2 DEF LoopStep
    <3>2. CASE k = m + 1
      <4>1. B[k] = LoopStep(A, s, policy, m + 1)
        BY <3>2
      <4>2. B[m] = A[m] /\ k - 1 = m /\ k # 0
        BY <3>2
      <4> HIDE DEF B
      <4> QED
        BY <3>2, <4>1, <4>2 DEF LoopStep
    <3> QED
      BY <3>1, <3>2
  <2> HIDE DEF B
  <2> QED
    BY <2>2
<1>3. Nat \subseteq N
  <2> HIDE DEF N
  <2> QED
    BY <1>1, <1>2, SetInduction
<1> QED
  BY <1>3

LEMMA SamplesAre ==
  ASSUME NEW rows, NEW policy,
         LET kept == Filter(rows, {r \in ToSet(rows) : r.value # Null}) IN Len(ByTime(kept)) \in Nat
  PROVE  LET s == ByTime(Filter(rows, {r \in ToSet(rows) : r.value # Null}))
         IN  \E A : Loops(A, s, policy) /\ buildCounterBoundarySamples(rows, policy) = A[Len(s)].samples
<1> DEFINE s == ByTime(Filter(rows, {r \in ToSet(rows) : r.value # Null}))
           A == CHOOSE f : f = [k \in 0 .. Len(s) |-> LoopStep(f, s, policy, k)]
<1>1. buildCounterBoundarySamples(rows, policy) = A[Len(s)].samples
  BY DEF buildCounterBoundarySamples, LoopStep
<1>2. A = [k \in 0 .. Len(s) |-> LoopStep(A, s, policy, k)]
  <2> HIDE DEF s
  <2> QED
    BY LoopExists
<1> HIDE DEF A
<1> QED
  BY <1>1, <1>2 DEF Loops

\* Samples as the loop meets them.
Timeline(s) == /\ Len(s) \in Nat
               /\ \A j \in 1 .. Len(s) : s[j].time \in Int /\ s[j].value \in Int
               /\ \A i, j \in 1 .. Len(s) : i < j => s[i].time <= s[j].time

\* The offset is what the last value has been raised by.
Unwraps(a, value) == /\ a.raw = value /\ a.reached \in Int /\ a.offset \in Int
                     /\ a.reached = value + a.offset

OffsetAfter(a, row, policy) == IF a.raw # Null /\ row.value < a.raw
                               THEN Restart(a.raw, a.reached, row.value, policy) ELSE a.offset

LEMMA LoopUnwraps ==
  ASSUME Null \notin Int, NEW s, Timeline(s), NEW policy, NEW A, Loops(A, s, policy)
  PROVE  \A k \in 1 .. Len(s) :
           /\ Unwraps(A[k], s[k].value)
           /\ k > 1 => A[k].reached - A[k - 1].reached
                         = RiseOver(s[k - 1].value, s[k].value, policy)
<1> DEFINE Fits(k) == /\ Unwraps(A[k], s[k].value)
                      /\ k > 1 => A[k].reached - A[k - 1].reached
                                    = RiseOver(s[k - 1].value, s[k].value, policy)
           N == {m \in Nat : m + 1 <= Len(s) => Fits(m + 1)}
<1>1. Len(s) \in Nat /\ \A j \in 1 .. Len(s) : s[j].value \in Int
  BY DEF Timeline
<1>2. A[0] = [samples |-> <<>>, raw |-> Null, reached |-> Null, offset |-> 0]
  BY <1>1 DEF Loops, LoopStep
<1>3. \A k \in 1 .. Len(s) : A[k] = Unwrapped(A[k - 1], s[k], policy)
  BY <1>1 DEF Loops, LoopStep
<1>4. 0 \in N
  <2> SUFFICES ASSUME 1 <= Len(s) PROVE Unwraps(A[1], s[1].value)
    OBVIOUS
  <2>1. A[1] = Unwrapped(A[0], s[1], policy)
    BY <1>1, <1>3
  <2>2. A[0].raw = Null /\ A[0].offset = 0
    BY <1>2
  <2>5. OffsetAfter(A[0], s[1], policy) = 0
    BY <2>2 DEF OffsetAfter
  <2>6. /\ A[1].raw = s[1].value /\ A[1].offset = OffsetAfter(A[0], s[1], policy)
        /\ A[1].reached = s[1].value + OffsetAfter(A[0], s[1], policy)
    BY <2>1 DEF Unwrapped, OffsetAfter
  <2>3. A[1].raw = s[1].value /\ A[1].offset = 0 /\ A[1].reached = s[1].value + 0
    BY <2>5, <2>6
  <2>4. s[1].value \in Int
    BY <1>1
  <2> QED
    BY <2>3, <2>4 DEF Unwraps
<1>5. ASSUME NEW m \in Nat, m \in N PROVE m + 1 \in N
  <2> SUFFICES ASSUME (m + 1) + 1 <= Len(s) PROVE Fits((m + 1) + 1)
    OBVIOUS
  <2> DEFINE k == (m + 1) + 1
             u == s[m + 1].value
             v == s[k].value
             offset == OffsetAfter(A[m + 1], s[k], policy)
  <2>1. k \in 1 .. Len(s) /\ k - 1 = m + 1 /\ k > 1 /\ u \in Int /\ v \in Int
    <3>1. k \in 1 .. Len(s) /\ m + 1 \in 1 .. Len(s) /\ k - 1 = m + 1 /\ k > 1
      BY <1>1
    <3> QED
      BY <1>1, <3>1
  <2>2. Unwraps(A[m + 1], u)
    BY <1>1, <1>5
  <2>3. A[k] = Unwrapped(A[m + 1], s[k], policy)
    BY <1>3, <2>1
  <2>4. A[k].raw = s[k].value /\ A[k].offset = offset /\ A[k].reached = s[k].value + offset
    BY <2>3 DEF Unwrapped, OffsetAfter
  <2> HIDE DEF k, u, v
  <2>5. offset = IF v < u THEN (IF policy = "new-value" THEN A[m + 1].reached
                               ELSE A[m + 1].reached - v)
                 ELSE A[m + 1].offset
    BY <2>1, <2>2 DEF Unwraps, Restart, OffsetAfter, v
  <2> HIDE DEF offset
  <2>6. offset \in Int /\ v + offset - A[m + 1].reached = RiseOver(u, v, policy)
    BY <2>1, <2>2, <2>5, SMTT(20) DEF Unwraps, RiseOver
  <2>7. Unwraps(A[k], v) /\ A[k].reached - A[k - 1].reached = RiseOver(u, v, policy)
    <3>1. A[k].reached = v + offset /\ A[k].offset = offset /\ A[k].raw = v
      BY <2>4 DEF v
    <3>2. v + offset \in Int
      BY <2>1, <2>6
    <3>3. Unwraps(A[k], v)
      BY <3>1, <3>2, <2>6 DEF Unwraps
    <3>4. A[k - 1] = A[m + 1]
      BY <2>1
    <3>5. A[k].reached - A[k - 1].reached = RiseOver(u, v, policy)
      <4> DEFINE x == A[k].reached
                 y == A[k - 1].reached
      <4>1. x = v + offset /\ y = A[m + 1].reached /\ y \in Int
        BY <2>2, <3>1, <3>4 DEF Unwraps
      <4> HIDE DEF x, y
      <4>2. x - y = RiseOver(u, v, policy)
        BY <2>1, <2>6, <4>1
      <4> QED
        BY <4>2 DEF x, y
    <3> QED
      BY <3>3, <3>5
  <2> QED
    BY <2>1, <2>7 DEF k, u, v
<1>6. Nat \subseteq N
  <2> HIDE DEF N
  <2> QED
    BY <1>4, <1>5, SetInduction
<1>7. ASSUME NEW k \in 1 .. Len(s) PROVE Fits(k)
  <2>1. k - 1 \in N /\ (k - 1) + 1 = k
    <3>1. k - 1 \in Nat /\ (k - 1) + 1 = k
      BY <1>1
    <3> HIDE DEF N
    <3> QED
      BY <3>1, <1>6
  <2> HIDE DEF Fits
  <2> QED
    BY <2>1
<1> QED
  BY <1>7

Point == [time : Int, value : Int]

LEMMA AppendIs ==
  ASSUME NEW S, NEW c \in Seq(S), NEW x \in S
  PROVE  LET d == Append(c, x)
         IN  /\ d \in Seq(S) /\ Len(d) = Len(c) + 1
             /\ \A m \in 1 .. Len(c) + 1 : d[m] = IF m = Len(c) + 1 THEN x ELSE c[m]
OBVIOUS

LEMMA ReplaceIs ==
  ASSUME NEW S, NEW c \in Seq(S), NEW x \in S, NEW k \in 1 .. Len(c)
  PROVE  LET d == [c EXCEPT ![k] = x]
         IN  /\ d \in Seq(S) /\ Len(d) = Len(c)
             /\ \A m \in 1 .. Len(c) : d[m] = IF m = k THEN x ELSE c[m]
OBVIOUS

\* c has one sample for each instant of s up to n, with what A has reached there; g[m]
\* is the last place of the instant of c[m].
Curve(c, g, s, A, n) ==
  /\ c \in Seq(Point) /\ g \in [1 .. Len(c) -> 1 .. n]
  /\ \A m \in 1 .. Len(c) : c[m].time = s[g[m]].time /\ c[m].value = A[g[m]].reached
  /\ \A l, m \in 1 .. Len(c) : l < m => c[l].time < c[m].time
  /\ \A m \in 1 .. Len(c), i \in 1 .. n : i <= g[m] <=> s[i].time <= c[m].time
  /\ \A i \in 1 .. n : \E m \in 1 .. Len(c) : c[m].time = s[i].time

LEMMA CurveGrows ==
  ASSUME NEW s, Timeline(s), NEW A, NEW n \in Nat, n + 1 <= Len(s),
         \A k \in 1 .. Len(s) : A[k].reached \in Int,
         NEW c, NEW g, Curve(c, g, s, A, n),
         NEW d, d = Joined(c, [time |-> s[n + 1].time, value |-> A[n + 1].reached])
  PROVE  \E h : Curve(d, h, s, A, n + 1)
<1> DEFINE new == [time |-> s[n + 1].time, value |-> A[n + 1].reached]
           M == Len(c)
<1>1. /\ Len(s) \in Nat /\ \A j \in 1 .. n + 1 : s[j].time \in Int /\ A[j].reached \in Int
      /\ \A i, j \in 1 .. n + 1 : i < j => s[i].time <= s[j].time
      /\ n + 1 \in 1 .. n + 1
  BY DEF Timeline
<1>2. new \in Point /\ new.time = s[n + 1].time /\ new.value = A[n + 1].reached
  BY <1>1 DEF Point
<1> HIDE DEF new
<1>3. /\ c \in Seq(Point) /\ g \in [1 .. M -> 1 .. n]
      /\ \A m \in 1 .. M : c[m].time = s[g[m]].time /\ c[m].value = A[g[m]].reached
      /\ \A l, m \in 1 .. M : l < m => c[l].time < c[m].time
      /\ \A m \in 1 .. M, i \in 1 .. n : i <= g[m] <=> s[i].time <= c[m].time
      /\ \A i \in 1 .. n : \E m \in 1 .. M : c[m].time = s[i].time
  BY DEF Curve
<1>4. M \in Nat /\ DOMAIN c = 1 .. M /\ \A m \in 1 .. M : c[m].time \in Int
  <2>1. M \in Nat /\ DOMAIN c = 1 .. M /\ \A m \in 1 .. M : c[m] \in Point
    BY <1>3
  <2> QED
    BY <2>1 DEF Point
<1> HIDE DEF M
<1>5. \A m \in 1 .. M : g[m] \in 1 .. n /\ c[m].time <= s[n + 1].time
  <2> SUFFICES ASSUME NEW m \in 1 .. M PROVE g[m] \in 1 .. n /\ c[m].time <= s[n + 1].time
    OBVIOUS
  <2>1. g[m] \in 1 .. n /\ c[m].time = s[g[m]].time
    BY <1>3
  <2>2. g[m] \in 1 .. n + 1 /\ g[m] < n + 1
    BY <2>1
  <2> QED
    BY <1>1, <2>1, <2>2
<1>6. CASE M # 0 /\ c[M].time = new.time
  <2> DEFINE h == [g EXCEPT ![M] = n + 1]
  <2>1. d = [c EXCEPT ![M] = new]
    BY <1>4, <1>6 DEF Joined, new, M
  <2>9. M \in 1 .. M
    BY <1>4, <1>6
  <2>2. /\ d \in Seq(Point) /\ Len(d) = M
        /\ \A m \in 1 .. M : d[m] = IF m = M THEN new ELSE c[m]
    <3>1. c \in Seq(Point) /\ Len(c) = M
      BY <1>3 DEF M
    <3>2. LET e == [c EXCEPT ![M] = new]
          IN  /\ e \in Seq(Point) /\ Len(e) = Len(c)
              /\ \A m \in 1 .. Len(c) : e[m] = IF m = M THEN new ELSE c[m]
      BY <1>2, <2>9, <3>1, ReplaceIs
    <3> QED
      BY <2>1, <3>1, <3>2
  <2>3. h \in [1 .. M -> 1 .. n + 1] /\ \A m \in 1 .. M : h[m] = IF m = M THEN n + 1 ELSE g[m]
    <3>1. DOMAIN g = 1 .. M /\ h = [m \in 1 .. M |-> IF m = M THEN n + 1 ELSE g[m]]
      BY <1>3
    <3>2. \A m \in 1 .. M : g[m] \in 1 .. n + 1 /\ n + 1 \in 1 .. n + 1
      BY <1>5
    <3> HIDE DEF h
    <3> QED
      BY <3>1, <3>2
  <2> HIDE DEF h
  <2>4. \A m \in 1 .. M : d[m].time = c[m].time
    BY <1>6, <2>2
  <2>5. \A m \in 1 .. M : d[m].time = s[h[m]].time /\ d[m].value = A[h[m]].reached
    BY <1>2, <1>3, <2>2, <2>3, ZenonT(20)
  <2>6. \A l, m \in 1 .. M : l < m => d[l].time < d[m].time
    BY <1>3, <2>4
  <2>7. ASSUME NEW m \in 1 .. M, NEW i \in 1 .. n + 1
        PROVE  i <= h[m] <=> s[i].time <= d[m].time
    <3>1. CASE m = M
      BY <3>1, <1>1, <1>2, <1>6, <2>3, <2>4
    <3>2. CASE m # M /\ i = n + 1
      <4>1. c[m].time < c[M].time
        BY <3>2, <1>3, <1>4
      <4> QED
        BY <3>2, <4>1, <1>1, <1>2, <1>4, <1>5, <1>6, <2>3, <2>4, SMTT(20)
    <3>3. CASE m # M /\ i # n + 1
      BY <3>3, <1>3, <2>3, <2>4
    <3> QED
      BY <3>1, <3>2, <3>3
  <2>8. ASSUME NEW i \in 1 .. n + 1 PROVE \E m \in 1 .. M : d[m].time = s[i].time
    <3>1. CASE i = n + 1
      BY <3>1, <1>2, <1>4, <1>6, <2>4
    <3>2. CASE i # n + 1
      BY <3>2, <1>3, <2>4
    <3> QED
      BY <3>1, <3>2
  <2> QED
    BY <2>2, <2>3, <2>5, <2>6, <2>7, <2>8 DEF Curve
<1>7. CASE ~(M # 0 /\ c[M].time = new.time)
  <2> DEFINE h == [m \in 1 .. M + 1 |-> IF m = M + 1 THEN n + 1 ELSE g[m]]
  <2>1. d = Append(c, new)
    <3>1. c = <<>> \/ (Len(c) # 0 /\ c[Len(c)].time # new.time)
      BY <1>3, <1>4, <1>7 DEF M
    <3>2. d = Joined(c, new)
      BY DEF new
    <3> QED
      BY <3>1, <3>2 DEF Joined
  <2>2. /\ d \in Seq(Point) /\ Len(d) = M + 1
        /\ \A m \in 1 .. M + 1 : d[m] = IF m = M + 1 THEN new ELSE c[m]
    <3>1. c \in Seq(Point) /\ Len(c) = M
      BY <1>3 DEF M
    <3>2. LET e == Append(c, new)
          IN  /\ e \in Seq(Point) /\ Len(e) = Len(c) + 1
              /\ \A m \in 1 .. Len(c) + 1 : e[m] = IF m = Len(c) + 1 THEN new ELSE c[m]
      BY <1>2, <3>1, AppendIs
    <3> QED
      BY <2>1, <3>1, <3>2
  <2>3. /\ h \in [1 .. M + 1 -> 1 .. n + 1]
        /\ \A m \in 1 .. M + 1 : h[m] = IF m = M + 1 THEN n + 1 ELSE g[m]
    BY <1>4, <1>5
  <2> HIDE DEF h
  <2>4. \A m \in 1 .. M : d[m] = c[m] /\ h[m] = g[m] /\ m # M + 1
    <3> SUFFICES ASSUME NEW m \in 1 .. M PROVE d[m] = c[m] /\ h[m] = g[m] /\ m # M + 1
      OBVIOUS
    <3>1. m \in 1 .. M + 1 /\ m # M + 1
      BY <1>4
    <3>2. d[m] = c[m]
      BY <2>2, <3>1
    <3>3. h[m] = g[m]
      BY <2>3, <3>1
    <3> QED
      BY <3>1, <3>2, <3>3
  <2>5. d[M + 1] = new /\ h[M + 1] = n + 1 /\ M + 1 \in 1 .. M + 1
    BY <1>4, <2>2, <2>3
  <2>6. ASSUME NEW m \in 1 .. M + 1 PROVE d[m].time = s[h[m]].time /\ d[m].value = A[h[m]].reached
    <3>1. m \in 1 .. M \/ m = M + 1
      BY <1>4
    <3>2. CASE m = M + 1
      BY <3>2, <1>2, <2>5
    <3>3. CASE m \in 1 .. M
      BY <3>3, <1>3, <2>4
    <3> QED
      BY <3>1, <3>2, <3>3
  <2>7. \A m \in 1 .. M : c[m].time < new.time
    <3> SUFFICES ASSUME NEW m \in 1 .. M PROVE c[m].time < new.time
      OBVIOUS
    <3>1. c[M].time <= new.time /\ c[M].time # new.time /\ c[M].time \in Int /\ new.time \in Int
      BY <1>1, <1>2, <1>4, <1>5, <1>7
    <3>2. m = M \/ c[m].time < c[M].time
      BY <1>3, <1>4
    <3> QED
      BY <3>1, <3>2, <1>4
  <2>8. ASSUME NEW l \in 1 .. M + 1, NEW m \in 1 .. M + 1, l < m PROVE d[l].time < d[m].time
    <3>1. l \in 1 .. M
      BY <1>4, <2>8
    <3>2. m \in 1 .. M \/ m = M + 1
      BY <1>4
    <3> QED
      BY <3>1, <3>2, <1>3, <2>4, <2>5, <2>7, <2>8
  <2>9. ASSUME NEW m \in 1 .. M + 1, NEW i \in 1 .. n + 1
        PROVE  i <= h[m] <=> s[i].time <= d[m].time
    <3>1. CASE m = M + 1
      BY <3>1, <1>1, <1>2, <2>5
    <3>2. CASE m # M + 1 /\ i = n + 1
      <4>1. m \in 1 .. M
        BY <3>2, <1>4
      <4>2. c[m].time < s[i].time /\ g[m] < i
        BY <3>2, <4>1, <1>2, <1>5, <2>7
      <4> QED
        BY <4>1, <4>2, <1>1, <1>4, <1>5, <2>4
    <3>3. CASE m # M + 1 /\ i # n + 1
      <4>1. m \in 1 .. M /\ i \in 1 .. n
        BY <3>3, <1>4
      <4> QED
        BY <4>1, <1>3, <2>4
    <3> QED
      BY <3>1, <3>2, <3>3
  <2>10. ASSUME NEW i \in 1 .. n + 1 PROVE \E m \in 1 .. M + 1 : d[m].time = s[i].time
    <3>1. CASE i = n + 1
      BY <3>1, <1>2, <2>5
    <3>2. CASE i # n + 1
      <4>1. PICK m \in 1 .. M : c[m].time = s[i].time
        BY <3>2, <1>3
      <4> QED
        BY <4>1, <1>4, <2>4
    <3> QED
      BY <3>1, <3>2
  <2> DEFINE L == Len(d)
  <2>11. L = M + 1 /\ Len(d) = L
    BY <2>2
  <2> HIDE DEF L
  <2>12. /\ \A m \in 1 .. L : d[m].time = s[h[m]].time /\ d[m].value = A[h[m]].reached
         /\ \A l, m \in 1 .. L : l < m => d[l].time < d[m].time
         /\ \A m \in 1 .. L, i \in 1 .. n + 1 : i <= h[m] <=> s[i].time <= d[m].time
         /\ \A i \in 1 .. n + 1 : \E m \in 1 .. L : d[m].time = s[i].time
    BY <2>6, <2>8, <2>9, <2>10, <2>11
  <2>13. h \in [1 .. L -> 1 .. n + 1] /\ d \in Seq(Point)
    BY <2>2, <2>3, <2>11
  <2>14. Curve(d, h, s, A, n + 1)
    BY <2>11, <2>12, <2>13 DEF Curve
  <2> QED
    BY <2>14
<1> QED
  BY <1>6, <1>7

\* The samples of the loop are the curve of what was read.
LEMMA LoopCurve ==
  ASSUME Null \notin Int, NEW s, Timeline(s), NEW policy, NEW A, Loops(A, s, policy)
  PROVE  \E g : Curve(A[Len(s)].samples, g, s, A, Len(s))
<1> DEFINE N == {n \in Nat : n <= Len(s) => \E g : Curve(A[n].samples, g, s, A, n)}
<1>1. Len(s) \in Nat
  BY DEF Timeline
<1>2. A[0] = [samples |-> <<>>, raw |-> Null, reached |-> Null, offset |-> 0]
  BY <1>1 DEF Loops, LoopStep
<1>3. \A k \in 1 .. Len(s) : A[k] = Unwrapped(A[k - 1], s[k], policy)
  BY <1>1 DEF Loops, LoopStep
<1>4. \A k \in 1 .. Len(s) : A[k].reached \in Int
  BY LoopUnwraps DEF Unwraps
<1>5. 0 \in N
  <2>1. Curve(<<>>, <<>>, s, A, 0)
    BY DEF Curve
  <2> QED
    BY <1>2, <2>1
<1>6. ASSUME NEW n \in Nat, n \in N PROVE n + 1 \in N
  <2> SUFFICES ASSUME n + 1 <= Len(s) PROVE \E h : Curve(A[n + 1].samples, h, s, A, n + 1)
    OBVIOUS
  <2>1. PICK g : Curve(A[n].samples, g, s, A, n)
    BY <1>1, <1>6
  <2>2. A[n + 1] = Unwrapped(A[n], s[n + 1], policy)
    <3>1. n + 1 \in 1 .. Len(s) /\ (n + 1) - 1 = n
      BY <1>1
    <3> QED
      BY <3>1, <1>3
  <2>3. A[n + 1].samples = Joined(A[n].samples, [time |-> s[n + 1].time, value |-> A[n + 1].reached])
    BY <2>2 DEF Unwrapped
  <2> QED
    BY <2>1, <2>3, <1>4, CurveGrows
<1>7. Len(s) \in N
  <2> HIDE DEF N
  <2> QED
    BY <1>1, <1>5, <1>6, SetInduction
<1> QED
  BY <1>1, <1>7

-----------------------------------------------------------------------------
\* The instants of the table that have a value, and what it rises at one.
SampleTimes(rows) == {rows[k].time : k \in {l \in DOMAIN rows : rows[l].value # Null}}
RiseAt(rows, t, policy) == Rises(rows, {k \in DOMAIN rows : rows[k].time = t}, policy)

\* What a row is read as rises as the row does.
LEMMA ReadsOnce ==
  ASSUME Null \notin Int, NEW rows \in Seq(Sample), NEW from \in Int, NEW to \in Int,
         NEW s, NEW e, Spans(s, e, rows, from, to),
         NEW i \in 1 .. Len(s), NEW j \in 1 .. Len(s), e[i] = e[j]
  PROVE  i = j
<1>1. Len(s) \in Nat /\ e[i] \in DOMAIN rows /\ rows[e[i]] = s[i] /\ s[i].time \in Int
  BY ReadsType
<1>2. \A x, y \in 1 .. Len(s) : x < y => Sooner(rows, e[x], e[y])
  BY ReadsType
<1>3. e[i] \in Int
  BY <1>1
<1>4. ~Sooner(rows, e[i], e[i])
  BY <1>1, <1>3 DEF Sooner
<1> QED
  BY <1>1, <1>2, <1>4

\* The rows of S with a value are those of the places in m + 1 .. n.
PlacedBetween(rows, S, e, m, n) ==
  /\ S \in SUBSET DOMAIN rows
  /\ \A k \in S : rows[k].value # Null => \E j \in (m + 1) .. n : e[j] = k
  /\ \A j \in (m + 1) .. n : e[j] \in S

\* The rows of S rise by what was read in m + 1 .. n.
RisesBetween(rows, S, policy, s, m, n) ==
  Rises(rows, S, policy)
    = SumFunctionOnSet([j \in (m + 1) .. n |-> RiseOver(s[j - 1].value, s[j].value, policy)],
                       (m + 1) .. n)

\* The rows of some places of what was read, and others without a value, rise
\* by what the reads at those places do.
LEMMA RisesOfReads ==
  ASSUME Null \notin Int, NEW rows \in Seq(Sample), NEW from \in Int, NEW to \in Int, NEW policy,
         NEW s, NEW e, Spans(s, e, rows, from, to),
         NEW m \in Nat, NEW n \in Nat, 1 <= m, n <= Len(s),
         NEW S, PlacedBetween(rows, S, e, m, n)
  PROVE  RisesBetween(rows, S, policy, s, m, n)
<1> DEFINE I == (m + 1) .. n
           g == [j \in I |-> RiseOver(s[j - 1].value, s[j].value, policy)]
           f == [k \in S |-> Rise(rows, k, policy)]
           V == {e[j] : j \in I}
<1>1. /\ Len(s) \in Nat /\ \A j \in 1 .. Len(s) : s[j].value \in Int
  BY ReadsType
<1>0. /\ S \in SUBSET DOMAIN rows
      /\ \A k \in S : rows[k].value # Null => \E j \in I : e[j] = k
      /\ \A j \in I : e[j] \in S
  BY DEF PlacedBetween
<1>2. IsFiniteSet(I)
  BY FS_Interval
<1>3. IsFiniteSet(S)
  <2>1. DOMAIN rows = 1 .. Len(rows) /\ Len(rows) \in Int
    OBVIOUS
  <2>2. IsFiniteSet(DOMAIN rows)
    BY <2>1, FS_Interval
  <2> QED
    BY <1>0, <2>2, FS_Subset
<1>4. \A j \in I : j \in 2 .. Len(s) /\ j \in 1 .. Len(s) /\ j - 1 \in 1 .. Len(s) /\ e[j] \in S
  BY <1>0, <1>1
<1>5. ASSUME NEW j \in I PROVE g[j] \in Int /\ g[j] = f[e[j]]
  <2>1. g[j] = RiseOver(s[j - 1].value, s[j].value, policy)
    OBVIOUS
  <2>2. RiseOver(s[j - 1].value, s[j].value, policy) \in Int
    <3>1. s[j - 1].value \in Int /\ s[j].value \in Int
      BY <1>1, <1>4
    <3> QED
      BY <3>1 DEF RiseOver
  <2>3. Rise(rows, e[j], policy) = RiseOver(s[j - 1].value, s[j].value, policy)
    <3>1. j \in 2 .. Len(s)
      BY <1>4
    <3>2. RisesAsRead(rows, s, e, policy)
      BY RiseIs
    <3> HIDE DEF I, g, f, V
    <3> QED
      BY <3>1, <3>2 DEF RisesAsRead
  <2> HIDE DEF g
  <2> QED
    BY <1>4, <2>1, <2>2, <2>3
<1>6. \A i, j \in I : e[i] = e[j] => i = j
  BY <1>4, ReadsOnce
<1>7. V \in SUBSET S
  BY <1>4
<1>8. ASSUME NEW k \in S \ V PROVE f[k] = 0
  <2>1. rows[k].value = Null
    BY <1>0
  <2> QED
    BY <2>1 DEF Rise
<1>9. \A k \in S : f[k] \in Int
  <2> SUFFICES ASSUME NEW k \in S PROVE f[k] \in Int
    OBVIOUS
  <2>1. CASE k \in V
    <3>1. PICK j \in I : e[j] = k
      BY <2>1
    <3>2. g[j] \in Int /\ g[j] = f[e[j]]
      BY <1>5
    <3> HIDE DEF f, g
    <3> QED
      BY <3>1, <3>2
  <2>2. CASE k \notin V
    <3>1. f[k] = 0
      BY <2>2, <1>8
    <3> QED
      BY <3>1
  <2> QED
    BY <2>1, <2>2
<1>10. Rises(rows, S, policy) = SumFunctionOnSet(f, S)
  BY DEF Rises, SumFunction
<1> HIDE DEF I, f, g
<1>11. SumFunctionOnSet(f, V) = SumFunctionOnSet(g, I)
  BY <1>2, <1>5, <1>6, SumImage
<1>12. SumFunctionOnSet(f, S) = SumFunctionOnSet(f, V)
  <2> HIDE DEF V
  <2> QED
    BY <1>3, <1>7, <1>8, <1>9, SumZeros
<1> QED
  BY <1>10, <1>11, <1>12 DEF I, g, RisesBetween
\* What the loop has reached rises as what was read does.
Reaches(A, s, policy) ==
  \A k \in 1 .. Len(s) :
    /\ A[k].reached \in Int
    /\ k > 1 => A[k].reached - A[k - 1].reached = RiseOver(s[k - 1].value, s[k].value, policy)

\* A sample rises over the one before it as the rows of its instant do.
LEMMA CurveRises ==
  ASSUME Null \notin Int, NEW rows \in Seq(Sample), NEW from \in Int, NEW to \in Int, NEW policy,
         NEW s, NEW e, Spans(s, e, rows, from, to), NEW A, Reaches(A, s, policy),
         NEW c, NEW g, Curve(c, g, s, A, Len(s)), NEW m \in 2 .. Len(c)
  PROVE  c[m].value - c[m - 1].value = RiseAt(rows, c[m].time, policy)
<1> DEFINE n == Len(s)
           p == g[m - 1]
           q == g[m]
           t == c[m].time
           S == {k \in DOMAIN rows : rows[k].time = t}
           I == (p + 1) .. q
           f == [j \in I |-> RiseOver(s[j - 1].value, s[j].value, policy)]
           R == [j \in 1 .. n |-> A[j].reached]
<1>1. /\ n \in Nat
      /\ \A j \in 1 .. n : /\ e[j] \in DOMAIN rows /\ s[j] = rows[e[j]] /\ s[j].time \in from .. to
                           /\ s[j].time \in Int
      /\ \A k \in DOMAIN rows : rows[k].value # Null /\ rows[k].time \in from .. to =>
           \E j \in 1 .. n : e[j] = k
  BY ReadsType
<1>2. /\ c \in Seq(Point) /\ g \in [1 .. Len(c) -> 1 .. n]
      /\ \A l \in 1 .. Len(c) : c[l].time = s[g[l]].time /\ c[l].value = A[g[l]].reached
      /\ \A k, l \in 1 .. Len(c) : k < l => c[k].time < c[l].time
      /\ \A l \in 1 .. Len(c), i \in 1 .. n : i <= g[l] <=> s[i].time <= c[l].time
      /\ \A i \in 1 .. n : \E l \in 1 .. Len(c) : c[l].time = s[i].time
  BY DEF Curve
<1>3. Len(c) \in Nat /\ m \in 1 .. Len(c) /\ m - 1 \in 1 .. Len(c) /\ m - 1 < m
  BY <1>2
<1> HIDE DEF n
<1>4. \A l \in 1 .. Len(c) : c[l].time \in Int
  <2>1. \A l \in 1 .. Len(c) : c[l] \in Point
    BY <1>2
  <2> QED
    BY <2>1 DEF Point
<1>5. p \in 1 .. n /\ q \in 1 .. n /\ p < q
  <2>1. p \in 1 .. n /\ q \in 1 .. n /\ s[p].time = c[m - 1].time /\ s[q].time = t
    BY <1>2, <1>3
  <2>2. c[m - 1].time < t
    BY <1>2, <1>3
  <2>3. s[p].time <= c[m].time /\ ~(s[q].time <= c[m - 1].time)
    BY <1>3, <1>4, <2>1, <2>2
  <2>4. p <= g[m] /\ ~(q <= g[m - 1])
    BY <1>2, <1>3, <2>1, <2>3
  <2> QED
    BY <1>1, <2>1, <2>4
<1>6. ASSUME NEW j \in 1 .. n PROVE j \in I <=> s[j].time = t
  <2>1. j \in I <=> s[j].time <= c[m].time /\ ~(s[j].time <= c[m - 1].time)
    <3>1. /\ j <= g[m] <=> s[j].time <= c[m].time
          /\ j <= g[m - 1] <=> s[j].time <= c[m - 1].time
      BY <1>2, <1>3
    <3> QED
      BY <1>1, <1>5, <3>1
  <2>2. PICK l \in 1 .. Len(c) : c[l].time = s[j].time
    BY <1>2
  <2>3. \/ l = m \/ l = m - 1 \/ l < m - 1 \/ m < l
    BY <1>3
  <2>4. /\ l < m - 1 => c[l].time < c[m - 1].time
        /\ m < l => c[m].time < c[l].time
        /\ c[m - 1].time < c[m].time
    BY <1>2, <1>3
  <2> QED
    BY <1>3, <1>4, <2>1, <2>2, <2>3, <2>4
<1>7. t \in from .. to
  BY <1>1, <1>2, <1>5, <1>3
<1>8. \A k \in S : rows[k].value # Null => \E j \in I : e[j] = k
  <2> SUFFICES ASSUME NEW k \in S, rows[k].value # Null PROVE \E j \in I : e[j] = k
    OBVIOUS
  <2>1. PICK j \in 1 .. n : e[j] = k
    BY <1>1, <1>7
  <2>2. s[j].time = t
    BY <1>1, <2>1
  <2> QED
    BY <1>6, <2>1, <2>2
<1>9. \A j \in I : e[j] \in S
  <2>1. \A j \in I : j \in 1 .. n
    BY <1>1, <1>5
  <2> QED
    BY <1>1, <1>6, <2>1
<1>10. Rises(rows, S, policy) = SumFunctionOnSet(f, I)
  <2>1. p \in Nat /\ q \in Nat /\ 1 <= p /\ q <= Len(s)
    BY <1>1, <1>5 DEF n
  <2>3. PlacedBetween(rows, S, e, p, q)
    BY <1>8, <1>9 DEF PlacedBetween
  <2>2. RisesBetween(rows, S, policy, s, p, q)
    <3> HIDE DEF S, p, q
    <3> QED
      BY <2>1, <2>3, RisesOfReads
  <2> QED
    BY <2>2 DEF RisesBetween
<1>11. SumFunctionOnSet(f, I) = R[q] - R[p]
  <2>1. p \in Nat /\ q \in Nat /\ p <= q
    BY <1>1, <1>5
  <2>2. \A i \in p .. q : i \in 1 .. n
    BY <1>1, <1>5
  <2>3. \A i \in p .. q : R[i] \in Int
    BY <2>2 DEF Reaches, n
  <2>4. ASSUME NEW i \in (p + 1) .. q PROVE f[i] = R[i] - R[i - 1]
    <3>1. i \in 1 .. n /\ i - 1 \in 1 .. n /\ i > 1
      BY <1>1, <1>5, SMTT(20)
    <3>2. A[i].reached - A[i - 1].reached = RiseOver(s[i - 1].value, s[i].value, policy)
      BY <3>1 DEF Reaches, n
    <3> QED
      BY <3>1, <3>2
  <2> HIDE DEF p, q, R, f
  <2> QED
    <3>1. Telescope(f, R, p, q)
      BY <2>1, <2>3, <2>4 DEF Telescope
    <3>2. SumFunctionOnSet(f, (p + 1) .. q) = R[q] - R[p]
      BY <3>1, SumTelescopes
    <3> QED
      BY <3>2
<1>12. R[q] = c[m].value /\ R[p] = c[m - 1].value
  BY <1>2, <1>3, <1>5
<1> QED
  BY <1>10, <1>11, <1>12 DEF RiseAt

\* A chart of a range of time: a sample for each of its instants with a value,
\* which rises over the one before it as the table does.
Charts(c, rows, from, to, policy) ==
  /\ c \in Seq(Point)
  /\ \A l, m \in 1 .. Len(c) : l < m => c[l].time < c[m].time
  /\ \A m \in 1 .. Len(c) : c[m].time \in SampleTimes(rows) \cap (from .. to)
  /\ \A t \in SampleTimes(rows) \cap (from .. to) : \E m \in 1 .. Len(c) : c[m].time = t
  /\ \A m \in 2 .. Len(c) : c[m].value - c[m - 1].value = RiseAt(rows, c[m].time, policy)

LEMMA SourceCharts ==
  ASSUME Null \notin Int, NEW rows \in Seq(Sample), NEW policy,
         NEW range, range.from \in Int, range.to \in Int
  PROVE  Charts(buildCounterBoundarySamples(sourceRows(rows, range), policy),
                rows, range.from, range.to, policy)
<1> DEFINE source == sourceRows(rows, range)
           s == ByTime(Filter(source, {r \in ToSet(source) : r.value # Null}))
           c == buildCounterBoundarySamples(source, policy)
           n == Len(s)
           from == range.from
           to == range.to
<1>1. PICK e : Spans(s, e, rows, from, to)
  BY SourceReads
<1>2. /\ n \in Nat
      /\ \A j \in 1 .. n : /\ e[j] \in DOMAIN rows /\ s[j] = rows[e[j]] /\ s[j].time \in from .. to
                           /\ s[j].time \in Int /\ s[j].value \in Int
      /\ \A i, j \in 1 .. n : i < j => s[i].time <= s[j].time
      /\ \A k \in DOMAIN rows : rows[k].value # Null /\ rows[k].time \in from .. to =>
           \E j \in 1 .. n : e[j] = k
  <2> HIDE DEF s
  <2> QED
    BY <1>1, ReadsType
<1>3. PICK A : Loops(A, s, policy) /\ c = A[n].samples
  <2> HIDE DEF source
  <2> QED
    BY <1>2, SamplesAre
<1> HIDE DEF s, c, source
<1>4. Timeline(s)
  BY <1>2 DEF Timeline
<1>5. Reaches(A, s, policy)
  BY <1>3, <1>4, LoopUnwraps DEF Reaches, Unwraps
<1>6. PICK g : Curve(c, g, s, A, n)
  BY <1>3, <1>4, LoopCurve
<1>7. /\ c \in Seq(Point) /\ g \in [1 .. Len(c) -> 1 .. n]
      /\ \A m \in 1 .. Len(c) : c[m].time = s[g[m]].time
      /\ \A l, m \in 1 .. Len(c) : l < m => c[l].time < c[m].time
      /\ \A i \in 1 .. n : \E m \in 1 .. Len(c) : c[m].time = s[i].time
  BY <1>6 DEF Curve
<1>8. \A m \in 2 .. Len(c) : c[m].value - c[m - 1].value = RiseAt(rows, c[m].time, policy)
  BY <1>1, <1>5, <1>6, CurveRises
<1>9. \A m \in 1 .. Len(c) : c[m].time \in SampleTimes(rows) \cap (from .. to)
  <2> SUFFICES ASSUME NEW m \in 1 .. Len(c) PROVE c[m].time \in SampleTimes(rows) \cap (from .. to)
    OBVIOUS
  <2>1. g[m] \in 1 .. n /\ c[m].time = s[g[m]].time
    BY <1>7
  <2>2. /\ e[g[m]] \in DOMAIN rows /\ s[g[m]] = rows[e[g[m]]] /\ s[g[m]].time \in from .. to
        /\ s[g[m]].value # Null
    BY <1>2, <2>1
  <2> QED
    BY <2>1, <2>2 DEF SampleTimes
<1>10. \A t \in SampleTimes(rows) \cap (from .. to) : \E m \in 1 .. Len(c) : c[m].time = t
  <2> SUFFICES ASSUME NEW t \in SampleTimes(rows), t \in from .. to
               PROVE  \E m \in 1 .. Len(c) : c[m].time = t
    OBVIOUS
  <2>1. PICK k \in DOMAIN rows : rows[k].value # Null /\ rows[k].time = t
    BY DEF SampleTimes
  <2>2. PICK j \in 1 .. n : e[j] = k
    BY <1>2, <2>1
  <2>3. s[j].time = t
    BY <1>2, <2>1, <2>2
  <2> QED
    BY <1>7, <2>3
<1>11. Charts(c, rows, from, to, policy)
  BY <1>7, <1>8, <1>9, <1>10 DEF Charts
<1> QED
  BY <1>11 DEF c, source
-----------------------------------------------------------------------------
LEMMA GreatestIs ==
  ASSUME NEW S \in SUBSET Int, NEW n \in S, \A m \in S : m <= n
  PROVE  Max(S) = n
<1>1. \A x \in S : (\A y \in S : x >= y) => x = n
  BY SMT
<1>2. n \in S /\ \A y \in S : n >= y
  OBVIOUS
<1> QED
  BY <1>1, <1>2 DEF Max

\* Samples in order, whose gaps divide Scale.
Even(c) ==
  /\ c \in Seq(Point)
  /\ \A l, m \in 1 .. Len(c) : l < m => c[l].time < c[m].time
  /\ \A m \in 2 .. Len(c) : Scale % (c[m].time - c[m - 1].time) = 0

LEMMA EvenType ==
  ASSUME NEW c, Even(c)
  PROVE  /\ Len(c) \in Nat /\ DOMAIN c = 1 .. Len(c)
         /\ \A m \in 1 .. Len(c) : c[m].time \in Int /\ c[m].value \in Int
         /\ \A l, m \in 1 .. Len(c) : l < m => c[l].time < c[m].time
         /\ \A m \in 2 .. Len(c) : /\ m \in 1 .. Len(c) /\ m - 1 \in 1 .. Len(c)
                                   /\ c[m].time - c[m - 1].time \in Nat \ {0}
<1>1. c \in Seq(Point)
  BY DEF Even
<1>2. Len(c) \in Nat /\ DOMAIN c = 1 .. Len(c) /\ \A m \in 1 .. Len(c) : c[m] \in Point
  BY <1>1
<1>3. \A m \in 1 .. Len(c) : c[m].time \in Int /\ c[m].value \in Int
  BY <1>2 DEF Point
<1>4. \A l, m \in 1 .. Len(c) : l < m => c[l].time < c[m].time
  BY DEF Even
<1>5. ASSUME NEW m \in 2 .. Len(c)
      PROVE  /\ m \in 1 .. Len(c) /\ m - 1 \in 1 .. Len(c)
             /\ c[m].time - c[m - 1].time \in Nat \ {0}
  <2>1. m \in 1 .. Len(c) /\ m - 1 \in 1 .. Len(c) /\ m - 1 < m
    BY <1>2
  <2>2. c[m - 1].time < c[m].time /\ c[m].time \in Int /\ c[m - 1].time \in Int
    BY <1>3, <1>4, <2>1
  <2> QED
    BY <2>1, <2>2
<1> QED
  BY <1>2, <1>3, <1>4, <1>5

LEMMA EvenEnds ==
  ASSUME NEW c, Even(c), NEW m \in 1 .. Len(c)
  PROVE  /\ c # <<>> /\ c[1].time \in Int /\ c[Len(c)].time \in Int
         /\ c[1].time <= c[m].time /\ c[m].time <= c[Len(c)].time
         /\ ~(c[m].time < c[1].time) /\ ~(c[m].time > c[Len(c)].time)
<1> DEFINE n == Len(c)
<1>1. /\ n \in Nat /\ m \in 1 .. n /\ (c = <<>> => n = 0)
      /\ \A l \in 1 .. n : c[l].time \in Int
      /\ \A k, l \in 1 .. n : k < l => c[k].time < c[l].time
  BY EvenType
<1> HIDE DEF n
<1>2. 1 \in 1 .. n /\ n \in 1 .. n
  BY <1>1
<1>3. m = 1 \/ 1 < m
  BY <1>1
<1>4. m = n \/ m < n
  BY <1>1
<1>5. /\ c[1].time \in Int /\ c[n].time \in Int /\ c[m].time \in Int
      /\ c[1].time <= c[m].time /\ c[m].time <= c[n].time
  BY <1>1, <1>2, <1>3, <1>4
<1> QED
  BY <1>1, <1>2, <1>5 DEF n

\* The line between two samples.
Line(c, m, t) ==
  Scale * c[m - 1].value
    + (Scale \div (c[m].time - c[m - 1].time)) * (c[m].value - c[m - 1].value) * (t - c[m - 1].time)

\* On a sample, and between two, a counter has the value on the line.
LEMMA OnSample ==
  ASSUME NEW c, Even(c), NEW m \in 1 .. Len(c)
  PROVE  interpolateCounterValue(c, c[m].time) = Scale * c[m].value
<1> DEFINE t == c[m].time
           S == {i \in DOMAIN c : c[i].time <= t}
<1>1. /\ Len(c) \in Nat /\ DOMAIN c = 1 .. Len(c)
      /\ \A l \in 1 .. Len(c) : c[l].time \in Int
      /\ \A k, l \in 1 .. Len(c) : k < l => c[k].time < c[l].time
  BY EvenType
<1>2. Max(S) = m
  <2>1. m \in S /\ S \in SUBSET Int
    BY <1>1
  <2>2. \A l \in S : l <= m
    BY <1>1
  <2> HIDE DEF S
  <2> QED
    BY <2>1, <2>2, GreatestIs
<1>3. c # <<>> /\ ~(t < c[1].time) /\ ~(t > c[Len(c)].time)
  BY <1>1, EvenEnds
<1> HIDE DEF S
<1> QED
  BY <1>2, <1>3 DEF interpolateCounterValue, S

LEMMA OnLine ==
  ASSUME Scale \in Nat, NEW c, Even(c), NEW m \in 2 .. Len(c), NEW t \in Int,
         c[m - 1].time <= t, t <= c[m].time
  PROVE  interpolateCounterValue(c, t) = Line(c, m, t)
<1> DEFINE S == {i \in DOMAIN c : c[i].time <= t}
           gap == c[m].time - c[m - 1].time
           q == Scale \div gap
<1>1. /\ Len(c) \in Nat /\ DOMAIN c = 1 .. Len(c)
      /\ \A l \in 1 .. Len(c) : c[l].time \in Int /\ c[l].value \in Int
      /\ \A k, l \in 1 .. Len(c) : k < l => c[k].time < c[l].time
      /\ m \in 1 .. Len(c) /\ m - 1 \in 1 .. Len(c) /\ gap \in Nat \ {0}
  BY EvenType
<1>2. q \in Int /\ q * gap = Scale
  <2>1. Scale % gap = 0
    BY DEF Even
  <2>2. gap \in Nat \ {0}
    BY <1>1
  <2> HIDE DEF gap
  <2>3. Scale \div gap \in Int /\ (Scale \div gap) * gap = Scale
    BY <2>1, <2>2
  <2> QED
    BY <2>3
<1>3. CASE t = c[m].time
  <2>1. interpolateCounterValue(c, t) = Scale * c[m].value
    BY <1>1, <1>3, OnSample
  <2>2. Line(c, m, t) = Scale * c[m - 1].value + q * (c[m].value - c[m - 1].value) * gap
    BY <1>3 DEF Line
  <2> DEFINE v == c[m - 1].value
             w == c[m].value
  <2>3. v \in Int /\ w \in Int /\ gap \in Int
    BY <1>1
  <2> HIDE DEF q, gap, v, w
  <2>5. Scale * v + q * (w - v) * gap = Scale * w
    BY <1>2, <2>3
  <2>4. Scale * c[m - 1].value + q * (c[m].value - c[m - 1].value) * gap = Scale * c[m].value
    BY <2>5 DEF v, w
  <2> QED
    BY <2>1, <2>2, <2>4
<1>4. CASE t # c[m].time
  <2>1. Max(S) = m - 1
    <3>1. m - 1 \in S /\ S \in SUBSET Int
      BY <1>1
    <3>2. \A l \in S : l <= m - 1
      <4> SUFFICES ASSUME NEW l \in S PROVE l <= m - 1
        OBVIOUS
      <4>1. l \in 1 .. Len(c) /\ c[l].time < c[m].time
        BY <1>1, <1>4
      <4>2. l # m /\ ~(m < l)
        BY <1>1, <4>1
      <4> QED
        BY <1>1, <4>1, <4>2
    <3> HIDE DEF S
    <3> QED
      BY <3>1, <3>2, GreatestIs
  <2>2. c # <<>> /\ ~(t < c[1].time) /\ ~(t > c[Len(c)].time)
    <3>1. /\ c # <<>> /\ c[1].time <= c[m - 1].time /\ c[m].time <= c[Len(c)].time
          /\ c[1].time \in Int /\ c[Len(c)].time \in Int
      BY <1>1, EvenEnds
    <3> QED
      BY <1>1, <3>1
  <2>3. (m - 1) + 1 = m
    BY <1>1
  <2>4. CASE c[m - 1].time = t
    <3>1. interpolateCounterValue(c, t) = Scale * c[m - 1].value
      BY <1>1, <2>4, OnSample
    <3>2. Line(c, m, t) = Scale * c[m - 1].value + q * (c[m].value - c[m - 1].value) * (t - t)
      BY <2>4 DEF Line
    <3>3. c[m].value - c[m - 1].value \in Int /\ Scale * c[m - 1].value \in Int /\ t - t = 0
      BY <1>1
    <3> HIDE DEF q
    <3> QED
      BY <1>2, <3>1, <3>2, <3>3
  <2>5. CASE c[m - 1].time # t
    <3> HIDE DEF S
    <3> QED
      BY <2>1, <2>2, <2>3, <2>5 DEF interpolateCounterValue, S, Line
  <2> QED
    BY <2>4, <2>5
<1> QED
  BY <1>3, <1>4
\* t, and no less than a and no more than b.
Clamp(t, a, b) == IF t < a THEN a ELSE IF b < t THEN b ELSE t

\* The part of a gap that is in [a, b).
Shares(before, after, a, b, rise) ==
  Share(before, after, a, b, rise)
    = (Scale \div (after - before)) * rise * (Clamp(after, a, b) - Clamp(before, a, b))

LEMMA ShareIs ==
  ASSUME NEW before \in Int, NEW after \in Int, before < after,
         NEW a \in Int, NEW b \in Int, a <= b, NEW rise
  PROVE  Shares(before, after, a, b, rise)
<1> DEFINE high == Min({after, b})
           low  == Max({before, a})
<1>1. high = IF after <= b THEN after ELSE b
  BY SmallerOf
<1>2. low = IF before <= a THEN a ELSE before
  BY LargerOf
<1> HIDE DEF high, low
<1>3. high \in Int /\ low \in Int
  BY <1>1, <1>2
<1>4. Max({0, high - low}) = IF 0 <= high - low THEN high - low ELSE 0
  BY <1>3, LargerOf
<1>5. Max({0, high - low}) = Clamp(after, a, b) - Clamp(before, a, b)
  BY <1>1, <1>2, <1>4 DEF Clamp
<1> QED
  BY <1>5 DEF Shares, Share, high, low

\* Between its first and its last sample a counter has a value.
LEMMA InterpolatesWithin ==
  ASSUME Scale \in Nat, NEW c, Even(c), NEW t \in Int, c # <<>>,
         c[1].time <= t, t <= c[Len(c)].time
  PROVE  interpolateCounterValue(c, t) \in Int
<1> DEFINE n == Len(c)
           S == {i \in 1 .. n : t <= c[i].time}
<1>1. /\ n \in Nat /\ DOMAIN c = 1 .. n
      /\ \A m \in 1 .. n : c[m].time \in Int /\ c[m].value \in Int
      /\ \A m \in 2 .. n : /\ m \in 1 .. n /\ m - 1 \in 1 .. n
                           /\ c[m].time - c[m - 1].time \in Nat \ {0}
  BY EvenType
<1>2. n # 0
  <2>1. c \in Seq(Point)
    BY DEF Even
  <2> QED
    BY <2>1
<1>3. n \in S /\ S \subseteq Nat
  BY <1>1, <1>2
<1>4. PICK m \in S : \A l \in S : m <= l
  <2> HIDE DEF S
  <2> QED
    BY <1>3, LeastElement
<1>5. m \in 1 .. n /\ t <= c[m].time
  OBVIOUS
<1>6. CASE m = 1
  <2>1. t = c[m].time
    BY <1>1, <1>5, <1>6
  <2>2. interpolateCounterValue(c, t) = Scale * c[m].value
    BY <1>5, <2>1, OnSample
  <2> QED
    BY <1>1, <1>5, <2>2
<1>7. CASE m # 1
  <2>1. m \in 2 .. n /\ m - 1 \in 1 .. n /\ ~(m <= m - 1)
    BY <1>1, <1>5, <1>7
  <2>2. m - 1 \notin S
    BY <1>4, <2>1
  <2>3. c[m - 1].time <= t
    BY <1>1, <2>1, <2>2
  <2>4. interpolateCounterValue(c, t) = Line(c, m, t)
    BY <1>5, <2>1, <2>3, OnLine
  <2>5. Line(c, m, t) \in Int
    <3> DEFINE gap == c[m].time - c[m - 1].time
               q == Scale \div gap
    <3>1. gap \in Nat \ {0}
      BY <1>1, <2>1
    <3>2. q \in Int
      <4> HIDE DEF gap
      <4> QED
        BY <3>1
    <3>3. c[m - 1].value \in Int /\ c[m].value \in Int /\ c[m - 1].time \in Int
      BY <1>1, <2>1
    <3>4. Line(c, m, t) = Scale * c[m - 1].value + q * (c[m].value - c[m - 1].value) * (t - c[m - 1].time)
      BY DEF Line
    <3> DEFINE v == c[m - 1].value
               w == c[m].value
               r == c[m - 1].time
    <3>5. v \in Int /\ w \in Int /\ r \in Int
      BY <3>3
    <3> HIDE DEF q, v, w, r
    <3>6. Scale * v + q * (w - v) * (t - r) \in Int
      BY <3>2, <3>5
    <3> QED
      BY <3>4, <3>6 DEF v, w, r
  <2> QED
    BY <2>4, <2>5
<1> QED
  BY <1>6, <1>7

\* Over the part of a gap that is in [a, b) a counter rises by its share.
LEMMA GapShare ==
  ASSUME Scale \in Nat, NEW c, Even(c), NEW a \in Int, NEW b \in Int, a <= b,
         c # <<>>, c[1].time <= a, b <= c[Len(c)].time, NEW m \in 2 .. Len(c)
  PROVE  interpolateCounterValue(c, Clamp(c[m].time, a, b))
           - interpolateCounterValue(c, Clamp(c[m - 1].time, a, b))
         = Share(c[m - 1].time, c[m].time, a, b, c[m].value - c[m - 1].value)
<1> DEFINE gap == c[m].time - c[m - 1].time
           q == Scale \div gap
           rise == c[m].value - c[m - 1].value
           s == c[m - 1].time
           x == Clamp(c[m - 1].time, a, b)
           y == Clamp(c[m].time, a, b)
           first == c[1].time
           last == c[Len(c)].time
<1>1. /\ m \in 1 .. Len(c) /\ m - 1 \in 1 .. Len(c) /\ gap \in Nat \ {0}
      /\ s \in Int /\ c[m].time \in Int
      /\ c[m - 1].value \in Int /\ rise \in Int
  <2>1. m \in 1 .. Len(c) /\ m - 1 \in 1 .. Len(c) /\ gap \in Nat \ {0}
    BY EvenType
  <2>2. \A l \in 1 .. Len(c) : c[l].time \in Int /\ c[l].value \in Int
    BY EvenType
  <2>3. c[m].time \in Int /\ c[m].value \in Int /\ s \in Int /\ c[m - 1].value \in Int
    BY <2>1, <2>2
  <2>4. rise \in Int
    BY <2>3
  <2> QED
    BY <2>1, <2>3, <2>4
<1>2. first \in Int /\ last \in Int /\ first <= s /\ c[m].time <= last
  BY <1>1, EvenEnds
<1>3. q \in Int
  <2>1. gap \in Nat \ {0}
    BY <1>1
  <2> HIDE DEF gap
  <2> QED
    BY <2>1
<1>4. s < c[m].time
  BY <1>1
<1>5. /\ x \in Int /\ first <= x /\ x <= last /\ y \in Int /\ first <= y /\ y <= last
      /\ x = y \/ (s <= x /\ x <= c[m].time /\ s <= y /\ y <= c[m].time)
  <2> DEFINE e == c[m].time
  <2>1. s \in Int /\ e \in Int /\ s < e /\ first <= s /\ e <= last
    BY <1>1, <1>2, <1>4
  <2> HIDE DEF s, e, first, last
  <2>2. /\ x = IF s < a THEN a ELSE IF b < s THEN b ELSE s
        /\ y = IF e < a THEN a ELSE IF b < e THEN b ELSE e
    BY DEF Clamp, s, e
  <2>3. first \in Int /\ last \in Int /\ first <= a /\ b <= last
    BY <1>2 DEF first, last
  <2> HIDE DEF x, y
  <2>4. /\ x \in Int /\ first <= x /\ x <= last /\ y \in Int /\ first <= y /\ y <= last
        /\ x = y \/ (s <= x /\ x <= e /\ s <= y /\ y <= e)
    BY <2>1, <2>2, <2>3
  <2> QED
    BY <2>4 DEF e
<1>6. Share(s, c[m].time, a, b, rise) = q * rise * (y - x)
  <2>1. s \in Int /\ c[m].time \in Int /\ s < c[m].time
    BY <1>1, <1>4
  <2>2. Shares(s, c[m].time, a, b, rise)
    <3> HIDE DEF s, rise
    <3> QED
      BY <2>1, ShareIs
  <2> QED
    BY <2>2 DEF Shares
<1>7. CASE x = y
  <2>1. interpolateCounterValue(c, x) \in Int
    <3> HIDE DEF x
    <3> QED
      BY <1>5, InterpolatesWithin
  <2>2. interpolateCounterValue(c, y) - interpolateCounterValue(c, x) = 0
    <3> HIDE DEF x, y
    <3> QED
      BY <1>7, <2>1
  <2>3. q * rise * (y - x) = 0
    <3> HIDE DEF x, y, q, rise
    <3> QED
      BY <1>1, <1>3, <1>5, <1>7
  <2> QED
    BY <1>6, <2>2, <2>3
<1>8. CASE x # y
  <2>1. interpolateCounterValue(c, x) = Line(c, m, x) /\ interpolateCounterValue(c, y) = Line(c, m, y)
    <3> HIDE DEF x, y
    <3> QED
      BY <1>5, <1>8, OnLine
  <2>2. /\ Line(c, m, x) = Scale * c[m - 1].value + q * rise * (x - s)
        /\ Line(c, m, y) = Scale * c[m - 1].value + q * rise * (y - s)
    BY DEF Line
  <2> DEFINE v == c[m - 1].value
  <2> HIDE DEF x, y, q, rise, v, s
  <2>3. (Scale * v + q * rise * (y - s)) - (Scale * v + q * rise * (x - s)) = q * rise * (y - x)
    BY <1>1, <1>3, <1>5, SMTT(20) DEF v
  <2>4. interpolateCounterValue(c, y) - interpolateCounterValue(c, x) = q * rise * (y - x)
    BY <2>1, <2>2, <2>3 DEF v
  <2> QED
    BY <1>6, <2>4 DEF x, y, rise, s
<1> QED
  BY <1>7, <1>8

\* A counter rises from a to b by its shares of all gaps.
LEMMA RiseIsShared ==
  ASSUME Scale \in Nat, NEW c, Even(c), NEW a \in Int, NEW b \in Int, a <= b,
         c # <<>>, c[1].time <= a, b <= c[Len(c)].time
  PROVE  LET g == [m \in 2 .. Len(c) |->
                     Share(c[m - 1].time, c[m].time, a, b, c[m].value - c[m - 1].value)]
         IN  /\ SumFunctionOnSet(g, 2 .. Len(c))
                  = interpolateCounterValue(c, b) - interpolateCounterValue(c, a)
             /\ \A m \in 2 .. Len(c) : g[m] \in Int
<1> DEFINE n == Len(c)
           At(m) == interpolateCounterValue(c, Clamp(c[m].time, a, b))
           g == [m \in 2 .. n |->
                   Share(c[m - 1].time, c[m].time, a, b, c[m].value - c[m - 1].value)]
           R == [m \in 1 .. n |-> At(m)]
<1>1. n \in Nat /\ n # 0
  <2>1. c \in Seq(Point)
    BY DEF Even
  <2> QED
    BY <2>1
<1>2. ASSUME NEW m \in 1 .. n PROVE At(m) \in Int
  <2> DEFINE t == Clamp(c[m].time, a, b)
  <2>1. /\ c[m].time \in Int /\ c[1].time \in Int /\ c[n].time \in Int
        /\ c[1].time <= c[m].time /\ c[m].time <= c[n].time
    BY EvenType, EvenEnds
  <2>2. t \in Int /\ c[1].time <= t /\ t <= c[n].time
    BY <2>1 DEF Clamp
  <2> HIDE DEF t
  <2>3. interpolateCounterValue(c, t) \in Int
    BY <2>2, InterpolatesWithin
  <2> QED
    BY <2>3 DEF t
<1>3. \A m \in 2 .. n : g[m] = R[m] - R[m - 1]
  <2> SUFFICES ASSUME NEW m \in 2 .. n PROVE g[m] = R[m] - R[m - 1]
    OBVIOUS
  <2>1. m \in 1 .. n /\ m - 1 \in 1 .. n
    BY <1>1
  <2>2. At(m) - At(m - 1) = Share(c[m - 1].time, c[m].time, a, b, c[m].value - c[m - 1].value)
    BY GapShare
  <2> HIDE DEF At
  <2> QED
    BY <2>1, <2>2
<1>4. \A m \in 1 .. n : R[m] \in Int
  BY <1>2
<1>5. R[1] = interpolateCounterValue(c, a) /\ R[n] = interpolateCounterValue(c, b)
  <2>1. 1 \in 1 .. n /\ n \in 1 .. n
    BY <1>1
  <2>2. c[1].time \in Int /\ c[n].time \in Int
    BY <2>1, EvenType
  <2>3. Clamp(c[1].time, a, b) = a /\ Clamp(c[n].time, a, b) = b
    BY <2>2 DEF Clamp
  <2> QED
    BY <2>1, <2>3
<1>6. SumFunctionOnSet(g, 2 .. n) = R[n] - R[1]
  <2> DEFINE one == 1
  <2> HIDE DEF g, R, n
  <2>1. n \in Nat /\ one \in Nat /\ one <= n /\ (one + 1) .. n = 2 .. n /\ one .. n = 1 .. n
    BY <1>1
  <2>2. \A i \in (one + 1) .. n : g[i] = R[i] - R[i - 1]
    BY <1>3, <2>1
  <2>4. R[one] = R[1]
    OBVIOUS
  <2>5. \A i \in one .. n : R[i] \in Int
    BY <1>4, <2>1
  <2>6. one \in Nat /\ n \in Nat /\ one <= n
    BY <2>1
  <2> HIDE DEF one
  <2>3. SumFunctionOnSet(g, (one + 1) .. n) = R[n] - R[one]
    <3>1. Telescope(g, R, one, n)
      BY <2>2, <2>5, <2>6 DEF Telescope
    <3> QED
      BY <3>1, SumTelescopes
  <2> QED
    BY <2>1, <2>3, <2>4
<1>7. \A m \in 2 .. n : g[m] \in Int
  <2> SUFFICES ASSUME NEW m \in 2 .. n PROVE g[m] \in Int
    OBVIOUS
  <2>1. m \in 1 .. n /\ m - 1 \in 1 .. n
    BY <1>1
  <2>2. g[m] = R[m] - R[m - 1] /\ R[m] \in Int /\ R[m - 1] \in Int
    BY <1>3, <1>4, <2>1
  <2> HIDE DEF g, R
  <2> QED
    BY <2>2
<1> QED
  BY <1>5, <1>6, <1>7
\* A finite set of numbers has a greatest one.
LEMMA GreatestExists ==
  ASSUME NEW S \in SUBSET Int, IsFiniteSet(S), S # {}
  PROVE  \E m \in S : \A n \in S : n <= m
<1> DEFINE G == {P \in SUBSET S : P # {} => \E m \in P : \A n \in P : n <= m}
<1>1. {} \in G
  OBVIOUS
<1>2. ASSUME NEW P \in SUBSET S, P # {}, \A x \in P : P \ {x} \in G PROVE P \in G
  <2>1. PICK x \in P : TRUE
    BY <1>2
  <2>2. CASE P = {x}
    BY <2>2
  <2>3. CASE P # {x}
    <3>1. PICK m \in P \ {x} : \A n \in P \ {x} : n <= m
      BY <1>2, <2>1, <2>3
    <3>2. \A n \in P : n = x \/ n <= m
      BY <3>1
    <3>3. m \in Int /\ x \in Int /\ P \subseteq Int
      BY <2>1, <3>1
    <3>4. CASE x <= m
      BY <3>1, <3>2, <3>4
    <3>5. CASE ~ x <= m
      <4>1. \A n \in P : n <= x
        BY <3>2, <3>3, <3>5
      <4> QED
        BY <2>1, <4>1
    <3> QED
      BY <3>4, <3>5
  <2> QED
    BY <2>2, <2>3
<1>3. S \in G
  <2> HIDE DEF G
  <2> QED
    BY <1>1, <1>2, PartsInduction
<1> QED
  BY <1>3
-----------------------------------------------------------------------------
LEMMA SampleType ==
  ASSUME Null \notin Int, NEW rows \in Seq(Sample)
  PROVE  /\ Len(rows) \in Nat /\ DOMAIN rows = 1 .. Len(rows) /\ IsFiniteSet(DOMAIN rows)
         /\ \A k \in DOMAIN rows : /\ rows[k] \in Sample /\ rows[k].time \in Int
                                   /\ rows[k].value # Null => rows[k].value \in Int
         /\ SampleTimes(rows) \subseteq Int
<1>1. Len(rows) \in Nat /\ DOMAIN rows = 1 .. Len(rows) /\ \A k \in DOMAIN rows : rows[k] \in Sample
  OBVIOUS
<1>2. IsFiniteSet(DOMAIN rows)
  BY <1>1, FS_Interval
<1>3. \A k \in DOMAIN rows : rows[k].time \in Int /\ (rows[k].value # Null => rows[k].value \in Int)
  BY <1>1 DEF Sample
<1> QED
  BY <1>1, <1>2, <1>3 DEF SampleTimes

\* A row rises by a number.
LEMMA RiseType ==
  ASSUME Null \notin Int, NEW rows \in Seq(Sample), NEW policy, NEW k \in DOMAIN rows
  PROVE  Rise(rows, k, policy) \in Int
<1> DEFINE n == Len(rows)
<1>1. n \in Nat /\ DOMAIN rows = 1 .. n /\ \A l \in 1 .. n : rows[l].time \in Int
  BY SampleType
<1>2. PICK o : /\ HasEach(o, n)
               /\ \A i, j \in 1 .. n : i < j => Sooner(rows, o[i], o[j])
  BY ByTimeIs
<1>3. /\ \A j \in 1 .. n : o[j] \in 1 .. n
      /\ \A l \in 1 .. n : \E j \in 1 .. n : o[j] = l
  BY <1>2 DEF HasEach
<1> HIDE DEF n
<1> DEFINE range == [from |-> rows[o[1]].time, to |-> rows[o[n]].time]
           source == sourceRows(rows, range)
           s == ByTime(Filter(source, {r \in ToSet(source) : r.value # Null}))
<1>4. \A l \in 1 .. n : rows[l].time \in range.from .. range.to
  <2> SUFFICES ASSUME NEW l \in 1 .. n PROVE rows[l].time \in rows[o[1]].time .. rows[o[n]].time
    OBVIOUS
  <2>1. PICK j \in 1 .. n : o[j] = l
    BY <1>3
  <2>2. 1 \in 1 .. n /\ n \in 1 .. n /\ (j = 1 \/ 1 < j) /\ (j = n \/ j < n)
    BY <1>1
  <2>3. /\ j = 1 \/ Sooner(rows, o[1], o[j])
        /\ j = n \/ Sooner(rows, o[j], o[n])
    BY <1>2, <2>2
  <2>4. rows[o[1]].time \in Int /\ rows[o[n]].time \in Int /\ rows[l].time \in Int
    BY <1>1, <1>3, <2>2
  <2>5. rows[o[1]].time <= rows[l].time /\ rows[l].time <= rows[o[n]].time
    BY <2>1, <2>3, <2>4 DEF Sooner
  <2> QED
    BY <2>4, <2>5
<1>5. range.from \in Int /\ range.to \in Int
  <2>1. 1 \in 1 .. n /\ n \in 1 .. n
    BY <1>1
  <2>2. o[1] \in 1 .. n /\ o[n] \in 1 .. n
    BY <1>3, <2>1
  <2> QED
    BY <1>1, <2>2
<1> HIDE DEF range
<1>6. PICK e : Spans(s, e, rows, range.from, range.to)
  BY <1>5, SourceReads
<1> HIDE DEF s
<1>7. CASE rows[k].value = Null
  BY <1>7 DEF Rise
<1>8. CASE rows[k].value # Null
  <2>1. PICK j \in 1 .. Len(s) : e[j] = k
    BY <1>1, <1>4, <1>5, <1>6, <1>8, ReadsType, SMTT(20)
  <2>2. Len(s) \in Nat /\ \A i \in 1 .. Len(s) : s[i].value \in Int
    BY <1>5, <1>6, ReadsType
  <2>3. CASE j = 1
    <3> DEFINE before == {l \in DOMAIN rows : rows[l].value # Null /\ Sooner(rows, l, k)}
    <3>1. ASSUME NEW l \in before PROVE FALSE
      <4>1. l \in 1 .. n /\ rows[l].value # Null /\ Sooner(rows, l, k) /\ k \in 1 .. n
        BY <1>1
      <4>5. l \in DOMAIN rows /\ rows[l].value # Null /\ rows[l].time \in range.from .. range.to
        BY <1>1, <1>4, <4>1
      <4>2. PICK i \in 1 .. Len(s) : e[i] = l
        BY <1>5, <1>6, <4>5, ReadsType, SMTT(20)
      <4>3. i = 1 \/ 1 < i
        BY <2>2
      <4>4. l = k \/ Sooner(rows, k, l)
        BY <1>5, <1>6, <2>1, <2>3, <4>2, <4>3, ReadsType
      <4> QED
        BY <1>1, <4>1, <4>4 DEF Sooner
    <3>2. before = {}
      BY <3>1
    <3> QED
      BY <3>2 DEF Rise
  <2>4. CASE j # 1
    <3>1. RisesAsRead(rows, s, e, policy)
      BY <1>5, <1>6, RiseIs
    <3>2. j \in 2 .. Len(s) /\ j - 1 \in 1 .. Len(s)
      BY <2>2, <2>4
    <3>3. Rise(rows, e[j], policy) = RiseOver(s[j - 1].value, s[j].value, policy)
      BY <3>1, <3>2 DEF RisesAsRead
    <3>4. RiseOver(s[j - 1].value, s[j].value, policy) \in Int
      <4>1. s[j - 1].value \in Int /\ s[j].value \in Int
        BY <2>2, <3>2
      <4> QED
        BY <4>1 DEF RiseOver
    <3> QED
      BY <2>1, <3>3, <3>4
  <2> QED
    BY <2>3, <2>4
<1> QED
  BY <1>7, <1>8

LEMMA RisesType ==
  ASSUME Null \notin Int, NEW rows \in Seq(Sample), NEW policy, NEW S \in SUBSET DOMAIN rows
  PROVE  Rises(rows, S, policy) \in Int
<1> DEFINE f == [k \in S |-> Rise(rows, k, policy)]
<1>1. IsFiniteSet(S)
  BY SampleType, FS_Subset
<1>2. \A k \in S : f[k] \in Int
  BY RiseType
<1>3. Rises(rows, S, policy) = SumFunctionOnSet(f, S)
  BY DEF Rises, SumFunction
<1> HIDE DEF f
<1>4. \A P \in SUBSET S : SumFunctionOnSet(f, P) \in Int
  BY <1>1, <1>2, SumFacts
<1>5. S \in SUBSET S
  OBVIOUS
<1> QED
  BY <1>3, <1>4, <1>5

\* The rise of a table from a to b: the shares of the rises of all its instants.
Earlier(rows, t) == Max({u \in SampleTimes(rows) : u < t})
NotFirst(rows) == {t \in SampleTimes(rows) : \E u \in SampleTimes(rows) : u < t}
Shared(rows, policy, a, b) ==
  SumFunction([t \in NotFirst(rows) |-> Share(Earlier(rows, t), t, a, b, RiseAt(rows, t, policy))])

LEMMA TimesFinite ==
  ASSUME Null \notin Int, NEW rows \in Seq(Sample)
  PROVE  IsFiniteSet(SampleTimes(rows))
<1> DEFINE D == {l \in DOMAIN rows : rows[l].value # Null}
           at == [k \in D |-> rows[k].time]
<1>1. IsFiniteSet(D)
  BY SampleType, FS_Subset
<1>2. at \in Surjection(D, SampleTimes(rows))
  BY DEF Surjection, SampleTimes
<1> QED
  BY <1>1, <1>2, FS_Surjection

LEMMA EarlierIs ==
  ASSUME Null \notin Int, NEW rows \in Seq(Sample), NEW t \in NotFirst(rows)
  PROVE  /\ Earlier(rows, t) \in SampleTimes(rows) /\ Earlier(rows, t) < t
         /\ \A u \in SampleTimes(rows) : u < t => u <= Earlier(rows, t)
<1> DEFINE S == {u \in SampleTimes(rows) : u < t}
<1>1. IsFiniteSet(S) /\ S # {} /\ S \subseteq Int
  <2>4. IsFiniteSet(S)
    BY TimesFinite, FS_Subset
  <2>5. S # {} /\ S \subseteq Int
    BY SampleType DEF NotFirst
  <2> QED
    BY <2>4, <2>5
<1>2. \E m \in S : \A u \in S : u <= m
  BY <1>1, GreatestExists
<1>3. PICK m \in S : \A u \in S : u <= m
  BY <1>2
<1>4. Max(S) = m
  <2> HIDE DEF S
  <2> QED
    BY <1>1, <1>3, GreatestIs
<1> QED
  BY <1>3, <1>4 DEF Earlier
LEMMA NothingShared ==
  ASSUME Scale \in Nat, NEW u \in Int, NEW t \in Int, u < t, NEW a \in Int, NEW b \in Int, a <= b,
         NEW rise \in Int
  PROVE  Clamp(u, a, b) = Clamp(t, a, b) => Share(u, t, a, b, rise) = 0
<1> DEFINE gap == t - u
           q == Scale \div gap
           x == Clamp(u, a, b)
           y == Clamp(t, a, b)
<1>1. gap \in Nat \ {0}
  OBVIOUS
<1>2. q \in Int
  <2> HIDE DEF gap
  <2> QED
    BY <1>1
<1>5. Shares(u, t, a, b, rise)
  BY ShareIs
<1>3. Share(u, t, a, b, rise) = q * rise * (y - x)
  BY <1>5 DEF Shares
<1>4. x \in Int /\ y \in Int
  BY DEF Clamp
<1>6. SUFFICES ASSUME x = y PROVE q * rise * (y - x) = 0
  BY <1>3
<1> HIDE DEF q, x, y
<1> QED
  BY <1>2, <1>4, <1>6

\* Where a chart covers a and b the table rises as the interpolated counter does:
\* no gap of the chart has a sample that it leaves out.
LEMMA SharedIs ==
  ASSUME Null \notin Int, Scale \in Nat, NEW rows \in Seq(Sample), NEW policy,
         NEW from \in Int, NEW to \in Int, NEW c, Charts(c, rows, from, to, policy), Even(c),
         NEW a \in Int, NEW b \in Int, a <= b,
         c # <<>>, c[1].time <= a, b <= c[Len(c)].time
  PROVE  Shared(rows, policy, a, b)
           = interpolateCounterValue(c, b) - interpolateCounterValue(c, a)
<1> DEFINE n == Len(c)
           T == SampleTimes(rows)
           L == NotFirst(rows)
           I == 2 .. n
           g == [m \in I |-> Share(c[m - 1].time, c[m].time, a, b, c[m].value - c[m - 1].value)]
           f == [t \in L |-> Share(Earlier(rows, t), t, a, b, RiseAt(rows, t, policy))]
           e == [m \in I |-> c[m].time]
           V == {e[m] : m \in I}
           first == c[1].time
           last == c[n].time
<1>1. /\ n \in Nat
      /\ \A m \in 1 .. n : c[m].time \in Int /\ c[m].time \in T /\ c[m].time \in from .. to
      /\ \A l, m \in 1 .. n : l < m => c[l].time < c[m].time
      /\ \A m \in I : m \in 1 .. n /\ m - 1 \in 1 .. n
      /\ \A t \in T : t \in from .. to => \E m \in 1 .. n : c[m].time = t
      /\ \A m \in I : c[m].value - c[m - 1].value = RiseAt(rows, c[m].time, policy)
  BY EvenType DEF Charts
<1>2. T \subseteq Int
  BY SampleType
<1>3. n # 0
  <2>1. c \in Seq(Point)
    BY DEF Even
  <2> QED
    BY <2>1
<1> HIDE DEF n
<1>4. /\ first \in T /\ last \in T /\ first \in Int /\ last \in Int
      /\ from <= first /\ first <= last /\ last <= to
  <2>1. 1 \in 1 .. n /\ n \in 1 .. n /\ (n = 1 \/ 1 < n)
    BY <1>1, <1>3
  <2>2. first = last \/ first < last
    BY <1>1, <2>1
  <2>3. first \in T /\ last \in T /\ first \in from .. to /\ last \in from .. to
    BY <1>1, <2>1
  <2> QED
    BY <2>2, <2>3
<1>5. ASSUME NEW m \in I
      PROVE  c[m].time \in L /\ Earlier(rows, c[m].time) = c[m - 1].time
  <2> DEFINE t == c[m].time
             u == c[m - 1].time
             w == Earlier(rows, t)
  <2>1. /\ m \in 1 .. n /\ m - 1 \in 1 .. n /\ t \in T /\ u \in T /\ t \in Int /\ u \in Int /\ u < t
        /\ t \in from .. to /\ u \in from .. to
    BY <1>1
  <2>2. t \in L
    BY <2>1 DEF NotFirst
  <2>3. w \in T /\ w < t /\ \A x \in T : x < t => x <= w
    BY <2>2, EarlierIs
  <2>4. u <= w /\ w \in Int
    BY <1>2, <2>1, <2>3
  <2>5. PICK l \in 1 .. n : c[l].time = w
    <3> HIDE DEF w, t, u
    <3>1. w \in from .. to
      BY <2>1, <2>3, <2>4
    <3> QED
      BY <1>1, <2>3, <3>1
  <2>6. l < m
    <3>1. ~(m < l) /\ l # m
      <4>1. m < l => c[m].time < c[l].time
        BY <1>1, <2>1
      <4> QED
        BY <2>1, <2>3, <2>4, <2>5, <4>1
    <3> QED
      BY <1>1, <2>1, <3>1
  <2>7. l = m - 1 \/ l < m - 1
    BY <1>1, <2>1, <2>6
  <2>8. w <= u
    BY <1>1, <2>1, <2>4, <2>5, <2>7
  <2> QED
    BY <2>1, <2>2, <2>4, <2>8
<1>6. \A m \in I : g[m] = f[e[m]]
  <2> SUFFICES ASSUME NEW m \in I PROVE g[m] = f[e[m]]
    OBVIOUS
  <2>1. f[e[m]] = Share(c[m - 1].time, c[m].time, a, b, RiseAt(rows, c[m].time, policy))
    BY <1>5
  <2>2. g[m] = Share(c[m - 1].time, c[m].time, a, b, c[m].value - c[m - 1].value)
    OBVIOUS
  <2>3. c[m].value - c[m - 1].value = RiseAt(rows, c[m].time, policy)
    BY <1>1
  <2> QED
    BY <2>1, <2>2, <2>3
<1>7. SumFunctionOnSet(g, I) = interpolateCounterValue(c, b) - interpolateCounterValue(c, a)
      /\ \A m \in I : g[m] \in Int
  BY RiseIsShared DEF n
<1>8. \A l, m \in I : e[l] = e[m] => l = m
  <2> SUFFICES ASSUME NEW l \in I, NEW m \in I, c[l].time = c[m].time PROVE l = m
    OBVIOUS
  <2>1. l \in 1 .. n /\ m \in 1 .. n /\ (l < m \/ m < l \/ l = m)
    BY <1>1
  <2> QED
    BY <1>1, <2>1
<1>9. V \in SUBSET L /\ IsFiniteSet(I)
  <2>1. V \in SUBSET L
    BY <1>5
  <2>2. n \in Int /\ 2 \in Int
    BY <1>1
  <2>3. IsFiniteSet(I)
    BY <2>2, FS_Interval
  <2> QED
    BY <2>1, <2>3
<1>10. \A t \in L : RiseAt(rows, t, policy) \in Int
  BY RisesType DEF RiseAt
<1>11. ASSUME NEW t \in L \ V PROVE f[t] = 0
  <2> DEFINE u == Earlier(rows, t)
             rise == RiseAt(rows, t, policy)
  <2>1. t \in T /\ t \in Int
    BY <1>2 DEF NotFirst
  <2>2. u \in T /\ u \in Int /\ u < t /\ \A x \in T : x < t => x <= u
    BY <1>2, EarlierIs
  <2>3. t <= first \/ last < t
    <3>1. ASSUME first < t, t <= last PROVE FALSE
      <4>1. t \in from .. to
        BY <1>4, <2>1, <3>1
      <4>2. PICK m \in 1 .. n : c[m].time = t
        BY <1>1, <2>1, <4>1
      <4>3. m # 1
        BY <1>4, <2>1, <3>1, <4>2
      <4>4. m \in I
        BY <1>1, <4>3
      <4> QED
        BY <4>2, <4>4
    <3> QED
      BY <1>4, <2>1, <3>1
  <2>4. last < t => last <= u
    BY <1>4, <2>2
  <2> HIDE DEF u, first, last
  <2>5. Clamp(u, a, b) = Clamp(t, a, b)
    <3>1. first <= a /\ b <= last
      BY DEF first, last, n
    <3> QED
      BY <1>4, <2>1, <2>2, <2>3, <2>4, <3>1 DEF Clamp
  <2>6. rise \in Int
    BY <1>10
  <2> HIDE DEF rise
  <2>7. Share(u, t, a, b, rise) = 0
    BY <2>1, <2>2, <2>5, <2>6, NothingShared
  <2> QED
    BY <2>7 DEF u, rise
<1>12. IsFiniteSet(L)
  <2>1. IsFiniteSet(T)
    BY TimesFinite
  <2> QED
    BY <2>1, FS_Subset DEF NotFirst
<1>13. \A t \in L : f[t] \in Int
  <2> SUFFICES ASSUME NEW t \in L PROVE f[t] \in Int
    OBVIOUS
  <2>1. CASE t \in V
    <3>1. PICK m \in I : e[m] = t
      BY <2>1
    <3>2. g[m] \in Int /\ g[m] = f[e[m]]
      BY <1>6, <1>7
    <3> HIDE DEF f, g, e
    <3> QED
      BY <3>1, <3>2
  <2>2. CASE t \notin V
    <3>1. f[t] = 0
      BY <2>2, <1>11
    <3> QED
      BY <3>1
  <2> QED
    BY <2>1, <2>2
<1>14. Shared(rows, policy, a, b) = SumFunctionOnSet(f, L)
  BY DEF Shared, SumFunction
<1> HIDE DEF f, g, e, I, L
<1>15. SumFunctionOnSet(f, V) = SumFunctionOnSet(g, I)
  BY <1>6, <1>7, <1>8, <1>9, SumImage
<1>16. SumFunctionOnSet(f, L) = SumFunctionOnSet(f, V)
  <2> HIDE DEF V
  <2> QED
    BY <1>9, <1>11, <1>12, <1>13, SumZeros
<1> QED
  BY <1>7, <1>14, <1>15, <1>16
-----------------------------------------------------------------------------
LEMMA DivMod ==
  ASSUME NEW t \in Int, NEW b \in Nat \ {0}
  PROVE  t = b * (t \div b) + (t % b)
OBVIOUS

\* The edges of a range, rounded to buckets.
LEMMA CeilingIs ==
  ASSUME NEW t \in Int, NEW b \in Nat \ {0}
  PROVE  /\ Ceiling(t, b) \in Int /\ t <= Ceiling(t, b)
         /\ \A k \in Int : k % b = 0 /\ t <= k => Ceiling(t, b) <= k
<1> DEFINE x == (t + b - 1) \div b
<1>1. x \in Int /\ t <= x * b /\ x * b < t + b
  OBVIOUS
<1>2. Ceiling(t, b) = x * b
  BY DEF Ceiling
<1> HIDE DEF x
<1>3. ASSUME NEW k \in Int, k % b = 0, t <= k PROVE x * b <= k
  <2> DEFINE y == k \div b
  <2>1. y \in Int /\ y * b = k
    BY <1>3
  <2> HIDE DEF y
  <2>2. x * b < y * b + b /\ y * b + b = (y + 1) * b
    BY <1>1, <1>3, <2>1
  <2>3. x < y + 1
    BY <1>1, <2>1, <2>2
  <2>4. x <= y
    BY <1>1, <2>1, <2>3
  <2>5. x * b <= y * b
    BY <1>1, <2>1, <2>4
  <2> QED
    BY <2>1, <2>5
<1> QED
  BY <1>1, <1>2, <1>3

LEMMA FloorIs ==
  ASSUME NEW t \in Int, NEW b \in Nat \ {0}
  PROVE  /\ Floor(t, b) \in Int /\ Floor(t, b) <= t
         /\ \A k \in Int : k % b = 0 /\ k <= t => k <= Floor(t, b)
<1> DEFINE x == t \div b
<1>1. x \in Int /\ x * b <= t /\ t < x * b + b
  OBVIOUS
<1>2. Floor(t, b) = x * b
  BY DEF Floor
<1> HIDE DEF x
<1>3. ASSUME NEW k \in Int, k % b = 0, k <= t PROVE k <= x * b
  <2> DEFINE y == k \div b
  <2>1. y \in Int /\ y * b = k
    BY <1>3
  <2> HIDE DEF y
  <2>2. y * b < x * b + b /\ x * b + b = (x + 1) * b
    BY <1>1, <1>3, <2>1
  <2>3. y < x + 1
    BY <1>1, <2>1, <2>2
  <2>4. y <= x
    BY <1>1, <2>1, <2>3
  <2>5. y * b <= x * b
    BY <1>1, <2>1, <2>4
  <2> QED
    BY <2>1, <2>5
<1> QED
  BY <1>1, <1>2, <1>3

LEMMA NextWhole ==
  ASSUME NEW k \in Int, NEW b \in Nat \ {0}, k % b = 0
  PROVE  (k + b) % b = 0
<1> DEFINE y == k \div b
           q == (k + b) \div b
           r == (k + b) % b
<1>1. y \in Int /\ y * b = k
  OBVIOUS
<1>2. q \in Int /\ r \in Int /\ 0 <= r /\ r < b /\ k + b = q * b + r
  <2> DEFINE l == k + b
  <2>1. l \in Int
    OBVIOUS
  <2> HIDE DEF l
  <2>2. l \div b \in Int /\ l % b \in 0 .. (b - 1)
    BY <2>1
  <2>3. l = b * (l \div b) + (l % b)
    BY <2>1, DivMod
  <2>4. q = l \div b /\ r = l % b /\ k + b = l
    BY DEF l
  <2> HIDE DEF q, r
  <2> QED
    BY <2>1, <2>2, <2>3, <2>4
<1> HIDE DEF y, q, r
<1>3. (y + 1) * b = q * b + r
  BY <1>1, <1>2
<1>4. y + 1 = q
  <2>1. (y + 1) * b < (q + 1) * b /\ q * b <= (y + 1) * b
    BY <1>1, <1>2, <1>3
  <2>2. y + 1 < q + 1
    BY <1>1, <1>2, <2>1
  <2>3. ~(y + 1 < q)
    BY <1>1, <1>2, <2>1
  <2> QED
    BY <1>1, <1>2, <2>2, <2>3
<1>5. r = 0
  BY <1>1, <1>2, <1>3, <1>4
<1> QED
  BY <1>5 DEF r

\* Every gap of the samples of a table divides Scale.
Scaled(rows) ==
  \A i, j \in DOMAIN rows :
    rows[i].time < rows[j].time /\ rows[i].value # Null /\ rows[j].value # Null =>
      Scale % (rows[j].time - rows[i].time) = 0

LEMMA ChartsEven ==
  ASSUME Null \notin Int, NEW rows \in Seq(Sample), Scaled(rows), NEW from, NEW to, NEW policy,
         NEW c, Charts(c, rows, from, to, policy)
  PROVE  Even(c)
<1>1. /\ c \in Seq(Point)
      /\ \A l, m \in 1 .. Len(c) : l < m => c[l].time < c[m].time
      /\ \A m \in 1 .. Len(c) : c[m].time \in SampleTimes(rows)
  BY DEF Charts
<1>2. ASSUME NEW m \in 2 .. Len(c) PROVE Scale % (c[m].time - c[m - 1].time) = 0
  <2>1. m \in 1 .. Len(c) /\ m - 1 \in 1 .. Len(c) /\ m - 1 < m
    BY <1>1
  <2>2. c[m - 1].time < c[m].time
    BY <1>1, <2>1
  <2>3. PICK j \in DOMAIN rows : rows[j].value # Null /\ rows[j].time = c[m].time
    BY <1>1, <2>1 DEF SampleTimes
  <2>4. PICK i \in DOMAIN rows : rows[i].value # Null /\ rows[i].time = c[m - 1].time
    BY <1>1, <2>1 DEF SampleTimes
  <2>5. Scale % (rows[j].time - rows[i].time) = 0
    BY <2>2, <2>3, <2>4 DEF Scaled
  <2> QED
    BY <2>3, <2>4, <2>5
<1> QED
  BY <1>1, <1>2 DEF Even

\* There are samples within two buckets of either edge of the bucket k.
Known(rows, k, b) ==
  /\ \E t \in SampleTimes(rows) : t \in (k - 2 * b) .. k
  /\ \E t \in SampleTimes(rows) : t \in (k + b) .. (k + 3 * b)

LEMMA InterpolatesOnlyWithin ==
  ASSUME NEW c, Even(c), NEW t \in Int, interpolateCounterValue(c, t) # Null
  PROVE  c # <<>> /\ c[1].time <= t /\ t <= c[Len(c)].time
<1>1. c # <<>> /\ ~(t < c[1].time) /\ ~(t > c[Len(c)].time)
  BY DEF interpolateCounterValue
<1>2. Len(c) \in Nat /\ Len(c) # 0
  <2>1. c \in Seq(Point)
    BY DEF Even
  <2> QED
    BY <1>1, <2>1
<1>3. c[1].time \in Int /\ c[Len(c)].time \in Int
  <2>1. 1 \in 1 .. Len(c)
    BY <1>2
  <2> QED
    BY <2>1, EvenEnds
<1> QED
  BY <1>1, <1>3

LEMMA RangeType ==
  ASSUME NEW from \in Int, NEW to \in Int, NEW b \in Nat \ {0}
  PROVE  LET range == counterBoundarySourceRange(from, to, b)
         IN  /\ range.from \in Int /\ range.to \in Int
             /\ \A k \in from .. (to - b) : k % b = 0 =>
                  range.from <= k - 2 * b /\ k + 3 * b <= range.to
<1> DEFINE range == counterBoundarySourceRange(from, to, b)
           low == Ceiling(from, b)
           high == Floor(to, b)
<1>1. /\ low \in Int /\ from <= low /\ high \in Int /\ high <= to
      /\ \A k \in Int : k % b = 0 /\ from <= k => low <= k
      /\ \A k \in Int : k % b = 0 /\ k <= to => k <= high
  BY CeilingIs, FloorIs
<1>2. range = IF to <= from \/ high <= low THEN [from |-> from, to |-> to]
              ELSE [from |-> low - 2 * b, to |-> high + 2 * b]
  BY DEF counterBoundarySourceRange
<1> HIDE DEF range, low, high
<1>3. range.from \in Int /\ range.to \in Int
  BY <1>1, <1>2
<1>4. ASSUME NEW k \in from .. (to - b), k % b = 0
      PROVE  range.from <= k - 2 * b /\ k + 3 * b <= range.to
  <2>1. k \in Int /\ from <= k /\ k + b <= to
    OBVIOUS
  <2>2. (k + b) % b = 0
    BY <1>4, <2>1, NextWhole
  <2>3. low <= k /\ k + b <= high
    <3>1. low <= k
      BY <1>1, <1>4, <2>1
    <3> DEFINE e == k + b
    <3>2. e \in Int /\ e % b = 0 /\ e <= to
      BY <2>1, <2>2
    <3> HIDE DEF e
    <3>3. e <= high
      BY <1>1, <3>2
    <3> QED
      BY <3>1, <3>3 DEF e
  <2>4. ~(to <= from \/ high <= low)
    BY <1>1, <2>1, <2>3
  <2>5. range.from = low - 2 * b /\ range.to = high + 2 * b
    BY <1>2, <2>4
  <2> QED
    BY <1>1, <2>1, <2>3, <2>5
<1> QED
  BY <1>3, <1>4 DEF range

\* The buckets of a counter are those of the property.
ExactBuckets(buckets, rows, from, to, b, policy) ==
  /\ \A d \in buckets : /\ d.delta = Max({0, Shared(rows, policy, d.bucket, d.bucket + b)})
                        /\ d.bucket >= from /\ d.bucket + b <= to
  /\ \A k \in from .. (to - b) : k % b = 0 /\ Known(rows, k, b) => \E d \in buckets : d.bucket = k

LEMMA CounterBucketsExact ==
  ASSUME Null \notin Int, Scale \in Nat, NEW rows \in Seq(Sample), Scaled(rows),
         NEW from \in Int, NEW to \in Int, NEW b \in Nat \ {0}, NEW policy
  PROVE  ExactBuckets(CounterBuckets(rows, from, to, b, policy), rows, from, to, b, policy)
<1> DEFINE range == counterBoundarySourceRange(from, to, b)
           c == buildCounterBoundarySamples(sourceRows(rows, range), policy)
           At(t) == interpolateCounterValue(c, t)
           buckets == CounterBuckets(rows, from, to, b, policy)
<1>1. buckets = {[bucket |-> k, delta |-> Max({0, At(k + b) - At(k)})] :
                   k \in {l \in BucketsOf(from, to, b) : At(l) # Null /\ At(l + b) # Null}}
  BY DEF CounterBuckets, buildBoundaryCounterDeltaResponse
<1>2. /\ range.from \in Int /\ range.to \in Int
      /\ \A k \in from .. (to - b) : k % b = 0 =>
           range.from <= k - 2 * b /\ k + 3 * b <= range.to
  BY RangeType
<1> HIDE DEF range
<1>3. Charts(c, rows, range.from, range.to, policy)
  BY <1>2, SourceCharts
<1> HIDE DEF c
<1>4. Even(c)
  BY <1>2, <1>3, ChartsEven
<1>5. \A k : k \in BucketsOf(from, to, b) <=>
               k \in Int /\ k >= from /\ k <= to /\ k % b = 0 /\ k + b <= to
  <2>1. /\ Ceiling(from, b) \in Int /\ from <= Ceiling(from, b)
        /\ \A k \in Int : k % b = 0 /\ from <= k => Ceiling(from, b) <= k
    BY CeilingIs
  <2> QED
    BY <2>1 DEF BucketsOf
<1>6. ASSUME NEW d \in buckets
      PROVE  /\ d.delta = Max({0, Shared(rows, policy, d.bucket, d.bucket + b)})
             /\ d.bucket >= from /\ d.bucket + b <= to
  <2> HIDE DEF buckets
  <2>1. PICK k \in BucketsOf(from, to, b) :
          /\ At(k) # Null /\ At(k + b) # Null
          /\ d = [bucket |-> k, delta |-> Max({0, At(k + b) - At(k)})]
    BY <1>1
  <2>2. k \in Int /\ k >= from /\ k + b <= to /\ k + b \in Int /\ k <= k + b
    BY <1>5
  <2>3. c # <<>> /\ c[1].time <= k /\ k + b <= c[Len(c)].time
    BY <1>4, <2>1, <2>2, InterpolatesOnlyWithin
  <2> DEFINE e == k + b
  <2>4. e \in Int /\ k <= e /\ e <= c[Len(c)].time
    BY <2>2, <2>3
  <2> HIDE DEF e
  <2>5. Shared(rows, policy, k, e) = At(e) - At(k)
    BY <1>2, <1>3, <1>4, <2>2, <2>3, <2>4, SharedIs
  <2>6. d.bucket = k /\ d.delta = Max({0, At(e) - At(k)})
    BY <2>1 DEF e
  <2> QED
    BY <2>2, <2>5, <2>6 DEF e
<1>7. ASSUME NEW k \in from .. (to - b), k % b = 0, Known(rows, k, b)
      PROVE  \E d \in buckets : d.bucket = k
  <2> HIDE DEF buckets
  <2>1. k \in Int /\ k + b \in Int /\ k >= from /\ k <= to /\ k + b <= to
    OBVIOUS
  <2>2. range.from <= k - 2 * b /\ k + 3 * b <= range.to
    BY <1>2, <1>7
  <2>3. PICK t \in SampleTimes(rows) : t \in (k - 2 * b) .. k
    BY <1>7 DEF Known
  <2>4. PICK u \in SampleTimes(rows) : u \in (k + b) .. (k + 3 * b)
    BY <1>7 DEF Known
  <2>5. t \in range.from .. range.to /\ u \in range.from .. range.to
    BY <1>2, <2>1, <2>2, <2>3, <2>4
  <2>6. PICK l \in 1 .. Len(c) : c[l].time = t
    BY <1>3, <2>3, <2>5 DEF Charts
  <2>7. PICK m \in 1 .. Len(c) : c[m].time = u
    BY <1>3, <2>4, <2>5 DEF Charts
  <2>8. c # <<>> /\ c[1].time <= t /\ u <= c[Len(c)].time /\ c[1].time \in Int /\ c[Len(c)].time \in Int
    BY <1>4, <2>6, <2>7, EvenEnds
  <2>9. /\ c[1].time <= k /\ k <= c[Len(c)].time
        /\ c[1].time <= k + b /\ k + b <= c[Len(c)].time
    BY <2>1, <2>3, <2>4, <2>8
  <2>10. At(k) \in Int /\ At(k + b) \in Int
    BY <1>4, <2>1, <2>8, <2>9, InterpolatesWithin
  <2>11. k \in BucketsOf(from, to, b)
    BY <1>5, <1>7, <2>1
  <2>12. [bucket |-> k, delta |-> Max({0, At(k + b) - At(k)})] \in buckets
    BY <1>1, <2>10, <2>11
  <2> QED
    BY <2>12
<1> QED
  BY <1>6, <1>7 DEF ExactBuckets
-----------------------------------------------------------------------------
\* All rows of a range that has a value in each of them.
Inside(rows, from, to) == {k \in DOMAIN rows : rows[k].time \in from .. to}
Followers(rows, from, to) ==
  {k \in Inside(rows, from, to) : \E l \in Inside(rows, from, to) : Sooner(rows, l, k)}

LEMMA AllReads ==
  ASSUME Null \notin Int, NEW rows \in Seq(Sample), NEW range, range.from \in Int, range.to \in Int,
         \A k \in Inside(rows, range.from, range.to) : rows[k].value # Null
  PROVE  \E e : Spans(ByTime(sourceRows(rows, range)), e, rows, range.from, range.to)
<1> DEFINE X == {r \in ToSet(rows) : r.time >= range.from /\ r.time <= range.to}
           source == Filter(rows, X)
           D == {k \in DOMAIN rows : rows[k] \in X}
           E == {k \in DOMAIN rows : rows[k].value # Null /\ rows[k].time \in range.from .. range.to}
<1>1. sourceRows(rows, range) = source
  BY DEF sourceRows
<1>2. PICK at : source \in Seq(Sample) /\ Keeps(source, at, rows, X, Len(rows))
  <2> HIDE DEF X
  <2> QED
    BY FilterKeeps
<1>3. PICK e : Sorts(ByTime(source), e, rows, D)
  <2> HIDE DEF X, source
  <2> QED
    BY <1>2, KeptByTime
<1>4. ASSUME NEW k \in DOMAIN rows PROVE k \in D <=> k \in E
  <2>1. rows[k].time \in Int /\ rows[k] \in ToSet(rows)
    BY SampleType DEF ToSet
  <2>2. rows[k] \in X <=> rows[k].time \in range.from .. range.to
    BY <2>1
  <2>3. rows[k].time \in range.from .. range.to => rows[k].value # Null
    BY DEF Inside
  <2> HIDE DEF X
  <2> QED
    BY <2>2, <2>3
<1>5. D = E
  BY <1>4
<1> HIDE DEF source, D
<1> QED
  BY <1>1, <1>3, <1>5 DEF Spans

\* The first of what was read is the only row that follows none.
LEMMA FollowersPlaced ==
  ASSUME Null \notin Int, NEW rows \in Seq(Sample), NEW from \in Int, NEW to \in Int,
         \A k \in Inside(rows, from, to) : rows[k].value # Null,
         NEW s, NEW e, Spans(s, e, rows, from, to), NEW one, one = 1
  PROVE  PlacedBetween(rows, Followers(rows, from, to), e, one, Len(s))
<1> DEFINE n == Len(s)
           S == Followers(rows, from, to)
<1>1. /\ n \in Nat
      /\ \A j \in 1 .. n : /\ e[j] \in DOMAIN rows /\ s[j] = rows[e[j]] /\ s[j].time \in from .. to
                           /\ s[j].time \in Int
      /\ \A i, j \in 1 .. n : i < j => Sooner(rows, e[i], e[j])
      /\ \A k \in DOMAIN rows : rows[k].value # Null /\ rows[k].time \in from .. to =>
           \E j \in 1 .. n : e[j] = k
  BY ReadsType
<1>2. \A k \in Inside(rows, from, to) : \E j \in 1 .. n : e[j] = k
  BY <1>1 DEF Inside
<1>3. \A j \in 1 .. n : e[j] \in Inside(rows, from, to)
  BY <1>1 DEF Inside
<1> HIDE DEF n
<1>4. \A k, l \in DOMAIN rows : ~(Sooner(rows, k, l) /\ Sooner(rows, l, k)) /\ ~Sooner(rows, k, k)
  <2>1. \A k \in DOMAIN rows : rows[k].time \in Int /\ k \in Int
    BY SampleType
  <2> QED
    BY <2>1 DEF Sooner
<1>5. S \in SUBSET DOMAIN rows
  BY DEF Followers, Inside
<1>6. ASSUME NEW k \in S PROVE \E j \in (one + 1) .. n : e[j] = k
  <2>1. PICK l \in Inside(rows, from, to) : Sooner(rows, l, k)
    BY DEF Followers
  <2>2. k \in Inside(rows, from, to) /\ k \in DOMAIN rows /\ l \in DOMAIN rows
    BY DEF Followers, Inside
  <2>3. PICK j \in 1 .. n : e[j] = k
    BY <1>2, <2>2
  <2>4. PICK i \in 1 .. n : e[i] = l
    BY <1>2
  <2>5. j # 1
    <3> SUFFICES ASSUME j = 1 PROVE FALSE
      OBVIOUS
    <3>1. i = 1 \/ 1 < i
      BY <1>1
    <3>2. i = 1 => l = k
      BY <2>3, <2>4
    <3>3. 1 < i => Sooner(rows, k, l)
      BY <1>1, <2>3, <2>4
    <3> QED
      BY <1>4, <2>1, <2>2, <3>1, <3>2, <3>3
  <2>6. j \in (one + 1) .. n
    BY <1>1, <2>5
  <2> QED
    BY <2>3, <2>6
<1>7. ASSUME NEW j \in (one + 1) .. n PROVE e[j] \in S
  <2>1. j \in 1 .. n /\ j - 1 \in 1 .. n /\ j - 1 < j
    BY <1>1
  <2>2. Sooner(rows, e[j - 1], e[j])
    BY <1>1, <2>1
  <2> QED
    BY <1>3, <2>1, <2>2 DEF Followers
<1> HIDE DEF S
<1>8. PlacedBetween(rows, S, e, one, n)
  BY <1>5, <1>6, <1>7 DEF PlacedBetween
<1> QED
  BY <1>8 DEF S, n

\* The undivided rises add up to those of the rows.
RisesAdd(rises, rows, from, to, policy) ==
  SumFunction([r \in rises |-> r.delta]) = Rises(rows, Followers(rows, from, to), policy)

LEMMA RisesExact ==
  ASSUME Null \notin Int, NEW rows \in Seq(Sample), NEW policy \in {"new-value", "null"},
         NEW range, range.from \in Int, range.to \in Int,
         \A k \in Inside(rows, range.from, range.to) : rows[k].value # Null,
         NEW rises, rises = buildCounterDeltaSourceSql(sourceRows(rows, range), policy)
  PROVE  RisesAdd(rises, rows, range.from, range.to, policy)
<1> DEFINE from == range.from
           to == range.to
           s == ByTime(sourceRows(rows, range))
           n == Len(s)
           I == 2 .. n
           goesUp(i) == s[i].value >= s[i - 1].value
           kept == {i \in I : /\ Null \notin {s[i].value, s[i - 1].value}
                              /\ policy = "null" => goesUp(i)}
           at == [i \in I |-> [row |-> i, time |-> s[i].time,
                               delta |-> IF goesUp(i) THEN s[i].value - s[i - 1].value
                                         ELSE s[i].value]]
           g == [i \in I |-> RiseOver(s[i - 1].value, s[i].value, policy)]
           f == [r \in rises |-> r.delta]
<1>1. PICK e : Spans(s, e, rows, from, to)
  BY AllReads
<1>2. rises = {at[i] : i \in kept}
  BY DEF buildCounterDeltaSourceSql
<1> HIDE DEF s
<1>3. n \in Nat /\ \A i \in 1 .. n : s[i].value \in Int
  BY <1>1, ReadsType
<1> HIDE DEF n
<1>4. ASSUME NEW i \in I
      PROVE  /\ s[i].value \in Int /\ s[i - 1].value \in Int /\ g[i] \in Int
             /\ i \in kept <=> (policy = "null" => goesUp(i))
             /\ i \in kept => at[i].delta = g[i]
             /\ i \notin kept => g[i] = 0
             /\ at[i].row = i
  <2> DEFINE u == s[i - 1].value
             v == s[i].value
  <2>1. u \in Int /\ v \in Int
    <3>1. i \in 1 .. n /\ i - 1 \in 1 .. n
      BY <1>3
    <3> QED
      BY <1>3, <3>1
  <2>2. i \in kept <=> (policy = "null" => v >= u)
    BY <2>1
  <2>3. at[i].row = i /\ at[i].delta = IF v >= u THEN v - u ELSE v
    OBVIOUS
  <2>4. g[i] = RiseOver(u, v, policy)
    OBVIOUS
  <2>5. RiseOver(u, v, policy) = IF v >= u THEN v - u ELSE IF policy = "new-value" THEN v ELSE 0
    BY DEF RiseOver
  <2>6. goesUp(i) <=> v >= u
    OBVIOUS
  <2>7. s[i].value \in Int /\ s[i - 1].value \in Int
    BY <2>1
  <2> HIDE DEF kept, at, g, u, v, goesUp
  <2> QED
    BY <2>1, <2>2, <2>3, <2>4, <2>5, <2>6, <2>7
<1>5. kept \in SUBSET I /\ IsFiniteSet(I) /\ IsFiniteSet(kept)
  <2>1. n \in Int /\ 2 \in Int
    BY <1>3
  <2>2. IsFiniteSet(I)
    BY <2>1, FS_Interval
  <2>3. kept \in SUBSET I
    OBVIOUS
  <2>4. IsFiniteSet(kept)
    BY <2>2, <2>3, FS_Subset
  <2> QED
    BY <2>2, <2>3, <2>4
<1>6. \A i \in kept : g[i] = f[at[i]] /\ g[i] \in Int
  <2> SUFFICES ASSUME NEW i \in kept PROVE g[i] = f[at[i]] /\ g[i] \in Int
    OBVIOUS
  <2>1. i \in I
    BY <1>5
  <2>2. at[i] \in rises
    BY <1>2
  <2>3. f[at[i]] = at[i].delta
    <3> HIDE DEF at
    <3> QED
      BY <2>2
  <2>4. at[i].delta = g[i] /\ g[i] \in Int
    BY <1>4, <2>1
  <2> QED
    BY <2>3, <2>4
<1>7. \A i, j \in kept : at[i] = at[j] => i = j
  <2> SUFFICES ASSUME NEW i \in kept, NEW j \in kept, at[i] = at[j] PROVE i = j
    OBVIOUS
  <2>1. at[i].row = i /\ at[j].row = j
    BY <1>4, <1>5
  <2> HIDE DEF at
  <2> QED
    BY <2>1
<1>8. SumFunction(f) = SumFunctionOnSet(f, rises)
  BY DEF SumFunction
<1> DEFINE one == 1
<1>9. one = 1 /\ (one + 1) .. n = I
  OBVIOUS
<1> HIDE DEF one
<1>10. PlacedBetween(rows, Followers(rows, from, to), e, one, Len(s))
  BY <1>1, <1>9, FollowersPlaced
<1>11. RisesBetween(rows, Followers(rows, from, to), policy, s, one, Len(s))
  <2>1. one \in Nat /\ Len(s) \in Nat /\ 1 <= one /\ Len(s) <= Len(s)
    BY <1>3, <1>9 DEF n
  <2> QED
    BY <1>1, <1>10, <2>1, RisesOfReads
<1>12. Rises(rows, Followers(rows, from, to), policy) = SumFunctionOnSet(g, I)
  BY <1>9, <1>11 DEF RisesBetween, n
<1> HIDE DEF f, g, at, I, kept
<1>13. SumFunctionOnSet(f, rises) = SumFunctionOnSet(g, kept)
  <2>1. SumFunctionOnSet(f, {at[i] : i \in kept}) = SumFunctionOnSet(g, kept)
    BY <1>5, <1>6, <1>7, SumImage
  <2> QED
    BY <1>2, <2>1
<1>14. SumFunctionOnSet(g, I) = SumFunctionOnSet(g, kept)
  <2>1. \A i \in I : g[i] \in Int /\ (i \notin kept => g[i] = 0)
    BY <1>4
  <2> QED
    BY <1>5, <2>1, SumZeros
<1> QED
  BY <1>8, <1>12, <1>13, <1>14 DEF RisesAdd, f
\* What the property says of a question and its answer.
Counted(a, b) ==
  a.kind = "counter" =>
    LET q == a.question
    IN  /\ ExactBuckets(b.buckets, a.rows, q.from, q.to, q.bucket, q.policy)
        /\ (\A k \in Inside(a.rows, q.from, q.to) : a.rows[k].value # Null) =>
             RisesAdd(b.rises, a.rows, q.from, q.to, q.policy)

\* The definitions above name its parts.
LEMMA CounterExactIs == CounterExact <=> Counted(asked, answer)
BY DEF CounterExact, Counted, ExactBuckets, RisesAdd, Shared, NotFirst, Earlier, RiseAt, Known,
       SampleTimes, Inside, Followers

\* What the answer to a question is.
LEMMA CounterAnswers ==
  ASSUME NEW rows \in CounterRows, NEW q \in CounterQuestions, NEW a, NEW b,
         a = [kind |-> "counter", rows |-> rows, question |-> q],
         b = [buckets |-> CounterBuckets(rows, q.from, q.to, q.bucket, q.policy),
              rises |-> buildCounterDeltaSourceSql(
                          sourceRows(rows, [from |-> q.from, to |-> q.to]), q.policy)]
  PROVE  Counted(a, b)
<1> DEFINE range == [from |-> q.from, to |-> q.to]
           buckets == CounterBuckets(rows, q.from, q.to, q.bucket, q.policy)
           rises == buildCounterDeltaSourceSql(sourceRows(rows, range), q.policy)
<1>1. /\ Null \notin Int /\ Scale \in Nat /\ rows \in Seq(Sample)
      /\ q.from \in Int /\ q.to \in Int /\ q.bucket \in Nat \ {0}
      /\ q.policy \in {"new-value", "null"}
  BY ArchiveAssumption, CounterAssumption DEF RowsFit, SamplesFit, Sample
<1>2. Scaled(rows)
  <2>1. \A r, s \in ToSet(rows) :
          r.time < s.time /\ Null \notin {r.value, s.value} => Scale % (s.time - r.time) = 0
    BY CounterAssumption DEF SamplesFit
  <2>2. \A k \in DOMAIN rows : rows[k] \in ToSet(rows)
    BY DEF ToSet
  <2> QED
    BY <2>1, <2>2 DEF Scaled
<1>3. ExactBuckets(buckets, rows, q.from, q.to, q.bucket, q.policy)
  BY <1>1, <1>2, CounterBucketsExact
<1>4. ASSUME \A k \in Inside(rows, q.from, q.to) : rows[k].value # Null
      PROVE  RisesAdd(rises, rows, q.from, q.to, q.policy)
  <2>1. range.from = q.from /\ range.to = q.to
    OBVIOUS
  <2> HIDE DEF range
  <2>2. RisesAdd(rises, rows, range.from, range.to, q.policy)
    BY <1>1, <1>4, <2>1, RisesExact
  <2> QED
    BY <2>1, <2>2
<1>5. a.kind = "counter" /\ a.rows = rows /\ a.question = q /\ b.buckets = buckets /\ b.rises = rises
  OBVIOUS
<1> HIDE DEF buckets, rises
<1> QED
  BY <1>3, <1>4, <1>5 DEF Counted

\* A bucket of a counter has the rise of all the samples there are, also of those that
\* the read left out; it is answered when both its edges have samples within two buckets;
\* and the undivided rises add up to what the samples rose (counterBoundarySourceRange,
\* buildCounterBoundarySamples, interpolateCounterValue, buildCounterDeltaSourceSql).
THEOREM CounterAlwaysExact == AnswersSpec => []CounterExact
<1>1. AnswersInit => CounterExact
  BY CounterExactIs DEF AnswersInit, Idle, Counted
<1>2. ASSUME CounterExact, [AnswersNext]_<<asked, answer>>
      PROVE  CounterExact'
  <2>0. CounterExact' <=> Counted(asked, answer)'
    BY CounterExactIs, PTL
  <2>1. CASE UNCHANGED <<asked, answer>>
    <3>1. Counted(asked, answer) => Counted(asked, answer)'
      BY <2>1 DEF Counted
    <3> QED
      BY <1>2, <2>0, <3>1, CounterExactIs
  <2>2. ASSUME NEW rows \in CounterRows, NEW q \in CounterQuestions, ReadCounter(rows, q)
        PROVE  CounterExact'
    <3>1. Counted(asked', answer')
      BY <2>2, CounterAnswers DEF ReadCounter
    <3>2. Counted(asked, answer)'
      BY <3>1 DEF Counted
    <3> QED
      BY <2>0, <3>2
  <2>3. ASSUME asked'.kind # "counter" PROVE CounterExact'
    BY <2>0, <2>3 DEF Counted
  <2>4. \/ \E rows \in CounterRows, q \in CounterQuestions : ReadCounter(rows, q)
        \/ asked'.kind # "counter"
        \/ UNCHANGED <<asked, answer>>
    <3>1. ASSUME NEW w, NEW q, ReadEntity(w, q) PROVE asked'.kind # "counter"
      BY <3>1 DEF ReadEntity
    <3>2. ASSUME NEW r, NEW q, ExportRows(r, q) PROVE asked'.kind # "counter"
      BY <3>2 DEF ExportRows
    <3>3. ASSUME NEW r, NEW q, RecoverLatest(r, q) PROVE asked'.kind # "counter"
      BY <3>3 DEF RecoverLatest
    <3>4. ASSUME NEW r, NEW q, ResolveTables(r, q) PROVE asked'.kind # "counter"
      BY <3>4 DEF ResolveTables
    <3>5. ASSUME NEW from, NEW to, NormalizeRange(from, to) PROVE asked'.kind # "counter"
      BY <3>5 DEF NormalizeRange
    <3>6. ASSUME Done PROVE asked'.kind # "counter"
      BY <3>6 DEF Done, Idle
    <3> QED
      BY <1>2, <3>1, <3>2, <3>3, <3>4, <3>5, <3>6 DEF AnswersNext, Ask
  <2> QED
    BY <2>1, <2>2, <2>3, <2>4
<1> QED
  BY <1>1, <1>2, PTL DEF AnswersSpec, answerVars

-----------------------------------------------------------------------------
(* Entities: what one statement reads of a table.  A statement permutes    *)
(* and cuts the rows that its condition keeps.                             *)

\* The columns of an ORDER BY: one time, or two.
Key(ob) == DOMAIN ob = 1 .. 1 \/ DOMAIN ob = 1 .. 2

\* The rows have the times that order them.
HaveTimes(s, ob) == /\ Len(s) \in Nat /\ DOMAIN s = 1 .. Len(s)
                    /\ \A i \in 1 .. Len(s), k \in DOMAIN ob : s[i].at[ob[k]] \in Int

\* r has the rows of s, in the order of ob; o[k] is the place in s of r[k].
Arranges(o, r, s, ob) ==
  /\ Len(r) = Len(s) /\ DOMAIN r = 1 .. Len(s)
  /\ HasEach(o, Len(s)) /\ \A k \in 1 .. Len(s) : r[k] = s[o[k]]
  /\ \A i, j \in 1 .. Len(s) : i < j => Before(s, o[i], o[j], ob)

LEMMA OneColumn ==
  ASSUME NEW ob, DOMAIN ob = 1 .. 1, NEW s, NEW i, NEW j
  PROVE  Before(s, i, j, ob) <=> \/ s[i].at[ob[1]] > s[j].at[ob[1]]
                                 \/ s[i].at[ob[1]] = s[j].at[ob[1]] /\ i < j
<1>1. 1 .. (1 - 1) = {} /\ 1 .. 1 = {1}
  OBVIOUS
<1> QED
  BY <1>1 DEF Before

LEMMA TwoColumns ==
  ASSUME NEW ob, DOMAIN ob = 1 .. 2, NEW s, NEW i, NEW j
  PROVE  Before(s, i, j, ob) <=>
           \/ s[i].at[ob[1]] > s[j].at[ob[1]]
           \/ s[i].at[ob[1]] = s[j].at[ob[1]] /\ s[i].at[ob[2]] > s[j].at[ob[2]]
           \/ s[i].at[ob[1]] = s[j].at[ob[1]] /\ s[i].at[ob[2]] = s[j].at[ob[2]] /\ i < j
<1>1. 1 .. (1 - 1) = {} /\ 1 .. (2 - 1) = {1} /\ 1 .. 2 = {1, 2}
  OBVIOUS
<1> QED
  BY <1>1 DEF Before

\* ORDER BY is a strict order, whichever columns it has.
LEMMA BeforeIsStrict ==
  ASSUME NEW ob, Key(ob), NEW s, HaveTimes(s, ob)
  PROVE  StrictOrder({p \in (1 .. Len(s)) \X (1 .. Len(s)) : Before(s, p[1], p[2], ob)},
                     1 .. Len(s))
<1> DEFINE D == 1 .. Len(s)
           R == {p \in D \X D : Before(s, p[1], p[2], ob)}
           f == [i \in D |-> s[i].at[ob[1]]]
           g == [i \in D |-> s[i].at[ob[2]]]
<1>0. Len(s) \in Nat /\ \A i \in D, k \in DOMAIN ob : s[i].at[ob[k]] \in Int
  BY DEF HaveTimes
<1>1. \A i, j \in D : <<i, j>> \in R <=> Before(s, i, j, ob)
  OBVIOUS
<1>2. f \in [D -> Int]
  BY <1>0 DEF Key
<1>3. CASE DOMAIN ob = 1 .. 1
  <2> DEFINE B(i, j) == f[i] > f[j] \/ (f[i] = f[j] /\ i < j)
  <2>1. \A i, j \in D : Before(s, i, j, ob) <=> B(i, j)
    BY <1>3, OneColumn
  <2> HIDE DEF f
  <2>2. /\ \A i \in D : ~ B(i, i)
        /\ \A i, j, k \in D : B(i, j) /\ B(j, k) => B(i, k)
        /\ \A i, j \in D : i = j \/ B(i, j) \/ B(j, i)
    BY <1>0, <1>2
  <2> HIDE DEF B, R
  <2> QED
    BY <1>1, <2>1, <2>2 DEF StrictOrder, R
<1>4. CASE DOMAIN ob = 1 .. 2
  <2> DEFINE B(i, j) == \/ f[i] > f[j]
                        \/ f[i] = f[j] /\ g[i] > g[j]
                        \/ f[i] = f[j] /\ g[i] = g[j] /\ i < j
  <2>1. \A i, j \in D : Before(s, i, j, ob) <=> B(i, j)
    BY <1>4, TwoColumns
  <2>2. g \in [D -> Int]
    BY <1>0, <1>4
  <2> HIDE DEF f, g
  <2>3. /\ \A i \in D : ~ B(i, i)
        /\ \A i, j, k \in D : B(i, j) /\ B(j, k) => B(i, k)
        /\ \A i, j \in D : i = j \/ B(i, j) \/ B(j, i)
    BY <1>0, <1>2, <2>2, SMTT(20)
  <2> HIDE DEF B, R
  <2> QED
    BY <1>1, <2>1, <2>3 DEF StrictOrder, R
<1> QED
  BY <1>3, <1>4 DEF Key

LEMMA NewestArranges ==
  ASSUME NEW temporal, Key(temporal.orderBy), NEW s, HaveTimes(s, temporal.orderBy)
  PROVE  \E o : Arranges(o, Newest(s, temporal), s, temporal.orderBy)
<1> DEFINE n == Len(s)
           ob == temporal.orderBy
           R == {p \in (1 .. n) \X (1 .. n) : Before(s, p[1], p[2], ob)}
           o == OrderOf(s, R)
<1>1. n \in Nat /\ DOMAIN s = 1 .. n
  BY DEF HaveTimes
<1>2. StrictOrder(R, 1 .. n)
  BY BeforeIsStrict
<1>3. Newest(s, temporal) = Ordered(s, R)
  BY <1>1 DEF Newest
<1>4. \A i, j : <<i, j>> \in R => Before(s, i, j, ob)
  OBVIOUS
<1> HIDE DEF R, ob, n
<1>5. InOrder(o, R, 1 .. n) /\ Ordered(s, R) = [k \in 1 .. n |-> s[o[k]]]
  BY <1>1, <1>2, OrderedIs DEF n
<1> HIDE DEF o
<1>6. HasEach(o, n)
  BY <1>1, <1>2, <1>5, EnumerationHasAll
<1>7. Len(Newest(s, temporal)) = n
  BY <1>1, <1>3, <1>5
<1>8. \A i, j \in 1 .. n : i < j => Before(s, o[i], o[j], ob)
  BY <1>4, <1>5 DEF InOrder
<1>9. Arranges(o, Newest(s, temporal), s, ob)
  BY <1>3, <1>5, <1>6, <1>7, <1>8 DEF Arranges, n
<1> QED
  BY <1>9 DEF ob

\* Newest first by the first column.
LEMMA ArrangedFalls ==
  ASSUME NEW ob, Key(ob), NEW s, HaveTimes(s, ob), NEW o, NEW r, Arranges(o, r, s, ob)
  PROVE  \A i, j \in 1 .. Len(s) : i <= j => r[i].at[ob[1]] >= r[j].at[ob[1]]
<1>1. /\ \A k \in 1 .. Len(s) : o[k] \in 1 .. Len(s) /\ r[k] = s[o[k]]
      /\ \A i, j \in 1 .. Len(s) : i < j => Before(s, o[i], o[j], ob)
      /\ \A k \in 1 .. Len(s) : s[k].at[ob[1]] \in Int
      /\ Len(s) \in Nat
  <2>1. 1 \in DOMAIN ob
    BY DEF Key
  <2>2. Len(s) \in Nat /\ \A k \in 1 .. Len(s) : s[k].at[ob[1]] \in Int
    BY <2>1 DEF HaveTimes
  <2>3. \A k \in 1 .. Len(s) : o[k] \in 1 .. Len(s) /\ r[k] = s[o[k]]
    BY DEF Arranges, HasEach
  <2>4. \A i, j \in 1 .. Len(s) : i < j => Before(s, o[i], o[j], ob)
    BY DEF Arranges
  <2> QED
    BY <2>2, <2>3, <2>4
<1> SUFFICES ASSUME NEW i \in 1 .. Len(s), NEW j \in 1 .. Len(s), i < j
             PROVE  s[o[i]].at[ob[1]] >= s[o[j]].at[ob[1]]
  BY <1>1, SMTT(20)
<1>2. Before(s, o[i], o[j], ob)
  BY <1>1
<1>3. s[o[i]].at[ob[1]] > s[o[j]].at[ob[1]] \/ s[o[i]].at[ob[1]] = s[o[j]].at[ob[1]]
  BY <1>2, OneColumn, TwoColumns DEF Key
<1> QED
  BY <1>1, <1>3

\* Places that differ are no more than there are.
LEMMA NoMoreThan ==
  ASSUME NEW n \in Nat, NEW S, IsFiniteSet(S), NEW f, \A i \in 1 .. n : f[i] \in S,
         \A i, j \in 1 .. n : f[i] = f[j] => i = j
  PROVE  n <= Cardinality(S)
<1> DEFINE s == [i \in 1 .. n |-> f[i]]
<1>1. s \in Seq(S) /\ Len(s) = n /\ DOMAIN s = 1 .. n /\ \A i \in 1 .. n : s[i] = f[i]
  OBVIOUS
<1> HIDE DEF s
<1>2. Distinct(s) /\ Range(s) \subseteq S
  BY <1>1 DEF Distinct, Range
<1>3. Cardinality(Range(s)) = n
  BY <1>1, <1>2, DistinctLength
<1> QED
  BY <1>2, <1>3, FS_Subset

\* s has rows of the places own, each once, and all if it is whole; h[j] is the place of s[j].
Draws(h, s, rows, own, whole) ==
  /\ s \in Seq(ToSet(rows))
  /\ \A j \in 1 .. Len(s) : h[j] \in own /\ s[j] = rows[h[j]]
  /\ \A i, j \in 1 .. Len(s) : h[i] = h[j] => i = j
  /\ own # {} => Len(s) > 0
  /\ whole => \A l \in own : \E j \in 1 .. Len(s) : h[j] = l

LEMMA FilterDraws ==
  ASSUME NEW rows, rows \in Seq(ToSet(rows)), NEW S
  PROVE  \E h : Draws(h, Filter(rows, S), rows, {k \in DOMAIN rows : rows[k] \in S}, TRUE)
<1> DEFINE T == ToSet(rows)
           s == Filter(rows, S)
           own == {k \in DOMAIN rows : rows[k] \in S}
<1>1. PICK at : s \in Seq(T) /\ Keeps(s, at, rows, S, Len(rows))
  BY FilterKeeps
<1> HIDE DEF s, T
<1>2. DOMAIN rows = 1 .. Len(rows) /\ Len(rows) \in Nat /\ Len(s) \in Nat
  BY <1>1 DEF T
<1>3. /\ \A i \in 1 .. Len(s) : at[i] \in 1 .. Len(rows) /\ s[i] = rows[at[i]] /\ s[i] \in S
      /\ \A i, j \in 1 .. Len(s) : i < j => at[i] < at[j]
      /\ \A k \in 1 .. Len(rows) : rows[k] \in S => \E i \in 1 .. Len(s) : at[i] = k
  BY <1>1 DEF Keeps
<1>4. \A j \in 1 .. Len(s) : at[j] \in own /\ s[j] = rows[at[j]]
  BY <1>2, <1>3
<1>5. \A i, j \in 1 .. Len(s) : at[i] = at[j] => i = j
  <2> SUFFICES ASSUME NEW i \in 1 .. Len(s), NEW j \in 1 .. Len(s), at[i] = at[j] PROVE i = j
    OBVIOUS
  <2>1. at[i] \in Int /\ ~ at[i] < at[j] /\ ~ at[j] < at[i]
    BY <1>2, <1>3
  <2>2. ~ i < j /\ ~ j < i
    BY <1>3, <2>1
  <2> QED
    BY <1>2, <2>2
<1>6. \A l \in own : \E j \in 1 .. Len(s) : at[j] = l
  BY <1>2, <1>3
<1>7. own # {} => Len(s) > 0
  BY <1>2, <1>6
<1> HIDE DEF own
<1>8. Draws(at, s, rows, own, TRUE)
  BY <1>1, <1>4, <1>5, <1>6, <1>7 DEF Draws, T
<1> QED
  BY <1>8 DEF own, s

\* r has the elements of s at the places I, in their order.
Picks(at, r, s, I) ==
  /\ Len(r) \in Nat /\ DOMAIN r = 1 .. Len(r)
  /\ \A k \in 1 .. Len(r) : at[k] \in I /\ r[k] = s[at[k]]
  /\ \A i, j \in 1 .. Len(r) : at[i] = at[j] => i = j
  /\ \A i \in I : \E k \in 1 .. Len(r) : at[k] = i

LEMMA PickedPicks ==
  ASSUME NEW s, Len(s) \in Nat, DOMAIN s = 1 .. Len(s), NEW I \in SUBSET (1 .. Len(s))
  PROVE  \E at : Picks(at, Picked(s, I), s, I)
<1> DEFINE n == Len(s)
           ids == [i \in 1 .. n |-> i]
           order == Filter(ids, I)
           m == Len(order)
<1>1. ids \in Seq(1 .. n) /\ Len(ids) = n /\ \A i \in 1 .. n : ids[i] = i
  OBVIOUS
<1> HIDE DEF ids
<1>2. PICK at : order \in Seq(1 .. n) /\ Keeps(order, at, ids, I, n)
  BY <1>1, FilterKeeps
<1>3. Picked(s, I) = [k \in DOMAIN order |-> s[order[k]]]
  BY DEF Picked, ids
<1> HIDE DEF order
<1>4. m \in Nat /\ DOMAIN order = 1 .. m
  BY <1>2
<1>5. /\ \A k \in 1 .. m : at[k] \in 1 .. n /\ order[k] = at[k] /\ order[k] \in I
      /\ \A i, j \in 1 .. m : i < j => at[i] < at[j]
      /\ \A k \in 1 .. n : k \in I => \E i \in 1 .. m : at[i] = k
  BY <1>1, <1>2, ZenonT(20) DEF Keeps
<1> HIDE DEF n, m
<1>6. Len(Picked(s, I)) = m /\ DOMAIN Picked(s, I) = 1 .. m
  BY <1>3, <1>4
<1>7. \A k \in 1 .. m : at[k] \in I /\ Picked(s, I)[k] = s[at[k]]
  BY <1>3, <1>4, <1>5
<1>8. ASSUME NEW i \in 1 .. m, NEW j \in 1 .. m, at[i] = at[j] PROVE i = j
  <2>1. at[i] \in Int /\ n \in Nat
    BY <1>5 DEF n
  <2>2. ~ at[i] < at[j] /\ ~ at[j] < at[i]
    BY <1>8, <2>1
  <2>3. ~ i < j /\ ~ j < i
    BY <1>5, <2>2
  <2> QED
    BY <1>4, <2>3
<1>9. \A i \in I : \E k \in 1 .. m : at[k] = i
  BY <1>5 DEF n
<1>10. Picks(at, Picked(s, I), s, I)
  BY <1>4, <1>6, <1>7, <1>8, <1>9 DEF Picks
<1> QED
  BY <1>10

\* The last row of the latest time is not replaced.
LEMMA LatestOnKeepsOne ==
  ASSUME NEW s, Len(s) \in Nat, DOMAIN s = 1 .. Len(s), Len(s) > 0, NEW point,
         \A i \in 1 .. Len(s) : s[i].at[point] \in Int
  PROVE  \E i \in 1 .. Len(s) : \A j \in 1 .. Len(s) :
           ~ \/ s[j].at[point] > s[i].at[point]
             \/ s[j].at[point] = s[i].at[point] /\ j > i
<1> DEFINE D == 1 .. Len(s)
           f == [i \in D |-> s[i].at[point]]
           times == {f[i] : i \in D}
<1>1. IsFiniteSet(D) /\ f \in [D -> Int] /\ f \in Surjection(D, times)
  <2>1. f \in [D -> Int] /\ f \in [D -> times] /\ \A t \in times : \E i \in D : f[i] = t
    OBVIOUS
  <2> HIDE DEF f, times
  <2> QED
    BY <2>1, IntervalSize DEF Surjection
<1>2. times \in SUBSET Int /\ IsFiniteSet(times) /\ times # {}
  BY <1>1, FS_Surjection
<1> HIDE DEF f
<1>3. PICK t \in times : \A u \in times : u <= t
  <2> HIDE DEF times
  <2> QED
    BY <1>2, GreatestExists
<1> DEFINE L == {i \in D : f[i] = t}
<1>4. L \in SUBSET Int /\ L \subseteq D /\ L # {}
  BY <1>3
<1>5. IsFiniteSet(L)
  BY <1>1, <1>4, FS_Subset
<1>6. PICK i \in L : \A j \in L : j <= i
  <2> HIDE DEF L
  <2> QED
    BY <1>4, <1>5, GreatestExists
<1>7. ASSUME NEW j \in D PROVE ~ (f[j] > f[i] \/ (f[j] = f[i] /\ j > i))
  <2>1. f[j] \in times /\ f[j] <= t /\ f[i] = t /\ f[j] \in Int /\ t \in Int
    BY <1>1, <1>2, <1>3, <1>6
  <2>2. f[j] = t => j <= i
    BY <1>6
  <2> QED
    BY <1>4, <2>1, <2>2
<1>8. i \in D /\ \A j \in D : f[j] = s[j].at[point]
  BY <1>6 DEF f
<1>9. ASSUME NEW j \in D
      PROVE  ~ (s[j].at[point] > s[i].at[point] \/ (s[j].at[point] = s[i].at[point] /\ j > i))
  <2>1. f[j] = s[j].at[point] /\ f[i] = s[i].at[point]
    BY <1>8
  <2> QED
    BY <1>7, <2>1
<1> DEFINE B(k, j) == \/ s[j].at[point] > s[k].at[point]
                      \/ s[j].at[point] = s[k].at[point] /\ j > k
<1>10. \A j \in 1 .. Len(s) : ~ B(i, j)
  BY <1>9
<1>11. i \in 1 .. Len(s)
  BY <1>8
<1> HIDE DEF B, D, L, times
<1>12. \E k \in 1 .. Len(s) : \A j \in 1 .. Len(s) : ~ B(k, j)
  BY <1>10, <1>11
<1> QED
  BY <1>12 DEF B

LEMMA LatestDraws ==
  ASSUME NEW rows, NEW s, NEW h, NEW own, Draws(h, s, rows, own, TRUE), NEW columns,
         \A i \in 1 .. Len(s) : s[i].at[resolvePointTimeColumn(columns)] \in Int
  PROVE  \E g : Draws(g, LatestOn(s, columns), rows, own, FALSE)
<1> DEFINE point == resolvePointTimeColumn(columns)
           n == Len(s)
           I == {i \in DOMAIN s : ~ \E j \in DOMAIN s :
                   /\ SamePartition(s[i], s[j], columns)
                   /\ \/ s[j].at[point] > s[i].at[point]
                      \/ s[j].at[point] = s[i].at[point] /\ j > i}
           r == Picked(s, I)
<1>1. /\ s \in Seq(ToSet(rows)) /\ n \in Nat /\ DOMAIN s = 1 .. n
      /\ \A j \in 1 .. n : h[j] \in own /\ s[j] = rows[h[j]]
      /\ \A i, j \in 1 .. n : h[i] = h[j] => i = j
      /\ own # {} => n > 0
  BY DEF Draws
<1>2. LatestOn(s, columns) = r
  BY DEF LatestOn
<1>3. n > 0 => I # {}
  <2> SUFFICES ASSUME n > 0 PROVE I # {}
    OBVIOUS
  <2> DEFINE B(i, j) == \/ s[j].at[point] > s[i].at[point]
                        \/ s[j].at[point] = s[i].at[point] /\ j > i
  <2>1. PICK i \in 1 .. n : \A j \in 1 .. n : ~ B(i, j)
    BY <1>1, LatestOnKeepsOne
  <2>2. I = {k \in DOMAIN s : ~ \E j \in DOMAIN s : SamePartition(s[k], s[j], columns) /\ B(k, j)}
    OBVIOUS
  <2> HIDE DEF B, I
  <2> QED
    BY <1>1, <2>1, <2>2
<1>4. I \in SUBSET (1 .. n)
  BY <1>1
<1> HIDE DEF I
<1>5. PICK at : Picks(at, r, s, I)
  BY <1>1, <1>4, PickedPicks
<1> HIDE DEF r, n
<1> DEFINE g == [k \in 1 .. Len(r) |-> h[at[k]]]
<1>6. /\ Len(r) \in Nat /\ DOMAIN r = 1 .. Len(r)
      /\ \A k \in 1 .. Len(r) : at[k] \in I /\ r[k] = s[at[k]]
      /\ \A i, j \in 1 .. Len(r) : at[i] = at[j] => i = j
      /\ \A i \in I : \E k \in 1 .. Len(r) : at[k] = i
  BY <1>5 DEF Picks
<1>7. \A k \in 1 .. Len(r) : at[k] \in 1 .. n /\ r[k] = s[at[k]] /\ g[k] = h[at[k]]
  BY <1>4, <1>6
<1> HIDE DEF g
<1>8. r \in Seq(ToSet(rows))
  <2>1. \A k \in 1 .. n : s[k] \in ToSet(rows)
    BY <1>1
  <2>2. \A k \in 1 .. Len(r) : r[k] \in ToSet(rows)
    BY <1>7, <2>1
  <2>3. r = [k \in 1 .. Len(r) |-> r[k]]
    <3>1. r = [k \in DOMAIN s |-> r[k]] \/ r = [k \in DOMAIN r |-> r[k]]
      BY DEF r, Picked
    <3> QED
      BY <1>6 DEF r, Picked
  <2>4. r \in [1 .. Len(r) -> ToSet(rows)]
    BY <2>2, <2>3
  <2> QED
    BY <1>6, <2>4
<1>9. \A k \in 1 .. Len(r) : g[k] \in own /\ r[k] = rows[g[k]]
  BY <1>1, <1>7
<1>10. \A i, j \in 1 .. Len(r) : g[i] = g[j] => i = j
  BY <1>1, <1>6, <1>7, SMTT(20)
<1>11. own # {} => Len(r) > 0
  BY <1>1, <1>3, <1>6
<1>12. Draws(g, r, rows, own, FALSE)
  BY <1>8, <1>9, <1>10, <1>11 DEF Draws
<1> QED
  BY <1>2, <1>12

\* The places that a part reads.
OfPart(rows, entity, part, temporal) ==
  {k \in DOMAIN rows : OwnRow(rows[k], entity, part.topic) /\ Overlaps(rows[k], part, temporal)}

LEMMA SourceDraws ==
  ASSUME NEW rows, rows \in Seq(ToSet(rows)), NEW entity, NEW part, NEW dedupe, NEW columns,
         NEW temporal,
         resolvePointTimeColumn(columns) # Null =>
           \A r \in ToSet(rows) : r.at[resolvePointTimeColumn(columns)] \in Int
  PROVE  \E h : Draws(h, buildEntitySourceSql(rows, entity, part, dedupe, columns, temporal), rows,
                      OfPart(rows, entity, part, temporal), ~ canApplyDedupe(dedupe, columns))
<1> DEFINE T == ToSet(rows)
           S == {r \in T : OwnRow(r, entity, part.topic) /\ Overlaps(r, part, temporal)}
           s == Filter(rows, S)
           own == {k \in DOMAIN rows : rows[k] \in S}
           dedupes == canApplyDedupe(dedupe, columns)
<1>1. own = OfPart(rows, entity, part, temporal)
  <2>1. \A k \in DOMAIN rows : rows[k] \in T
    BY DEF ToSet
  <2>2. \A k \in DOMAIN rows : rows[k] \in S <=>
          OwnRow(rows[k], entity, part.topic) /\ Overlaps(rows[k], part, temporal)
    BY <2>1
  <2> HIDE DEF S
  <2> QED
    BY <2>2 DEF OfPart
<1>2. buildEntitySourceSql(rows, entity, part, dedupe, columns, temporal)
        = IF dedupes THEN LatestOn(s, columns) ELSE s
  BY DEF buildEntitySourceSql, Deduped
<1> HIDE DEF S
<1>3. PICK h : Draws(h, s, rows, own, TRUE)
  BY FilterDraws
<1> HIDE DEF s, own
<1>4. CASE ~ dedupes
  BY <1>1, <1>2, <1>3, <1>4
<1>5. CASE dedupes
  <2>1. resolvePointTimeColumn(columns) # Null
    BY <1>5 DEF canApplyDedupe
  <2>2. \A i \in 1 .. Len(s) : s[i] \in T
    BY <1>3 DEF Draws
  <2>3. PICK g : Draws(g, LatestOn(s, columns), rows, own, FALSE)
    <3>1. \A i \in 1 .. Len(s) : s[i].at[resolvePointTimeColumn(columns)] \in Int
      BY <2>1, <2>2
    <3> QED
      BY <1>3, <3>1, LatestDraws
  <2>4. Draws(g, LatestOn(s, columns), rows, own, ~ dedupes)
    BY <1>5, <2>3 DEF Draws
  <2> QED
    BY <1>1, <1>2, <1>5, <2>4
<1> QED
  BY <1>4, <1>5

\* A page of a part: what it leaves out, of rows that are not deduplicated, is no newer.
Page(g, data, rows, own, whole, limit, c) ==
  /\ Draws(g, data, rows, own, FALSE) /\ Len(data) <= limit
  /\ whole => \A l \in own :
       \/ \E j \in 1 .. Len(data) : g[j] = l
       \/ /\ Len(data) = limit /\ limit < Len(rows)
          /\ \A j \in 1 .. Len(data) : data[j].at[c] >= rows[l].at[c]

\* LIMIT keeps the rows it does in their order.
LEMMA LimitedHas ==
  ASSUME NEW T, NEW s \in Seq(T), NEW limit \in Nat
  PROVE  /\ Limited(s, limit) \in Seq(T)
         /\ Len(Limited(s, limit)) = IF limit <= Len(s) THEN limit ELSE Len(s)
         /\ \A k \in 1 .. Len(Limited(s, limit)) : Limited(s, limit)[k] = s[k] /\ k \in 1 .. Len(s)
<1> DEFINE m == IF limit <= Len(s) THEN limit ELSE Len(s)
           r == SubSeq(s, 1, m)
<1>1. Limited(s, limit) = r
  BY SmallerOf DEF Limited
<1>2. m \in 0 .. Len(s) /\ Len(s) \in Nat
  OBVIOUS
<1> HIDE DEF m
<1>3. r \in Seq(T) /\ Len(r) = m /\ \A k \in 1 .. m : r[k] = s[k] /\ k \in 1 .. Len(s)
  BY <1>2
<1> HIDE DEF r
<1> QED
  BY <1>1, <1>3 DEF m

LEMMA PageOfSource ==
  ASSUME NEW rows, rows \in Seq(ToSet(rows)), NEW own \in SUBSET (DOMAIN rows), NEW h, NEW s, NEW whole,
         Draws(h, s, rows, own, whole), NEW temporal, Key(temporal.orderBy),
         \A l \in own, k \in DOMAIN temporal.orderBy : rows[l].at[temporal.orderBy[k]] \in Int,
         NEW limit \in Nat \ {0}
  PROVE  \E g : Page(g, Limited(Newest(s, temporal), limit), rows, own, whole, limit,
                     temporal.orderBy[1])
<1> DEFINE T == ToSet(rows)
           ob == temporal.orderBy
           n == Len(s)
           r == Newest(s, temporal)
           d == Limited(r, limit)
           m == Len(d)
<1>1. /\ s \in Seq(T) /\ n \in Nat /\ DOMAIN s = 1 .. n
      /\ \A j \in 1 .. n : h[j] \in own /\ s[j] = rows[h[j]]
      /\ \A i, j \in 1 .. n : h[i] = h[j] => i = j
      /\ own # {} => n > 0
      /\ whole => \A l \in own : \E j \in 1 .. n : h[j] = l
  BY DEF Draws
<1>2. HaveTimes(s, ob)
  BY <1>1 DEF HaveTimes
<1>3. PICK o : Arranges(o, r, s, ob)
  BY <1>2, NewestArranges
<1>4. /\ Len(r) = n /\ DOMAIN r = 1 .. n
      /\ \A k \in 1 .. n : o[k] \in 1 .. n /\ r[k] = s[o[k]]
      /\ \A i, j \in 1 .. n : o[i] = o[j] => i = j
      /\ \A k \in 1 .. n : \E i \in 1 .. n : o[i] = k
  BY <1>3 DEF Arranges, HasEach
<1>5. \A i, j \in 1 .. n : i <= j => r[i].at[ob[1]] >= r[j].at[ob[1]]
  BY <1>2, <1>3, ArrangedFalls
<1>6. r \in Seq(T)
  <2>1. r = [k \in 1 .. n |-> s[o[k]]]
    <3>1. r = [k \in DOMAIN r |-> r[k]]
      BY DEF Newest, Ordered
    <3> HIDE DEF r, n
    <3> QED
      BY <1>4, <3>1
  <2>2. \A k \in 1 .. n : s[o[k]] \in T
    BY <1>1, <1>4
  <2> HIDE DEF T, n, r
  <2> QED
    BY <1>1, <2>1, <2>2
<1> HIDE DEF r, ob, n
<1>7. /\ d \in Seq(T) /\ m = (IF limit <= n THEN limit ELSE n)
      /\ \A k \in 1 .. m : d[k] = r[k] /\ k \in 1 .. n
  <2> HIDE DEF T
  <2> QED
    BY <1>4, <1>6, LimitedHas
<1> HIDE DEF d, m, T
<1> DEFINE g == [k \in 1 .. m |-> h[o[k]]]
<1>8. \A k \in 1 .. m : g[k] = h[o[k]] /\ g[k] \in own /\ d[k] = rows[g[k]]
  BY <1>1, <1>4, <1>7
<1>9. ASSUME NEW i \in 1 .. m, NEW j \in 1 .. m, g[i] = g[j] PROVE i = j
  <2>1. i \in 1 .. n /\ j \in 1 .. n /\ h[o[i]] = h[o[j]]
    BY <1>7, <1>8, <1>9
  <2>2. o[i] \in 1 .. n /\ o[j] \in 1 .. n
    BY <1>4, <2>1
  <2>3. o[i] = o[j]
    BY <1>1, <2>1, <2>2
  <2> QED
    BY <1>4, <2>1, <2>3
<1>10. n <= Len(rows)
  <2>1. IsFiniteSet(1 .. Len(rows)) /\ Cardinality(1 .. Len(rows)) = Len(rows)
    BY IntervalSize
  <2>2. \A j \in 1 .. n : h[j] \in 1 .. Len(rows)
    BY <1>1
  <2> DEFINE S == 1 .. Len(rows)
  <2> HIDE DEF S
  <2>3. n <= Cardinality(S)
    BY <1>1, <2>1, <2>2, NoMoreThan DEF S
  <2> QED
    BY <2>1, <2>3 DEF S
<1> HIDE DEF g
<1>11. own # {} => m > 0
  BY <1>1, <1>7
<1>12. ASSUME whole, NEW l \in own
       PROVE  \/ \E j \in 1 .. m : g[j] = l
              \/ /\ m = limit /\ limit < Len(rows)
                 /\ \A j \in 1 .. m : d[j].at[ob[1]] >= rows[l].at[ob[1]]
  <2>1. PICK i \in 1 .. n : h[i] = l
    BY <1>1, <1>12
  <2>2. PICK k \in 1 .. n : o[k] = i
    BY <1>4
  <2>3. CASE k <= m
    <3>1. k \in 1 .. m
      BY <2>3
    <3> QED
      BY <1>8, <2>1, <2>2, <3>1
  <2>4. CASE ~ k <= m
    <3>1. m = limit /\ limit < n
      BY <1>1, <1>7, <2>4
    <3>2. r[k] = rows[l]
      BY <1>1, <1>4, <2>1, <2>2, ZenonT(20)
    <3>3. ASSUME NEW j \in 1 .. m PROVE d[j].at[ob[1]] >= rows[l].at[ob[1]]
      <4>1. j \in 1 .. n /\ j <= k /\ d[j] = r[j]
        BY <1>7, <2>4, <3>1
      <4>2. r[j].at[ob[1]] >= r[k].at[ob[1]]
        BY <1>5, <4>1
      <4> QED
        BY <3>2, <4>1, <4>2
    <3>4. limit < Len(rows)
      BY <1>1, <1>10, <3>1
    <3> QED
      BY <3>1, <3>3, <3>4
  <2> QED
    BY <2>3, <2>4
<1>13. m <= limit
  BY <1>1, <1>7
<1>14. Draws(g, d, rows, own, FALSE)
  BY <1>7, <1>8, <1>9, <1>11 DEF Draws, m, T
<1>15. Page(g, d, rows, own, whole, limit, ob[1])
  BY <1>12, <1>13, <1>14 DEF Page, m
<1> QED
  BY <1>15 DEF d, r, ob

-----------------------------------------------------------------------------
(* Entities: the parts of a plan.                                          *)

\* A binding as the planner takes it.
BindingFits(i) == /\ i.validFrom \in Int /\ i.validTo \in Int \cup {NoEnd}
              /\ TopicRank[i.topic] \in Int

LEMMA ClippedIs ==
  ASSUME NoEnd \notin Int, NEW i, BindingFits(i), NEW from \in Int, NEW to \in Int
  PROVE  LET p == Clipped(i, from, to) IN
         /\ p.topic = i.topic /\ p.from \in Int /\ p.to \in Int
         /\ p.from = IF i.validFrom <= from THEN from ELSE i.validFrom
         /\ p.to = IF i.validTo = NoEnd THEN to ELSE IF i.validTo <= to THEN i.validTo ELSE to
         /\ p.toExclusive <=> i.validTo # NoEnd /\ i.validTo <= to
<1>1. i.validFrom \in Int /\ i.validTo \in Int \cup {NoEnd}
  BY DEF BindingFits
<1>2. Max({i.validFrom, from}) = IF i.validFrom <= from THEN from ELSE i.validFrom
  BY <1>1, LargerOf
<1>3. minTime(i.validTo, to)
        = IF i.validTo = NoEnd THEN to ELSE IF i.validTo <= to THEN i.validTo ELSE to
  <2>1. CASE i.validTo = NoEnd
    BY <2>1 DEF minTime
  <2>2. CASE i.validTo # NoEnd
    <3>1. i.validTo \in Int
      BY <1>1, <2>2
    <3>2. Min({i.validTo, to}) = IF i.validTo <= to THEN i.validTo ELSE to
      BY <3>1, SmallerOf
    <3> QED
      BY <2>2, <3>2 DEF minTime
  <2> QED
    BY <2>1, <2>2
<1> QED
  BY <1>1, <1>2, <1>3 DEF Clipped, EndsExclusive

\* A finite set as a sequence has each element once.
LEMMA SequenceOfSet ==
  ASSUME NEW S, IsFiniteSet(S)
  PROVE  LET s == SetToSeq(S) IN
         /\ Len(s) = Cardinality(S) /\ Len(s) \in Nat /\ DOMAIN s = 1 .. Len(s)
         /\ \A k \in 1 .. Len(s) : s[k] \in S
         /\ \A x \in S : \E k \in 1 .. Len(s) : s[k] = x
         /\ \A j, k \in 1 .. Len(s) : s[j] = s[k] => j = k
<1> DEFINE n == Cardinality(S)
           s == CHOOSE f \in [1 .. n -> S] : IsInjective(f)
<1>1. n \in Nat /\ \E f : f \in Bijection(1 .. n, S)
  BY FS_CardinalityType DEF ExistsBijection
<1>2. s \in [1 .. n -> S] /\ IsInjective(s)
  <2>1. \E f \in [1 .. n -> S] : IsInjective(f)
    BY <1>1 DEF Bijection, Injection
  <2> HIDE DEF n
  <2> QED
    BY <2>1
<1>3. SetToSeq(S) = s
  BY DEF SetToSeq
<1> HIDE DEF s
<1>4. s \in Injection(1 .. n, S) /\ Cardinality(1 .. n) = n
  BY <1>1, <1>2, IntervalSize DEF Injection
<1>5. s \in Surjection(1 .. n, S)
  BY <1>4, FS_Injection
<1>6. Len(s) = n /\ DOMAIN s = 1 .. n
  BY <1>1, <1>2
<1>7. \A j, k \in 1 .. Len(s) : s[j] = s[k] => j = k
  BY <1>2, <1>6 DEF IsInjective
<1> QED
  BY <1>1, <1>2, <1>3, <1>5, <1>6, <1>7 DEF Surjection

\* The parts of a plan are those of the bindings that are not empty.
PlanHas(plan, intervals, path, from, to) ==
  /\ Len(plan) \in Nat /\ DOMAIN plan = 1 .. Len(plan)
  /\ \A k \in 1 .. Len(plan) : \E i \in intervals :
       /\ intervalMatchesAttribute(i, path)
       /\ plan[k] = Clipped(i, from, to) /\ plan[k].from < plan[k].to
  /\ \A i \in intervals :
       intervalMatchesAttribute(i, path) /\ Clipped(i, from, to).from < Clipped(i, from, to).to =>
         \E k \in 1 .. Len(plan) : SameKey(Clipped(i, from, to), plan[k])
  /\ \A j, k \in 1 .. Len(plan) : SameKey(plan[j], plan[k]) => j = k

LEMMA PrecedesIsStrict ==
  ASSUME NEW s, Len(s) \in Nat,
         \A k \in 1 .. Len(s) : s[k].from \in Int /\ TopicRank[s[k].topic] \in Int
  PROVE  StrictOrder({p \in (1 .. Len(s)) \X (1 .. Len(s)) : Precedes(s, p[1], p[2])}, 1 .. Len(s))
<1> DEFINE D == 1 .. Len(s)
           R == {p \in D \X D : Precedes(s, p[1], p[2])}
           f == [i \in D |-> s[i].from]
           g == [i \in D |-> TopicRank[s[i].topic]]
           B(i, j) == \/ f[i] < f[j]
                      \/ f[i] = f[j] /\ g[i] < g[j]
                      \/ f[i] = f[j] /\ g[i] = g[j] /\ i < j
<1>1. \A i, j \in D : <<i, j>> \in R <=> Precedes(s, i, j)
  OBVIOUS
<1>2. \A i, j \in D : Precedes(s, i, j) <=> B(i, j)
  BY DEF Precedes
<1>3. f \in [D -> Int] /\ g \in [D -> Int]
  OBVIOUS
<1> HIDE DEF f, g
<1>4. /\ \A i \in D : ~ B(i, i)
      /\ \A i, j, k \in D : B(i, j) /\ B(j, k) => B(i, k)
      /\ \A i, j \in D : i = j \/ B(i, j) \/ B(j, i)
  <2>1. \A i \in D : i \in Int /\ f[i] \in Int /\ g[i] \in Int
    BY <1>3
  <2> HIDE DEF D
  <2>2. \A i \in D : ~ B(i, i)
    BY <2>1
  <2>3. \A i, j, k \in D : B(i, j) /\ B(j, k) => B(i, k)
    BY <2>1
  <2>4. \A i, j \in D : i = j \/ B(i, j) \/ B(j, i)
    BY <2>1
  <2> QED
    BY <2>2, <2>3, <2>4
<1> HIDE DEF B, R
<1> QED
  BY <1>1, <1>2, <1>4 DEF StrictOrder, R

LEMMA PlanIs ==
  ASSUME NoEnd \notin Int, NEW intervals, IsFiniteSet(intervals), \A i \in intervals : BindingFits(i),
         NEW path, NEW from \in Int, NEW to \in Int
  PROVE  PlanHas(planIntervals(intervals, path, from, to), intervals, path, from, to)
<1> DEFINE own == {i \in intervals : intervalMatchesAttribute(i, path)}
           P == NonEmpty(intervals, path, from, to)
           pick(p) == CHOOSE q \in P : SameKey(p, q)
           K == {pick(p) : p \in P}
           s == SetToSeq(K)
           n == Len(s)
           R == {p \in (1 .. n) \X (1 .. n) : Precedes(s, p[1], p[2])}
           o == OrderOf(s, R)
           plan == planIntervals(intervals, path, from, to)
<1>1. P = {p \in {Clipped(i, from, to) : i \in own} : p.from < p.to}
  BY DEF NonEmpty
<1>2. ASSUME NEW p \in P PROVE pick(p) \in P /\ SameKey(p, pick(p))
  <2>1. SameKey(p, p)
    BY DEF SameKey
  <2> HIDE DEF P
  <2> QED
    BY <2>1
<1>3. IsFiniteSet(K)
  <2> DEFINE C == {Clipped(i, from, to) : i \in own}
             f == [i \in own |-> Clipped(i, from, to)]
             h == [p \in P |-> pick(p)]
  <2>1. IsFiniteSet(own)
    BY FS_Subset
  <2>2. f \in Surjection(own, C)
    <3>1. f \in [own -> C] /\ \A c \in C : \E i \in own : f[i] = c
      OBVIOUS
    <3> QED
      BY <3>1 DEF Surjection
  <2>3. IsFiniteSet(C)
    <3> HIDE DEF f, C, own
    <3> QED
      BY <2>1, <2>2, FS_Surjection
  <2>4. IsFiniteSet(P)
    BY <1>1, <2>3, FS_Subset
  <2>5. h \in Surjection(P, K)
    <3> HIDE DEF P
    <3>1. h \in [P -> K] /\ \A c \in K : \E p \in P : h[p] = c
      OBVIOUS
    <3> QED
      BY <3>1 DEF Surjection
  <2> HIDE DEF h, K, P
  <2> QED
    BY <2>4, <2>5, FS_Surjection
<1>4. plan = Ordered(s, {p \in (DOMAIN s) \X (DOMAIN s) : Precedes(s, p[1], p[2])})
  BY DEF planIntervals
<1>5. K \subseteq P
  BY <1>2
<1>6. \A p \in P : \E q \in K : SameKey(p, q)
  BY <1>2
<1>16. ASSUME NEW x \in K, NEW y \in K, SameKey(x, y) PROVE x = y
  <2> DEFINE Pick(t, a, b) == CHOOSE q \in P : t = q.topic /\ a = q.from /\ b = q.to
  <2>1. \A p \in P : pick(p) = Pick(p.topic, p.from, p.to)
    BY DEF SameKey
  <2>2. PICK p \in P, r \in P : x = pick(p) /\ y = pick(r)
    OBVIOUS
  <2>3. SameKey(p, x) /\ SameKey(r, y)
    BY <1>2, <2>2
  <2>4. p.topic = r.topic /\ p.from = r.from /\ p.to = r.to
    BY <1>16, <2>3 DEF SameKey
  <2> HIDE DEF Pick, pick, P
  <2> QED
    BY <2>1, <2>2, <2>4
<1> HIDE DEF P, K
<1>7. /\ n \in Nat /\ DOMAIN s = 1 .. n
      /\ \A k \in 1 .. n : s[k] \in K
      /\ \A x \in K : \E k \in 1 .. n : s[k] = x
      /\ \A j, k \in 1 .. n : s[j] = s[k] => j = k
  BY <1>3, SequenceOfSet
<1>8. ASSUME NEW p \in P
      PROVE  /\ p.from \in Int /\ TopicRank[p.topic] \in Int /\ p.from < p.to
             /\ \E i \in own : p = Clipped(i, from, to)
  <2>1. PICK i \in own : p = Clipped(i, from, to) /\ p.from < p.to
    BY <1>1
  <2>2. BindingFits(i)
    OBVIOUS
  <2>3. p.from \in Int /\ p.topic = i.topic
    BY <2>1, <2>2, ClippedIs
  <2> QED
    BY <2>1, <2>2, <2>3 DEF BindingFits
<1> HIDE DEF s
<1>9. StrictOrder(R, 1 .. n)
  <2>1. \A k \in 1 .. n : s[k].from \in Int /\ TopicRank[s[k].topic] \in Int
    BY <1>5, <1>7, <1>8
  <2> QED
    BY <1>7, <2>1, PrecedesIsStrict
<1>10. plan = Ordered(s, R)
  BY <1>4, <1>7
<1> HIDE DEF R, n, plan
<1>11. InOrder(o, R, 1 .. n) /\ Ordered(s, R) = [k \in 1 .. n |-> s[o[k]]]
  BY <1>7, <1>9, OrderedIs DEF n
<1> HIDE DEF o
<1>12. HasEach(o, n)
  BY <1>7, <1>9, <1>11, EnumerationHasAll
<1>13. /\ Len(plan) = n /\ DOMAIN plan = 1 .. n
       /\ \A k \in 1 .. n : plan[k] = s[o[k]] /\ o[k] \in 1 .. n
  BY <1>7, <1>10, <1>11, <1>12 DEF HasEach
<1>14. ASSUME NEW k \in 1 .. n
       PROVE  \E i \in intervals : /\ intervalMatchesAttribute(i, path)
                                   /\ plan[k] = Clipped(i, from, to) /\ plan[k].from < plan[k].to
  BY <1>5, <1>7, <1>8, <1>13
<1>15. ASSUME NEW i \in intervals, intervalMatchesAttribute(i, path),
              Clipped(i, from, to).from < Clipped(i, from, to).to
       PROVE  \E k \in 1 .. n : SameKey(Clipped(i, from, to), plan[k])
  <2>1. Clipped(i, from, to) \in P
    BY <1>1, <1>15
  <2>2. PICK q \in K : SameKey(Clipped(i, from, to), q)
    BY <1>6, <2>1
  <2>3. PICK j \in 1 .. n : s[j] = q
    BY <1>7
  <2>4. PICK k \in 1 .. n : o[k] = j
    BY <1>12 DEF HasEach
  <2> QED
    BY <1>13, <2>2, <2>3, <2>4
<1>17. ASSUME NEW j \in 1 .. n, NEW k \in 1 .. n, SameKey(plan[j], plan[k]) PROVE j = k
  <2>1. o[j] \in 1 .. n /\ o[k] \in 1 .. n /\ SameKey(s[o[j]], s[o[k]])
    BY <1>13, <1>17
  <2>2. s[o[j]] = s[o[k]]
    BY <1>7, <1>16, <2>1
  <2>3. o[j] = o[k]
    BY <1>7, <2>1, <2>2
  <2> QED
    BY <1>12, <2>3 DEF HasEach
<1> QED
  BY <1>7, <1>13, <1>14, <1>15, <1>17 DEF PlanHas, plan

-----------------------------------------------------------------------------
(* Entities: the times of the rows.                                        *)

\* A row of a table with these columns.
RowFits(r, columns) ==
  /\ Times(r, columns \cap Interval)
  /\ \A c \in columns \cap {"time", "timestamp"} : r.at[c] \in Int
  /\ r.value \in Int \cup {Null}

LEMMA PointIs ==
  ASSUME NEW columns, resolvePointTimeColumn(columns) # Null
  PROVE  resolvePointTimeColumn(columns) \in columns \cap {"time", "timestamp"}
BY DEF resolvePointTimeColumn

LEMMA TemporalIs ==
  ASSUME NEW columns, NEW field, resolveTemporalStrategy(columns, field) # Refused
  PROVE  LET temporal == resolveTemporalStrategy(columns, field)
             point    == resolvePointTimeColumn(columns)
         IN  /\ Key(temporal.orderBy) /\ temporal.orderBy[1] = temporal.fromColumn
             /\ \A k \in DOMAIN temporal.orderBy :
                  temporal.orderBy[k] = temporal.fromColumn \/ (temporal.orderBy[k] = point /\ point # Null)
             /\ \/ /\ temporal.fromColumn = "intervalStart" /\ temporal.toColumn = "intervalEnd"
                   /\ Interval \subseteq columns
                \/ point # Null /\ temporal.fromColumn = point /\ temporal.toColumn = point
             /\ point = Null => temporal.fromColumn = "intervalStart"
<1> DEFINE point == resolvePointTimeColumn(columns)
           temporal == resolveTemporalStrategy(columns, field)
<1>1. CASE IntervalChosen(columns, field)
  <2> DEFINE ob == <<"intervalStart">> \o (IF point = Null THEN <<>> ELSE <<point>>)
  <2>1. temporal = [fromColumn |-> "intervalStart", toColumn |-> "intervalEnd", orderBy |-> ob]
    BY <1>1 DEF resolveTemporalStrategy
  <2>2. Interval \subseteq columns
    BY <1>1 DEF IntervalChosen
  <2>3. CASE point = Null
    <3>1. DOMAIN ob = 1 .. 1 /\ ob[1] = "intervalStart"
      BY <2>3
    <3> HIDE DEF ob, temporal
    <3> QED
      BY <2>1, <2>2, <2>3, <3>1 DEF Key, temporal
  <2>4. CASE point # Null
    <3>1. ob = <<"intervalStart">> \o <<point>>
      BY <2>4
    <3>2. DOMAIN ob = 1 .. 2 /\ ob[1] = "intervalStart" /\ ob[2] = point
      <4>1. ASSUME NEW x, NEW y
            PROVE  LET s == <<x>> \o <<y>> IN DOMAIN s = 1 .. 2 /\ s[1] = x /\ s[2] = y
        OBVIOUS
      <4> HIDE DEF ob, point
      <4> QED
        BY <3>1, <4>1
    <3>3. \A k \in 1 .. 2 : k = 1 \/ k = 2
      OBVIOUS
    <3> HIDE DEF ob, temporal
    <3> QED
      BY <2>1, <2>2, <2>4, <3>2, <3>3 DEF Key, temporal
  <2> QED
    BY <2>3, <2>4
<1>2. CASE ~ IntervalChosen(columns, field)
  <2>1. point # Null /\ temporal = [fromColumn |-> point, toColumn |-> point, orderBy |-> <<point>>]
    BY <1>2 DEF resolveTemporalStrategy
  <2>2. DOMAIN <<point>> = 1 .. 1 /\ <<point>>[1] = point /\ \A k \in 1 .. 1 : k = 1
    OBVIOUS
  <2> HIDE DEF temporal, point
  <2> QED
    BY <2>1, <2>2 DEF Key, temporal, point
<1> QED
  BY <1>1, <1>2

LEMMA RowTimes ==
  ASSUME NEW columns, NEW field, resolveTemporalStrategy(columns, field) # Refused, Null \notin Int,
         NEW r, RowFits(r, columns)
  PROVE  LET temporal == resolveTemporalStrategy(columns, field) IN
         /\ r.at[temporal.fromColumn] \in Int \cup {Null} /\ r.at[temporal.toColumn] \in Int \cup {Null}
         /\ resolvePointTimeColumn(columns) # Null => r.at[resolvePointTimeColumn(columns)] \in Int
         /\ Timed(r, temporal) =>
              /\ r.at[temporal.fromColumn] \in Int /\ r.at[temporal.toColumn] \in Int
              /\ r.at[MergeTime(columns)] \in Int
              /\ \A k \in DOMAIN temporal.orderBy : r.at[temporal.orderBy[k]] \in Int
<1> DEFINE point == resolvePointTimeColumn(columns)
           temporal == resolveTemporalStrategy(columns, field)
<1>1. \A c \in columns \cap Interval : r.at[c] \in Int \cup {Null}
  BY DEF RowFits, Times
<1>2. point # Null => r.at[point] \in Int
  BY PointIs DEF RowFits
<1>3. /\ \A k \in DOMAIN temporal.orderBy :
           temporal.orderBy[k] = temporal.fromColumn \/ (temporal.orderBy[k] = point /\ point # Null)
      /\ \/ /\ temporal.fromColumn = "intervalStart" /\ temporal.toColumn = "intervalEnd"
            /\ Interval \subseteq columns
         \/ point # Null /\ temporal.fromColumn = point /\ temporal.toColumn = point
      /\ point = Null => temporal.fromColumn = "intervalStart"
  BY TemporalIs
<1> HIDE DEF temporal, point
<1>4. r.at[temporal.fromColumn] \in Int \cup {Null} /\ r.at[temporal.toColumn] \in Int \cup {Null}
  BY <1>1, <1>2, <1>3 DEF Interval
<1>5. MergeTime(columns) = IF point = Null THEN "intervalStart" ELSE point
  BY DEF MergeTime, point
<1>6. ASSUME Timed(r, temporal)
      PROVE  /\ r.at[temporal.fromColumn] \in Int /\ r.at[temporal.toColumn] \in Int
             /\ r.at[MergeTime(columns)] \in Int
             /\ \A k \in DOMAIN temporal.orderBy : r.at[temporal.orderBy[k]] \in Int
  <2>1. r.at[temporal.fromColumn] \in Int /\ r.at[temporal.toColumn] \in Int
    BY <1>4, <1>6 DEF Timed
  <2>2. r.at[MergeTime(columns)] \in Int
    BY <1>2, <1>3, <1>5, <2>1
  <2>3. \A k \in DOMAIN temporal.orderBy : r.at[temporal.orderBy[k]] \in Int
    BY <1>2, <1>3, <2>1
  <2> QED
    BY <2>1, <2>2, <2>3
<1> QED
  BY <1>2, <1>4, <1>6 DEF temporal, point
-----------------------------------------------------------------------------
(* Entities: the pages of the parts put together.                          *)

FlatStep(A, seqs, i) == IF i = 1 THEN seqs[i] ELSE A[i - 1] \o seqs[i]

LEMMA FlatExists ==
  ASSUME NEW seqs, NEW n \in Nat
  PROVE  \E A : A = [i \in 1 .. n |-> FlatStep(A, seqs, i)]
<1> DEFINE N == {m \in Nat : \E A : A = [i \in 1 .. m |-> FlatStep(A, seqs, i)]}
<1>1. 0 \in N
  <2> DEFINE A == [i \in 1 .. 0 |-> <<>>]
  <2>1. A = [i \in 1 .. 0 |-> FlatStep(A, seqs, i)]
    OBVIOUS
  <2> HIDE DEF A
  <2> QED
    BY <2>1
<1>2. ASSUME NEW m \in Nat, m \in N PROVE m + 1 \in N
  <2>1. PICK A : A = [i \in 1 .. m |-> FlatStep(A, seqs, i)]
    BY <1>2
  <2> DEFINE B == [i \in 1 .. m + 1 |-> IF i <= m THEN A[i] ELSE FlatStep(A, seqs, m + 1)]
  <2>2. B = [i \in 1 .. m + 1 |-> FlatStep(B, seqs, i)]
    <3> SUFFICES ASSUME NEW i \in 1 .. m + 1 PROVE B[i] = FlatStep(B, seqs, i)
      OBVIOUS
    <3>1. CASE i <= m
      <4>1. B[i] = FlatStep(A, seqs, i)
        BY <2>1, <3>1
      <4>2. i # 1 => B[i - 1] = A[i - 1]
        BY <3>1
      <4> HIDE DEF B
      <4> QED
        BY <4>1, <4>2 DEF FlatStep
    <3>2. CASE i = m + 1
      <4>1. B[i] = FlatStep(A, seqs, m + 1)
        BY <3>2
      <4>2. i # 1 => B[i - 1] = A[i - 1]
        BY <3>2
      <4> HIDE DEF B
      <4> QED
        BY <3>2, <4>1, <4>2 DEF FlatStep
    <3> QED
      BY <3>1, <3>2
  <2> HIDE DEF B
  <2> QED
    BY <2>2
<1>3. Nat \subseteq N
  <2> HIDE DEF N
  <2> QED
    BY <1>1, <1>2, SetInduction
<1> QED
  BY <1>3

ListsOf(seqs, n, T) == Len(seqs) = n /\ n > 0 /\ \A k \in 1 .. n : seqs[k] \in Seq(T)

\* The elements of the whole are the elements of the parts.
HasAll(all, seqs, n, T) ==
  /\ all \in Seq(T)
  /\ \A j \in 1 .. Len(all) : \E k \in 1 .. n : \E i \in 1 .. Len(seqs[k]) : all[j] = seqs[k][i]
  /\ \A k \in 1 .. n : \A i \in 1 .. Len(seqs[k]) : \E j \in 1 .. Len(all) : all[j] = seqs[k][i]

LEMMA FlatHas ==
  ASSUME NEW T, NEW n \in Nat, NEW seqs, ListsOf(seqs, n, T)
  PROVE  HasAll(FlattenSeq(seqs), seqs, n, T)
<1>0. Len(seqs) = n /\ n > 0 /\ \A k \in 1 .. n : seqs[k] \in Seq(T)
  BY DEF ListsOf
<1> DEFINE F == CHOOSE A : A = [i \in 1 .. Len(seqs) |-> IF i = 1 THEN seqs[i] ELSE A[i - 1] \o seqs[i]]
<1>1. F = [i \in 1 .. n |-> FlatStep(F, seqs, i)]
  <2> DEFINE IsF(A) == A = [i \in 1 .. Len(seqs) |-> IF i = 1 THEN seqs[i] ELSE A[i - 1] \o seqs[i]]
  <2>1. \E A : IsF(A)
    BY <1>0, FlatExists DEF FlatStep
  <2>2. F = CHOOSE A : IsF(A)
    OBVIOUS
  <2> HIDE DEF F
  <2>3. IsF(F)
    <3> HIDE DEF IsF
    <3> QED
      BY <2>1, <2>2
  <2> QED
    BY <1>0, <2>3 DEF FlatStep
<1>2. FlattenSeq(seqs) = F[n]
  BY <1>0 DEF FlattenSeq
<1> HIDE DEF F
<1> DEFINE Fits(m) ==
             /\ F[m] \in Seq(T)
             /\ \A j \in 1 .. Len(F[m]) : \E k \in 1 .. m : \E i \in 1 .. Len(seqs[k]) : F[m][j] = seqs[k][i]
             /\ \A k \in 1 .. m : \A i \in 1 .. Len(seqs[k]) : \E j \in 1 .. Len(F[m]) : F[m][j] = seqs[k][i]
           N == {m \in Nat : m \in 1 .. n => Fits(m)}
<1>3. 0 \in N
  OBVIOUS
<1>4. ASSUME NEW m \in Nat, m \in N PROVE m + 1 \in N
  <2> SUFFICES ASSUME m + 1 \in 1 .. n PROVE Fits(m + 1)
    <3> HIDE DEF Fits
    <3> QED
      OBVIOUS
  <2>1. seqs[m + 1] \in Seq(T)
    BY <1>0
  <2>2. CASE m = 0
    <3>1. F[1] = seqs[1] /\ m + 1 = 1
      BY <1>1, <2>2 DEF FlatStep
    <3>2. 1 .. 1 = {1}
      OBVIOUS
    <3> QED
      BY <2>1, <3>1, <3>2
  <2>3. CASE m # 0
    <3> DEFINE a == F[m]  b == seqs[m + 1]  c == F[m + 1]
    <3>1. m \in 1 .. n /\ Fits(m)
      BY <1>4, <2>3, SMTT(20)
    <3>2. c = a \o b
      <4>1. m + 1 # 1 /\ (m + 1) - 1 = m
        BY <2>3
      <4> QED
        BY <1>1, <4>1 DEF FlatStep
    <3>3. a \in Seq(T) /\ b \in Seq(T)
      BY <2>1, <3>1
    <3> HIDE DEF F, a, b, c
    <3>4. /\ c \in Seq(T) /\ Len(c) = Len(a) + Len(b) /\ Len(a) \in Nat /\ Len(b) \in Nat
          /\ \A j \in 1 .. Len(a) : c[j] = a[j]
          /\ \A j \in 1 .. Len(b) : c[Len(a) + j] = b[j]
          /\ \A j \in 1 .. Len(c) : ~ j <= Len(a) => j - Len(a) \in 1 .. Len(b) /\ c[j] = b[j - Len(a)]
      BY <3>2, <3>3
    <3>5. ASSUME NEW j \in 1 .. Len(c)
          PROVE  \E k \in 1 .. m + 1 : \E i \in 1 .. Len(seqs[k]) : c[j] = seqs[k][i]
      <4>1. CASE j <= Len(a)
        <5>1. j \in 1 .. Len(a) /\ c[j] = a[j]
          BY <3>4, <4>1
        <5>2. PICK k \in 1 .. m : \E i \in 1 .. Len(seqs[k]) : a[j] = seqs[k][i]
          BY <3>1, <5>1 DEF a
        <5>3. k \in 1 .. m + 1
          OBVIOUS
        <5> QED
          BY <5>1, <5>2, <5>3
      <4>2. CASE ~ j <= Len(a)
        <5>1. j - Len(a) \in 1 .. Len(b) /\ c[j] = b[j - Len(a)]
          BY <3>4, <4>2
        <5>2. m + 1 \in 1 .. m + 1
          OBVIOUS
        <5> QED
          BY <5>1, <5>2 DEF b
      <4> QED
        BY <4>1, <4>2
    <3>6. ASSUME NEW k \in 1 .. m + 1, NEW i \in 1 .. Len(seqs[k])
          PROVE  \E j \in 1 .. Len(c) : c[j] = seqs[k][i]
      <4>1. CASE k \in 1 .. m
        <5>1. PICK j \in 1 .. Len(a) : a[j] = seqs[k][i]
          BY <3>1, <4>1 DEF a
        <5>2. j \in 1 .. Len(c) /\ c[j] = a[j]
          BY <3>4
        <5> QED
          BY <5>1, <5>2
      <4>2. CASE k \notin 1 .. m
        <5>1. k = m + 1
          BY <4>2
        <5>2. i \in 1 .. Len(b) /\ b[i] = seqs[k][i]
          BY <5>1 DEF b
        <5>3. Len(a) + i \in 1 .. Len(c) /\ c[Len(a) + i] = b[i]
          BY <3>4, <5>2
        <5> QED
          BY <5>2, <5>3
      <4> QED
        BY <4>1, <4>2
    <3> QED
      BY <3>4, <3>5, <3>6 DEF c
  <2> QED
    BY <2>2, <2>3
<1>5. Nat \subseteq N
  <2> HIDE DEF N
  <2> QED
    BY <1>3, <1>4, SetInduction
<1>6. Fits(n)
  <2> HIDE DEF Fits
  <2> QED
    BY <1>0, <1>5
<1>7. HasAll(F[n], seqs, n, T)
  BY <1>6 DEF HasAll
<1> HIDE DEF Fits
<1> QED
  BY <1>2, <1>7

\* Of the rows with a payload the richest is taken.
LEMMA RepresentativeIs ==
  ASSUME NEW all, NEW n \in Nat, DOMAIN all = 1 .. n, NEW columns, NEW i \in 1 .. n
  PROVE  /\ Representative(all, i, columns) \in 1 .. n
         /\ Payload(all[Representative(all, i, columns)], columns) = Payload(all[i], columns)
<1> DEFINE Same(k) == Payload(all[k], columns) = Payload(all[i], columns)
           First1(j) == /\ Same(j)
                        /\ \A k \in 1 .. n : Same(k) =>
                             Score(all[k]) < Score(all[j]) \/ (Score(all[k]) = Score(all[j]) /\ j <= k)
           C == {k \in 1 .. n : Same(k)}
           rich == {k \in C : Score(all[k]) = 1}
           T == IF rich # {} THEN rich ELSE C
<1>1. i \in C /\ T # {} /\ T \subseteq C /\ T \in SUBSET Nat
  OBVIOUS
<1>2. \A k \in C : Score(all[k]) \in {0, 1}
  BY DEF Score
<1>3. PICK j \in T : \A k \in T : j <= k
  <2> HIDE DEF T
  <2> QED
    BY <1>1, LeastElement
<1>4. ASSUME NEW k \in C
      PROVE  Score(all[k]) < Score(all[j]) \/ (Score(all[k]) = Score(all[j]) /\ j <= k)
  <2>1. Score(all[k]) \in {0, 1}
    BY <1>2
  <2>2. CASE rich # {}
    <3>1. Score(all[j]) = 1 /\ (Score(all[k]) = 1 => k \in T)
      BY <1>3, <2>2
    <3> HIDE DEF rich, C, T
    <3> QED
      BY <1>3, <2>1, <3>1
  <2>3. CASE rich = {}
    <3>1. k \in T /\ j \in C /\ Score(all[j]) # 1 /\ Score(all[k]) # 1
      BY <1>3, <2>3
    <3>2. Score(all[j]) = 0 /\ Score(all[k]) = 0
      BY <1>2, <3>1
    <3> HIDE DEF rich, C, T
    <3> QED
      BY <1>3, <3>1, <3>2
  <2> QED
    BY <2>2, <2>3
<1>5. j \in 1 .. n /\ Same(j)
  BY <1>1, <1>3
<1>6. \E k \in 1 .. n : First1(k)
  <2>1. \A k \in 1 .. n : Same(k) => k \in C
    OBVIOUS
  <2> HIDE DEF C, T, Same
  <2> QED
    BY <1>4, <1>5, <2>1
<1>7. Representative(all, i, columns) = CHOOSE k \in 1 .. n : First1(k)
  BY DEF Representative
<1> HIDE DEF Same
<1>8. Representative(all, i, columns) \in 1 .. n /\ Same(Representative(all, i, columns))
  BY <1>6, <1>7
<1> QED
  BY <1>8 DEF Same

\* r has one row for each payload of all, newest first; data is its beginning.
Merges(r, data, all, columns, limit) ==
  /\ Len(r) \in Nat
  /\ \A k \in 1 .. Len(r) : \E j \in 1 .. Len(all) : r[k] = all[j]
  /\ \A j \in 1 .. Len(all) : \E k \in 1 .. Len(r) : Payload(r[k], columns) = Payload(all[j], columns)
  /\ \A i, j \in 1 .. Len(r) : Payload(r[i], columns) = Payload(r[j], columns) => i = j
  /\ \A i, j \in 1 .. Len(r) : i <= j => r[i].at[MergeTime(columns)] >= r[j].at[MergeTime(columns)]
  /\ Len(data) = (IF limit <= Len(r) THEN limit ELSE Len(r)) /\ DOMAIN data = 1 .. Len(data)
  /\ \A k \in 1 .. Len(data) : data[k] = r[k]

\* One row for each payload.
UniqueOf(all, columns) ==
  Picked([i \in DOMAIN all |-> all[Representative(all, i, columns)]],
         {i \in DOMAIN all : ~ \E j \in 1 .. (i - 1) :
                               Payload(all[j], columns) = Payload(all[i], columns)})

LEMMA UniqueIs ==
  ASSUME NEW T, NEW all \in Seq(T), NEW columns
  PROVE  LET u == UniqueOf(all, columns) IN
         /\ Len(u) \in Nat /\ DOMAIN u = 1 .. Len(u)
         /\ \A k \in 1 .. Len(u) : \E j \in 1 .. Len(all) : u[k] = all[j]
         /\ \A j \in 1 .. Len(all) : \E k \in 1 .. Len(u) : Payload(u[k], columns) = Payload(all[j], columns)
         /\ \A i, j \in 1 .. Len(u) : Payload(u[i], columns) = Payload(u[j], columns) => i = j
<1> DEFINE n == Len(all)
           f == [i \in 1 .. n |-> Payload(all[i], columns)]
           reps == [i \in 1 .. n |-> all[Representative(all, i, columns)]]
           I == {i \in 1 .. n : ~ \E j \in 1 .. (i - 1) : f[j] = f[i]}
           u == UniqueOf(all, columns)
<1>1. n \in Nat /\ DOMAIN all = 1 .. n
  OBVIOUS
<1>2. u = Picked(reps, I)
  <2>1. I = {i \in 1 .. n : ~ \E j \in 1 .. (i - 1) : Payload(all[j], columns) = Payload(all[i], columns)}
    <3>1. \A i \in 1 .. n : \A j \in 1 .. (i - 1) : j \in 1 .. n
      BY <1>1
    <3> QED
      BY <3>1
  <2> HIDE DEF I
  <2> QED
    BY <1>1, <2>1 DEF UniqueOf
<1>3. /\ Len(reps) = n /\ DOMAIN reps = 1 .. n
      /\ \A i \in 1 .. n : \E j \in 1 .. n : reps[i] = all[j] /\ f[j] = f[i]
  <2>1. \A i \in 1 .. n : /\ Representative(all, i, columns) \in 1 .. n
                          /\ f[Representative(all, i, columns)] = f[i]
    BY <1>1, RepresentativeIs
  <2>2. Len(reps) = n /\ DOMAIN reps = 1 .. n
    BY <1>1
  <2> QED
    BY <2>1, <2>2
<1> HIDE DEF reps, u
<1>4. I \in SUBSET (1 .. n)
  OBVIOUS
<1>5. \A i, j \in I : f[i] = f[j] => i = j
  <2> SUFFICES ASSUME NEW i \in I, NEW j \in I, f[i] = f[j], i < j PROVE FALSE
    BY <1>1
  <2>1. i \in 1 .. (j - 1)
    BY <1>1
  <2> HIDE DEF f
  <2> QED
    BY <2>1
<1>6. ASSUME NEW j \in 1 .. n PROVE \E i \in I : f[i] = f[j]
  <2> DEFINE C == {k \in 1 .. n : f[k] = f[j]}
  <2>1. C \in SUBSET Nat /\ C # {}
    OBVIOUS
  <2> HIDE DEF f
  <2>2. PICK i \in C : \A k \in C : i <= k
    <3> HIDE DEF C
    <3> QED
      BY <2>1, LeastElement
  <2>3. i \in 1 .. n /\ f[i] = f[j]
    BY <2>2
  <2>4. ~ \E k \in 1 .. (i - 1) : f[k] = f[i]
    <3> SUFFICES ASSUME NEW k \in 1 .. (i - 1), f[k] = f[i] PROVE FALSE
      OBVIOUS
    <3>1. k \in 1 .. n /\ ~ i <= k
      BY <1>1, <2>3
    <3> QED
      BY <2>2, <2>3, <3>1
  <2> QED
    BY <2>3, <2>4
<1> HIDE DEF I
<1>7. PICK at : Picks(at, u, reps, I)
  BY <1>1, <1>2, <1>3, <1>4, PickedPicks
<1>8. /\ Len(u) \in Nat /\ DOMAIN u = 1 .. Len(u)
      /\ \A k \in 1 .. Len(u) : at[k] \in I /\ u[k] = reps[at[k]]
      /\ \A i, j \in 1 .. Len(u) : at[i] = at[j] => i = j
      /\ \A i \in I : \E k \in 1 .. Len(u) : at[k] = i
  BY <1>7 DEF Picks
<1>9. \A k \in 1 .. Len(u) : \E j \in 1 .. n : u[k] = all[j] /\ Payload(u[k], columns) = f[at[k]]
  <2> SUFFICES ASSUME NEW k \in 1 .. Len(u)
               PROVE  \E j \in 1 .. n : u[k] = all[j] /\ Payload(u[k], columns) = f[at[k]]
    OBVIOUS
  <2>1. at[k] \in 1 .. n /\ u[k] = reps[at[k]]
    BY <1>4, <1>8
  <2>2. PICK j \in 1 .. n : u[k] = all[j] /\ f[j] = f[at[k]]
    BY <1>3, <2>1
  <2> QED
    BY <2>2
<1>0. \A j \in 1 .. n : f[j] = Payload(all[j], columns)
  OBVIOUS
<1> HIDE DEF f
<1>10. ASSUME NEW j \in 1 .. n PROVE \E k \in 1 .. Len(u) : Payload(u[k], columns) = f[j]
  <2>1. PICK i \in I : f[i] = f[j]
    BY <1>6
  <2>2. PICK k \in 1 .. Len(u) : at[k] = i
    BY <1>8
  <2>3. Payload(u[k], columns) = f[at[k]]
    BY <1>9
  <2> QED
    BY <2>1, <2>2, <2>3
<1>11. ASSUME NEW i \in 1 .. Len(u), NEW j \in 1 .. Len(u), Payload(u[i], columns) = Payload(u[j], columns)
       PROVE  i = j
  <2>1. at[i] \in I /\ at[j] \in I
    BY <1>8
  <2>2. f[at[i]] = f[at[j]]
    <3>1. Payload(u[i], columns) = f[at[i]] /\ Payload(u[j], columns) = f[at[j]]
      BY <1>9
    <3> QED
      BY <1>11, <3>1
  <2>3. at[i] = at[j]
    BY <1>5, <2>1, <2>2
  <2> QED
    BY <1>8, <2>3
<1>12. /\ Len(u) \in Nat /\ DOMAIN u = 1 .. Len(u)
       /\ \A k \in 1 .. Len(u) : \E j \in 1 .. n : u[k] = all[j]
  BY <1>8, <1>9
<1>13. \A j \in 1 .. n : \E k \in 1 .. Len(u) : Payload(u[k], columns) = Payload(all[j], columns)
  BY <1>0, <1>10
<1>14. \A i, j \in 1 .. Len(u) : Payload(u[i], columns) = Payload(u[j], columns) => i = j
  BY <1>11
<1> QED
  <2> HIDE DEF f, I
  <2>1. u = UniqueOf(all, columns)
    BY DEF u
  <2> QED
    BY <1>12, <1>13, <1>14, <2>1

LEMMA MergeIs ==
  ASSUME NEW T, NEW segments, FlattenSeq(segments) \in Seq(T), NEW columns, NEW limit \in Nat,
         \A j \in 1 .. Len(FlattenSeq(segments)) : FlattenSeq(segments)[j].at[MergeTime(columns)] \in Int
  PROVE  \E r : Merges(r, mergeEntityHistoryRows(segments, limit, columns), FlattenSeq(segments),
                       columns, limit)
<1> DEFINE all == FlattenSeq(segments)
           u == UniqueOf(all, columns)
           temporal == [orderBy |-> <<MergeTime(columns)>>]
           ob == temporal.orderBy
           r == Newest(u, temporal)
           data == Limited(r, limit)
           n == Len(u)
<1>1. mergeEntityHistoryRows(segments, limit, columns) = data
  BY DEF mergeEntityHistoryRows, UniqueOf
<1> HIDE DEF all
<1>2. /\ n \in Nat /\ DOMAIN u = 1 .. n
      /\ \A k \in 1 .. n : \E j \in 1 .. Len(all) : u[k] = all[j]
      /\ \A j \in 1 .. Len(all) : \E k \in 1 .. n : Payload(u[k], columns) = Payload(all[j], columns)
      /\ \A i, j \in 1 .. n : Payload(u[i], columns) = Payload(u[j], columns) => i = j
  BY UniqueIs DEF all
<1> HIDE DEF u
<1>3. DOMAIN ob = 1 .. 1 /\ ob[1] = MergeTime(columns) /\ \A k \in DOMAIN ob : ob[k] = MergeTime(columns)
  OBVIOUS
<1>4. Key(ob) /\ HaveTimes(u, ob)
  <2>1. \A i \in 1 .. n : u[i].at[MergeTime(columns)] \in Int
    BY <1>2 DEF all
  <2> HIDE DEF ob
  <2> QED
    BY <1>2, <1>3, <2>1 DEF Key, HaveTimes
<1> HIDE DEF temporal
<1>5. PICK o : Arranges(o, r, u, ob)
  BY <1>4, NewestArranges
<1>6. /\ Len(r) = n /\ DOMAIN r = 1 .. n
      /\ \A k \in 1 .. n : o[k] \in 1 .. n /\ r[k] = u[o[k]]
      /\ \A i, j \in 1 .. n : o[i] = o[j] => i = j
      /\ \A k \in 1 .. n : \E i \in 1 .. n : o[i] = k
  BY <1>5 DEF Arranges, HasEach
<1>7. \A i, j \in 1 .. n : i <= j => r[i].at[ob[1]] >= r[j].at[ob[1]]
  BY <1>4, <1>5, ArrangedFalls
<1>8. r \in Seq({r[k] : k \in 1 .. n})
  <2>1. r = [k \in DOMAIN r |-> r[k]]
    BY DEF Newest, Ordered
  <2> DEFINE S == {r[k] : k \in 1 .. n}
  <2>2. \A k \in 1 .. n : r[k] \in S
    OBVIOUS
  <2> HIDE DEF r, n, S
  <2>3. r \in [1 .. n -> S]
    BY <1>6, <2>1, <2>2
  <2>4. r \in Seq(S)
    BY <1>2, <2>3
  <2> QED
    BY <2>4 DEF S
<1> HIDE DEF r
<1>9. /\ Len(data) = (IF limit <= n THEN limit ELSE n) /\ DOMAIN data = 1 .. Len(data)
      /\ \A k \in 1 .. Len(data) : data[k] = r[k]
  <2> DEFINE S == {r[k] : k \in 1 .. n}
  <2> HIDE DEF S
  <2>1. r \in Seq(S)
    BY <1>8 DEF S
  <2>2. /\ data \in Seq(S) /\ Len(data) = (IF limit <= Len(r) THEN limit ELSE Len(r))
        /\ \A k \in 1 .. Len(data) : data[k] = r[k]
    BY <2>1, LimitedHas
  <2> HIDE DEF data
  <2>3. DOMAIN data = 1 .. Len(data)
    BY <2>2
  <2> QED
    BY <1>6, <2>2, <2>3
<1> HIDE DEF data, n
<1>10. ASSUME NEW k \in 1 .. n PROVE \E j \in 1 .. Len(all) : r[k] = all[j]
  <2>1. o[k] \in 1 .. n /\ r[k] = u[o[k]]
    BY <1>6
  <2>2. PICK j \in 1 .. Len(all) : u[o[k]] = all[j]
    BY <1>2, <2>1
  <2> QED
    BY <2>1, <2>2
<1>11. ASSUME NEW j \in 1 .. Len(all)
       PROVE  \E k \in 1 .. n : Payload(r[k], columns) = Payload(all[j], columns)
  <2>1. PICK i \in 1 .. n : Payload(u[i], columns) = Payload(all[j], columns)
    BY <1>2
  <2>2. PICK k \in 1 .. n : o[k] = i
    BY <1>6
  <2> QED
    BY <1>6, <2>1, <2>2
<1>12. ASSUME NEW i \in 1 .. n, NEW j \in 1 .. n, Payload(r[i], columns) = Payload(r[j], columns)
       PROVE  i = j
  <2>1. o[i] \in 1 .. n /\ r[i] = u[o[i]] /\ o[j] \in 1 .. n /\ r[j] = u[o[j]]
    BY <1>6
  <2>2. o[i] = o[j]
    BY <1>2, <1>12, <2>1
  <2> QED
    BY <1>6, <2>2
<1>13. Merges(r, data, all, columns, limit)
  BY <1>2, <1>3, <1>6, <1>7, <1>9, <1>10, <1>11, <1>12 DEF Merges, n
<1> QED
  BY <1>1, <1>13 DEF all

-----------------------------------------------------------------------------
(* Entities: the rows of the parts are those that were recorded.           *)

LEMMA InForceIs ==
  ASSUME NoEnd \notin Int, NEW i, BindingFits(i), NEW w, NEW q, q.from \in Int, q.to \in Int,
         q.from < q.to
  PROVE  InForce(i, q, w) <=> /\ intervalMatchesAttribute(i, w.attributePath)
                              /\ Clipped(i, q.from, q.to).from < Clipped(i, q.from, q.to).to
<1> DEFINE p == Clipped(i, q.from, q.to)
<1>1. /\ p.from = IF i.validFrom <= q.from THEN q.from ELSE i.validFrom
      /\ p.to = IF i.validTo = NoEnd THEN q.to ELSE IF i.validTo <= q.to THEN i.validTo ELSE q.to
  BY ClippedIs
<1> HIDE DEF p
<1>2. i.validFrom \in Int /\ i.validTo \in Int \cup {NoEnd}
  BY DEF BindingFits
<1>3. p.from < p.to <=> /\ i.validFrom < q.to
                        /\ i.validTo # NoEnd => q.from < i.validTo /\ i.validFrom < i.validTo
  BY <1>1, <1>2
<1> QED
  BY <1>3 DEF InForce, intervalMatchesAttribute, p

\* A part that is not empty reads the rows that its binding holds.
LEMMA BoundIs ==
  ASSUME NoEnd \notin Int, Null \notin Int, NEW i, BindingFits(i), NEW w, NEW q, q.from \in Int, q.to \in Int,
         q.from < q.to, InForce(i, q, w), NEW row,
         First(row, q, w) \in Int \cup {Null}, Final(row, q, w) \in Int \cup {Null}
  PROVE  (/\ row.topic = i.topic
          /\ Overlaps(row, Clipped(i, q.from, q.to), resolveTemporalStrategy(w.columns, q.timeField)))
         <=> /\ Null \notin {First(row, q, w), Final(row, q, w)}
             /\ First(row, q, w) <= q.to /\ Final(row, q, w) >= q.from
             /\ BoundTo(i, row, q, w)
<1> DEFINE p == Clipped(i, q.from, q.to)
           a == First(row, q, w)
           b == Final(row, q, w)
<1>1. /\ p.from = IF i.validFrom <= q.from THEN q.from ELSE i.validFrom
      /\ p.to = IF i.validTo = NoEnd THEN q.to ELSE IF i.validTo <= q.to THEN i.validTo ELSE q.to
      /\ p.toExclusive <=> i.validTo # NoEnd /\ i.validTo <= q.to
  BY ClippedIs
<1>2. i.validFrom \in Int /\ i.validTo \in Int \cup {NoEnd}
  BY DEF BindingFits
<1>3. Overlaps(row, p, resolveTemporalStrategy(w.columns, q.timeField))
        <=> /\ Null \notin {a, b} /\ b >= p.from
            /\ IF p.toExclusive THEN a < p.to ELSE a <= p.to
  BY DEF Overlaps, Timed, First, Final
<1>4. BoundTo(i, row, q, w) <=> /\ i.topic = row.topic /\ b >= i.validFrom
                                /\ i.validTo # NoEnd => a < i.validTo
  BY DEF BoundTo
<1> HIDE DEF p, a, b
<1>5. CASE Null \in {a, b}
  BY <1>3, <1>5 DEF a, b, p
<1>6. CASE Null \notin {a, b}
  <2>1. a \in Int /\ b \in Int
    BY <1>6 DEF a, b
  <2>2. b >= p.from <=> b >= i.validFrom /\ b >= q.from
    BY <1>1, <1>2, <2>1
  <2>3. (IF p.toExclusive THEN a < p.to ELSE a <= p.to)
          <=> a <= q.to /\ (i.validTo # NoEnd => a < i.validTo)
    <3>1. CASE i.validTo = NoEnd
      <4>1. ~ p.toExclusive /\ p.to = q.to
        BY <1>1, <3>1
      <4> QED
        BY <3>1, <4>1
    <3>2. CASE i.validTo # NoEnd
      <4>1. i.validTo \in Int
        BY <1>2, <3>2
      <4>2. CASE i.validTo <= q.to
        <5>1. p.toExclusive /\ p.to = i.validTo
          BY <1>1, <3>2, <4>2
        <5> QED
          BY <2>1, <3>2, <4>1, <4>2, <5>1
      <4>3. CASE ~ i.validTo <= q.to
        <5>1. ~ p.toExclusive /\ p.to = q.to
          BY <1>1, <3>2, <4>3
        <5> QED
          BY <2>1, <3>2, <4>1, <4>3, <5>1
      <4> QED
        BY <4>2, <4>3
    <3> QED
      BY <3>1, <3>2
  <2> QED
    BY <1>3, <1>4, <1>6, <2>2, <2>3 DEF a, b, p
<1> QED
  BY <1>5, <1>6

\* What the bindings and rows of a world, and a question, are.
WorldFits(w) ==
  /\ w.rows \in Seq(ToSet(w.rows)) /\ IsFiniteSet(w.intervals)
  /\ \A i \in w.intervals : BindingFits(i)
  /\ \A r \in ToSet(w.rows) : RowFits(r, w.columns)

\* Bindings of one topic that are read over the same time are one binding.
LEMMA OneBinding ==
  ASSUME NoEnd \notin Int, NEW w, \A i \in w.intervals : BindingFits(i), Consecutive(w),
         NEW i \in w.intervals, NEW j \in w.intervals, NEW from \in Int, NEW to \in Int,
         SameKey(Clipped(i, from, to), Clipped(j, from, to)),
         Clipped(i, from, to).from < Clipped(i, from, to).to
  PROVE  i = j
<1> DEFINE p == Clipped(i, from, to)
           r == Clipped(j, from, to)
<1>1. BindingFits(i) /\ BindingFits(j)
  OBVIOUS
<1>2. /\ p.topic = i.topic
      /\ p.from = IF i.validFrom <= from THEN from ELSE i.validFrom
      /\ p.to = IF i.validTo = NoEnd THEN to ELSE IF i.validTo <= to THEN i.validTo ELSE to
      /\ r.topic = j.topic
      /\ r.from = IF j.validFrom <= from THEN from ELSE j.validFrom
      /\ r.to = IF j.validTo = NoEnd THEN to ELSE IF j.validTo <= to THEN j.validTo ELSE to
  BY <1>1, ClippedIs
<1>3. p.topic = r.topic /\ p.from = r.from /\ p.to = r.to /\ p.from < p.to
  BY DEF SameKey
<1> HIDE DEF p, r
<1>4. i = j \/ EndsBefore(i, j) \/ EndsBefore(j, i)
  BY <1>2, <1>3 DEF Consecutive
<1>5. /\ i.validFrom \in Int /\ i.validTo \in Int \cup {NoEnd}
      /\ j.validFrom \in Int /\ j.validTo \in Int \cup {NoEnd}
  BY <1>1 DEF BindingFits
<1>6. ~ EndsBefore(i, j)
  <2> SUFFICES ASSUME i.validTo # NoEnd, i.validTo <= j.validFrom PROVE FALSE
    BY DEF EndsBefore
  <2> QED
    BY <1>2, <1>3, <1>5
<1>7. ~ EndsBefore(j, i)
  <2> SUFFICES ASSUME j.validTo # NoEnd, j.validTo <= i.validFrom PROVE FALSE
    BY DEF EndsBefore
  <2> QED
    BY <1>2, <1>3, <1>5
<1> QED
  BY <1>4, <1>6, <1>7

\* What a plan holds, whatever the columns are: the parts of the bindings in force, each once.
LEMMA PlanVisits ==
  ASSUME NoEnd \notin Int, Null \notin Int, NEW w, WorldFits(w), NEW q, q.from \in Int, q.to \in Int,
         q.from < q.to
  PROVE  LET plan == planIntervals(w.intervals, w.attributePath, q.from, q.to)
         IN  /\ Len(plan) \in Nat /\ DOMAIN plan = 1 .. Len(plan)
             /\ \A k \in 1 .. Len(plan) : \E i \in w.intervals :
                  LET part == Clipped(i, q.from, q.to)
                  IN  InForce(i, q, w) /\ plan[k] = part /\ part.from < part.to
             /\ \A i \in w.intervals : InForce(i, q, w) =>
                  LET part == Clipped(i, q.from, q.to)
                  IN  (\E k \in 1 .. Len(plan) : SameKey(part, plan[k])) /\ part.from < part.to
             /\ \A i \in w.intervals : Clipped(i, q.from, q.to).topic = i.topic
             /\ Visited(w, q) = {plan[k].topic : k \in 1 .. Len(plan)}
             /\ \A j, k \in 1 .. Len(plan) : SameKey(plan[j], plan[k]) => j = k
<1> DEFINE plan == planIntervals(w.intervals, w.attributePath, q.from, q.to)
           part(i) == Clipped(i, q.from, q.to)
<1>1. /\ \A i \in w.intervals : BindingFits(i)
      /\ IsFiniteSet(w.intervals)
      /\ \A l \in DOMAIN w.rows : RowFits(w.rows[l], w.columns)
  BY DEF WorldFits, ToSet
<1>2. PlanHas(plan, w.intervals, w.attributePath, q.from, q.to)
  BY <1>1, PlanIs
<1> HIDE DEF plan
<1>3. /\ Len(plan) \in Nat /\ DOMAIN plan = 1 .. Len(plan)
      /\ \A k \in 1 .. Len(plan) : \E i \in w.intervals :
           InForce(i, q, w) /\ plan[k] = part(i) /\ part(i).from < part(i).to
  <2>1. \A i \in w.intervals : intervalMatchesAttribute(i, w.attributePath) /\ part(i).from < part(i).to
          => InForce(i, q, w)
    BY <1>1, InForceIs
  <2>2. \A k \in 1 .. Len(plan) : \E i \in w.intervals :
           /\ intervalMatchesAttribute(i, w.attributePath)
           /\ plan[k] = part(i) /\ plan[k].from < plan[k].to
    BY <1>2 DEF PlanHas
  <2>3. Len(plan) \in Nat /\ DOMAIN plan = 1 .. Len(plan)
    BY <1>2 DEF PlanHas
  <2> HIDE DEF part
  <2> QED
    BY <2>1, <2>2, <2>3
<1>4. ASSUME NEW i \in w.intervals, InForce(i, q, w)
      PROVE  /\ \E k \in 1 .. Len(plan) : SameKey(part(i), plan[k])
             /\ part(i).from < part(i).to
  <2>1. intervalMatchesAttribute(i, w.attributePath) /\ part(i).from < part(i).to
    BY <1>1, <1>4, InForceIs
  <2> QED
    BY <1>2, <2>1 DEF PlanHas
<1>5. \A i \in w.intervals : part(i).topic = i.topic
  BY <1>1, ClippedIs
<1> HIDE DEF part
<1>6. Visited(w, q) = {plan[k].topic : k \in 1 .. Len(plan)}
  <2>1. ASSUME NEW t \in Visited(w, q) PROVE \E k \in 1 .. Len(plan) : plan[k].topic = t
    <3>1. PICK i \in w.intervals : InForce(i, q, w) /\ t = i.topic
      BY DEF Visited
    <3>2. PICK k \in 1 .. Len(plan) : SameKey(part(i), plan[k])
      BY <1>4, <3>1
    <3> QED
      BY <1>5, <3>1, <3>2 DEF SameKey
  <2>2. ASSUME NEW k \in 1 .. Len(plan) PROVE plan[k].topic \in Visited(w, q)
    <3>1. PICK i \in w.intervals : InForce(i, q, w) /\ plan[k] = part(i)
      BY <1>3
    <3>2. plan[k].topic = i.topic
      BY <1>5, <3>1
    <3> QED
      BY <3>1, <3>2 DEF Visited
  <2> QED
    BY <2>1, <2>2
<1>7. \A j, k \in 1 .. Len(plan) : SameKey(plan[j], plan[k]) => j = k
  BY <1>2 DEF PlanHas
<1> QED
  BY <1>3, <1>4, <1>5, <1>6, <1>7 DEF plan, part

\* A part reads what was recorded of its binding.
ReadsBinding(part, i, w, q) ==
  /\ InForce(i, q, w) /\ part = Clipped(i, q.from, q.to)
  /\ \A l : l \in OfPart(w.rows, w.entity, part, resolveTemporalStrategy(w.columns, q.timeField))
             <=> l \in Recorded(w, q) /\ BoundTo(i, w.rows[l], q, w)

LEMMA RecordedIs ==
  ASSUME NoEnd \notin Int, Null \notin Int, NEW w, WorldFits(w), NEW q, q.from \in Int, q.to \in Int,
         q.from < q.to, resolveTemporalStrategy(w.columns, q.timeField) # Refused
  PROVE  LET plan == planIntervals(w.intervals, w.attributePath, q.from, q.to)
             own(k) == OfPart(w.rows, w.entity, plan[k], resolveTemporalStrategy(w.columns, q.timeField))
         IN  /\ Len(plan) \in Nat /\ DOMAIN plan = 1 .. Len(plan)
             /\ \A k \in 1 .. Len(plan) : own(k) \subseteq Recorded(w, q)
             /\ Consecutive(w) => \A l \in Recorded(w, q) : \E k \in 1 .. Len(plan) : l \in own(k)
             /\ Visited(w, q) = {plan[k].topic : k \in 1 .. Len(plan)}
             /\ \A k \in 1 .. Len(plan) : \E i \in w.intervals : ReadsBinding(plan[k], i, w, q)
             /\ \A j, k \in 1 .. Len(plan) : SameKey(plan[j], plan[k]) => j = k
<1> DEFINE plan == planIntervals(w.intervals, w.attributePath, q.from, q.to)
           temporal == resolveTemporalStrategy(w.columns, q.timeField)
           own(k) == OfPart(w.rows, w.entity, plan[k], temporal)
           part(i) == Clipped(i, q.from, q.to)
           Ours(l) == w.rows[l].stable = Null \/ (w.rows[l].stable = w.entity /\ w.rows[l].resolved)
           Reads(l, p) == w.rows[l].topic = p.topic /\ Overlaps(w.rows[l], p, temporal)
<1>1. /\ \A i \in w.intervals : BindingFits(i)
      /\ \A l \in DOMAIN w.rows : RowFits(w.rows[l], w.columns)
  BY DEF WorldFits, ToSet
<1>2. /\ Visited(w, q) = {plan[k].topic : k \in 1 .. Len(plan)}
      /\ \A j, k \in 1 .. Len(plan) : SameKey(plan[j], plan[k]) => j = k
  BY PlanVisits
<1>3. /\ Len(plan) \in Nat /\ DOMAIN plan = 1 .. Len(plan)
      /\ \A k \in 1 .. Len(plan) : \E i \in w.intervals :
           InForce(i, q, w) /\ plan[k] = part(i) /\ part(i).from < part(i).to
  BY PlanVisits
<1>4. ASSUME NEW i \in w.intervals, InForce(i, q, w)
      PROVE  /\ \E k \in 1 .. Len(plan) : SameKey(part(i), plan[k])
             /\ part(i).from < part(i).to
  BY <1>4, PlanVisits
<1>5. \A i \in w.intervals : part(i).topic = i.topic
  BY PlanVisits
<1> HIDE DEF plan
<1>6. ASSUME NEW l \in DOMAIN w.rows, NEW i \in w.intervals, InForce(i, q, w)
      PROVE  Reads(l, part(i)) <=> LET row == w.rows[l] IN
               /\ Null \notin {First(row, q, w), Final(row, q, w)}
               /\ First(row, q, w) <= q.to /\ Final(row, q, w) >= q.from
               /\ BoundTo(i, row, q, w)
  <2> DEFINE row == w.rows[l]
  <2>1. /\ First(row, q, w) \in Int \cup {Null}
        /\ Final(row, q, w) \in Int \cup {Null}
    BY <1>1, RowTimes DEF First, Final
  <2>2. BindingFits(i) /\ part(i).topic = i.topic
    BY <1>1, <1>5
  <2> HIDE DEF row
  <2>3. (row.topic = i.topic /\ Overlaps(row, part(i), temporal))
          <=> /\ Null \notin {First(row, q, w), Final(row, q, w)}
              /\ First(row, q, w) <= q.to /\ Final(row, q, w) >= q.from
              /\ BoundTo(i, row, q, w)
    BY <1>6, <2>1, <2>2, BoundIs
  <2> HIDE DEF part, temporal
  <2> QED
    BY <2>2, <2>3 DEF row
<1>7. ASSUME NEW l, NEW k \in 1 .. Len(plan)
      PROVE  l \in own(k) <=> l \in DOMAIN w.rows /\ Ours(l) /\ Reads(l, plan[k])
  BY DEF OfPart, OwnRow
<1>8. ASSUME NEW l
      PROVE  l \in Recorded(w, q) <=>
               /\ l \in DOMAIN w.rows /\ Ours(l)
               /\ LET row == w.rows[l] IN
                  /\ Null \notin {First(row, q, w), Final(row, q, w)}
                  /\ First(row, q, w) <= q.to /\ Final(row, q, w) >= q.from
                  /\ \E i \in w.intervals : BoundTo(i, row, q, w)
  BY DEF Recorded
<1> HIDE DEF own, Ours, Reads, temporal, part
<1>9. ASSUME NEW k \in 1 .. Len(plan), NEW l \in own(k) PROVE l \in Recorded(w, q)
  <2>1. l \in DOMAIN w.rows /\ Ours(l) /\ Reads(l, plan[k])
    BY <1>7
  <2>2. PICK i \in w.intervals : InForce(i, q, w) /\ plan[k] = part(i)
    BY <1>3
  <2>3. LET row == w.rows[l] IN
               /\ Null \notin {First(row, q, w), Final(row, q, w)}
               /\ First(row, q, w) <= q.to /\ Final(row, q, w) >= q.from
               /\ BoundTo(i, row, q, w)
    BY <1>6, <2>1, <2>2
  <2> QED
    BY <1>8, <2>1, <2>3
<1>10. ASSUME Consecutive(w), NEW l \in Recorded(w, q)
       PROVE  \E k \in 1 .. Len(plan) : l \in own(k)
  <2>1. l \in DOMAIN w.rows /\ Ours(l)
    BY <1>8
  <2>2. PICK i \in w.intervals : LET row == w.rows[l] IN
               /\ Null \notin {First(row, q, w), Final(row, q, w)}
               /\ First(row, q, w) <= q.to /\ Final(row, q, w) >= q.from
               /\ BoundTo(i, row, q, w)
    BY <1>8
  <2>3. InForce(i, q, w)
    BY <2>2 DEF BoundTo
  <2>4. Reads(l, part(i))
    BY <1>6, <2>1, <2>2, <2>3
  <2>5. PICK k \in 1 .. Len(plan) : SameKey(part(i), plan[k])
    BY <1>4, <2>3
  <2>6. PICK j \in w.intervals : plan[k] = part(j)
    BY <1>3
  <2>7. i = j
    <3>1. part(i).from < part(i).to /\ SameKey(part(i), part(j))
      BY <1>4, <2>3, <2>5, <2>6
    <3> QED
      BY <1>1, <1>10, <3>1, OneBinding DEF part
  <2> QED
    BY <1>7, <2>1, <2>4, <2>6, <2>7
<1>11. ASSUME NEW k \in 1 .. Len(plan) PROVE \E i \in w.intervals : ReadsBinding(plan[k], i, w, q)
  <2>1. PICK i \in w.intervals : InForce(i, q, w) /\ plan[k] = part(i)
    BY <1>3
  <2>2. ASSUME NEW l PROVE l \in own(k) <=> l \in Recorded(w, q) /\ BoundTo(i, w.rows[l], q, w)
    <3>1. l \in DOMAIN w.rows /\ Ours(l) =>
            (Reads(l, plan[k]) <=> LET row == w.rows[l] IN
               /\ Null \notin {First(row, q, w), Final(row, q, w)}
               /\ First(row, q, w) <= q.to /\ Final(row, q, w) >= q.from
               /\ BoundTo(i, row, q, w))
      BY <1>6, <2>1
    <3> QED
      BY <1>7, <1>8, <3>1
  <2> QED
    BY <2>1, <2>2 DEF ReadsBinding, own, temporal, part
<1> QED
  BY <1>2, <1>3, <1>9, <1>10, <1>11 DEF plan, own, temporal

-----------------------------------------------------------------------------
(* Entities: what the merged pages hold.                                   *)

\* all has the rows of the pages segs[1], ..., segs[n].
Gathers(all, segs, n, rows, own, whole, limit, c) ==
  /\ all \in Seq(ToSet(rows))
  /\ \A j \in 1 .. Len(all) : \E k \in 1 .. n : \E i \in 1 .. Len(segs[k]) : all[j] = segs[k][i]
  /\ \A k \in 1 .. n : \A i \in 1 .. Len(segs[k]) : \E j \in 1 .. Len(all) : all[j] = segs[k][i]
  /\ \A k \in 1 .. n : own[k] \subseteq DOMAIN rows /\ \E g : Page(g, segs[k], rows, own[k], whole, limit, c)

Unlike(rows, columns) == \A k, l \in DOMAIN rows : k # l => Payload(rows[k], columns) # Payload(rows[l], columns)

\* The payloads of some places, and of a sequence.
Payloads(rows, S, columns) == {Payload(rows[l], columns) : l \in S}

LEMMA GatheredRows ==
  ASSUME NEW rows, rows \in Seq(ToSet(rows)), NEW n \in Nat, NEW own, NEW segs, NEW whole, NEW limit \in Nat,
         NEW c, NEW all, Gathers(all, segs, n, rows, own, whole, limit, c), NEW columns, NEW r, NEW data,
         Merges(r, data, all, columns, limit)
  PROVE  /\ \A z \in 1 .. Len(r) : \E k \in 1 .. n : \E l \in own[k] : l \in DOMAIN rows /\ r[z] = rows[l]
         /\ \A k \in 1 .. n : \A i \in 1 .. Len(segs[k]) : \E z \in 1 .. Len(r) :
              Payload(r[z], columns) = Payload(segs[k][i], columns)
         /\ Len(r) <= Len(rows)
<1>1. ASSUME NEW k \in 1 .. n, NEW i \in 1 .. Len(segs[k])
      PROVE  \E l \in own[k] : l \in DOMAIN rows /\ segs[k][i] = rows[l]
  <2>1. PICK g : Page(g, segs[k], rows, own[k], whole, limit, c)
    BY DEF Gathers
  <2>2. g[i] \in own[k] /\ segs[k][i] = rows[g[i]]
    BY <2>1 DEF Page, Draws
  <2>3. own[k] \subseteq DOMAIN rows
    BY DEF Gathers
  <2> QED
    BY <2>2, <2>3
<1>2. ASSUME NEW z \in 1 .. Len(r)
      PROVE  \E k \in 1 .. n : \E l \in own[k] : l \in DOMAIN rows /\ r[z] = rows[l]
  <2>1. PICK j \in 1 .. Len(all) : r[z] = all[j]
    BY DEF Merges
  <2>2. PICK k \in 1 .. n : \E i \in 1 .. Len(segs[k]) : all[j] = segs[k][i]
    BY DEF Gathers
  <2>3. PICK i \in 1 .. Len(segs[k]) : all[j] = segs[k][i]
    BY <2>2
  <2> QED
    BY <1>1, <2>1, <2>3
<1>3. ASSUME NEW k \in 1 .. n, NEW i \in 1 .. Len(segs[k])
      PROVE  \E z \in 1 .. Len(r) : Payload(r[z], columns) = Payload(segs[k][i], columns)
  <2>1. PICK j \in 1 .. Len(all) : all[j] = segs[k][i]
    BY DEF Gathers
  <2>2. PICK z \in 1 .. Len(r) : Payload(r[z], columns) = Payload(all[j], columns)
    BY DEF Merges
  <2> QED
    BY <2>1, <2>2
<1>4. Len(r) <= Len(rows)
  <2> DEFINE f == [z \in 1 .. Len(r) |-> CHOOSE l \in DOMAIN rows : r[z] = rows[l]]
             S == 1 .. Len(rows)
  <2>1. \A z \in 1 .. Len(r) : f[z] \in S /\ r[z] = rows[f[z]]
    <3>1. \A z \in 1 .. Len(r) : \E l \in DOMAIN rows : r[z] = rows[l]
      BY <1>2
    <3>2. DOMAIN rows = S
      OBVIOUS
    <3> QED
      BY <3>1, <3>2
  <2>2. Len(r) \in Nat /\ \A i, j \in 1 .. Len(r) : Payload(r[i], columns) = Payload(r[j], columns) => i = j
    BY DEF Merges
  <2>3. IsFiniteSet(S) /\ Cardinality(S) = Len(rows)
    BY IntervalSize
  <2> HIDE DEF f, S
  <2>4. \A i, j \in 1 .. Len(r) : f[i] = f[j] => i = j
    BY <2>1, <2>2
  <2>5. Len(r) <= Cardinality(S)
    BY <2>1, <2>2, <2>3, <2>4, NoMoreThan
  <2> QED
    BY <2>3, <2>5
<1> QED
  BY <1>2, <1>3, <1>4

\* What is answered, of what was read.
RowsRead(data, rows, read, whole, limit, c, columns) ==
  LET recorded == Payloads(rows, read, columns)
      answered == {Payload(data[k], columns) : k \in DOMAIN data}
  IN  /\ answered \subseteq recorded
      /\ Cardinality(answered) = Len(data)
      /\ whole /\ Len(rows) <= limit => answered = recorded
      /\ whole /\ Unlike(rows, columns) =>
           /\ Len(data) = Min({limit, Cardinality(recorded)})
           /\ c = MergeTime(columns) => \A p \in answered, o \in recorded \ answered :
                                          p[1][c] >= o[1][c]
      /\ recorded # {} => answered # {}

Mergeable(rows, own, n, columns) ==
  \A k \in 1 .. n : \A l \in own[k] : rows[l].at[MergeTime(columns)] \in Int

ReadBy(read, own, n) == read = UNION {own[k] : k \in 1 .. n}

LEMMA MergedRows ==
  ASSUME NEW rows, rows \in Seq(ToSet(rows)), NEW n \in Nat, NEW own, NEW segs, NEW whole, NEW limit \in Nat \ {0},
         NEW c, NEW all, Gathers(all, segs, n, rows, own, whole, limit, c), NEW columns, NEW r, NEW data,
         Merges(r, data, all, columns, limit), Mergeable(rows, own, n, columns),
         NEW read, ReadBy(read, own, n)
  PROVE  RowsRead(data, rows, read, whole, limit, c, columns)
<1> DEFINE recorded == Payloads(rows, read, columns)
           answered == {Payload(data[k], columns) : k \in DOMAIN data}
           P(l) == Payload(rows[l], columns)
           Q(z) == Payload(r[z], columns)
           m == Len(data)
           N == Len(r)
           RP == {Q(z) : z \in 1 .. N}
<1>1. /\ \A z \in 1 .. N : \E k \in 1 .. n : \E l \in own[k] : l \in DOMAIN rows /\ r[z] = rows[l]
      /\ \A k \in 1 .. n : \A i \in 1 .. Len(segs[k]) : \E z \in 1 .. N : Q(z) = Payload(segs[k][i], columns)
      /\ N <= Len(rows)
  <2>1. limit \in Nat
    OBVIOUS
  <2> QED
    BY <2>1, GatheredRows
<1>2. /\ N \in Nat
      /\ \A i, j \in 1 .. N : Q(i) = Q(j) => i = j
      /\ \A i, j \in 1 .. N : i <= j => r[i].at[MergeTime(columns)] >= r[j].at[MergeTime(columns)]
      /\ m = (IF limit <= N THEN limit ELSE N)
  BY DEF Merges
<1>3. /\ m \in Nat /\ m <= N /\ m <= limit
      /\ answered = {Q(z) : z \in 1 .. m}
  <2>1. DOMAIN data = 1 .. m /\ \A k \in 1 .. m : data[k] = r[k]
    BY DEF Merges
  <2>2. m \in Nat /\ m <= N /\ m <= limit
    BY <1>2
  <2> HIDE DEF m
  <2> QED
    BY <2>1, <2>2
<1>4. \A z \in 1 .. N : \E l \in read : Q(z) = P(l)
  BY <1>1 DEF ReadBy
<1>5. RP \subseteq recorded /\ answered \subseteq RP
  <2>1. 1 .. m \subseteq 1 .. N
    BY <1>2, <1>3
  <2> HIDE DEF m, N, P, Q
  <2> QED
    BY <1>3, <1>4, <2>1 DEF Payloads, P
<1>6. \A j \in 0 .. N : Cardinality({Q(z) : z \in 1 .. j}) = j /\ IsFiniteSet({Q(z) : z \in 1 .. j})
  <2> SUFFICES ASSUME NEW j \in 0 .. N
               PROVE  Cardinality({Q(z) : z \in 1 .. j}) = j /\ IsFiniteSet({Q(z) : z \in 1 .. j})
    OBVIOUS
  <2> DEFINE T == {Q(z) : z \in 1 .. j}
             s == [z \in 1 .. j |-> Q(z)]
  <2>1. j \in Nat /\ \A z \in 1 .. j : z \in 1 .. N
    BY <1>2
  <2>2. s \in Seq(T) /\ Len(s) = j /\ DOMAIN s = 1 .. j /\ \A z \in 1 .. j : s[z] = Q(z)
    BY <2>1
  <2> HIDE DEF s
  <2>3. Distinct(s) /\ Range(s) = T
    BY <1>2, <2>1, <2>2 DEF Distinct, Range
  <2> HIDE DEF T
  <2>4. IsFiniteSet(Range(s)) /\ Cardinality(Range(s)) = Len(s)
    BY <2>2, <2>3, DistinctLength
  <2> QED
    BY <2>2, <2>3, <2>4 DEF T
<1>7. Cardinality(answered) = m /\ Cardinality(RP) = N
  <2>1. m \in 0 .. N /\ N \in 0 .. N
    BY <1>2, <1>3
  <2> QED
    BY <1>3, <1>6, <2>1
<1>8. \A l \in read : \E k \in 1 .. n : l \in own[k]
  BY DEF ReadBy
<1>0. \A k \in 1 .. n : own[k] \subseteq read
  BY DEF ReadBy
<1>9. ASSUME NEW k \in 1 .. n, NEW l \in own[k], whole
      PROVE  \/ \E z \in 1 .. N : Q(z) = P(l)
             \/ /\ Len(segs[k]) = limit /\ limit < Len(rows)
                /\ \A j \in 1 .. Len(segs[k]) : segs[k][j].at[c] >= rows[l].at[c]
  <2>1. PICK g : Page(g, segs[k], rows, own[k], whole, limit, c)
    BY DEF Gathers
  <2>2. CASE \E j \in 1 .. Len(segs[k]) : g[j] = l
    <3>1. PICK j \in 1 .. Len(segs[k]) : g[j] = l
      BY <2>2
    <3>2. segs[k][j] = rows[l]
      BY <2>1, <3>1 DEF Page, Draws
    <3> QED
      BY <1>1, <3>1, <3>2
  <2>3. CASE ~ \E j \in 1 .. Len(segs[k]) : g[j] = l
    BY <1>9, <2>1, <2>3 DEF Page
  <2> QED
    BY <2>2, <2>3
<1>10. IsFiniteSet(recorded)
  <2> DEFINE D == DOMAIN rows
             f == [l \in D |-> Payload(rows[l], columns)]
  <2>1. IsFiniteSet(D) /\ read \subseteq D
    <3>1. D = 1 .. Len(rows) /\ Len(rows) \in Nat
      OBVIOUS
    <3>2. \A k \in 1 .. n : own[k] \subseteq D
      BY DEF Gathers
    <3> QED
      BY <1>8, <3>1, <3>2, IntervalSize
  <2>2. f \in Surjection(D, Payloads(rows, D, columns))
    <3>1. f \in [D -> Payloads(rows, D, columns)] /\ \A p \in Payloads(rows, D, columns) : \E l \in D : f[l] = p
      BY DEF Payloads
    <3> HIDE DEF f, D
    <3> QED
      BY <3>1 DEF Surjection
  <2>3. IsFiniteSet(Payloads(rows, D, columns))
    BY <2>1, <2>2, FS_Surjection
  <2>4. recorded \subseteq Payloads(rows, D, columns)
    BY <2>1 DEF Payloads
  <2> QED
    BY <2>3, <2>4, FS_Subset
<1>11. recorded = {P(l) : l \in read}
  BY DEF Payloads
<1> HIDE DEF recorded, answered, RP, m, N
<1>12. recorded # {} => answered # {}
  <2> SUFFICES ASSUME recorded # {} PROVE answered # {}
    OBVIOUS
  <2>1. PICK k \in 1 .. n : own[k] # {}
    BY <1>8, <1>11
  <2>2. PICK g : Page(g, segs[k], rows, own[k], whole, limit, c)
    BY DEF Gathers
  <2>3. Len(segs[k]) > 0 /\ Len(segs[k]) \in Nat
    BY <2>1, <2>2 DEF Page, Draws
  <2>4. 1 \in 1 .. Len(segs[k])
    BY <2>3
  <2>5. PICK z \in 1 .. N : Q(z) = Payload(segs[k][1], columns)
    BY <1>1, <2>4
  <2>6. N > 0 /\ m > 0
    BY <1>2, <2>5
  <2>7. 1 \in 1 .. m
    BY <1>3, <2>6
  <2> QED
    BY <1>3, <2>7
\* Nothing was left out by a page.
<1>13. ASSUME whole, \A k \in 1 .. n : \A l \in own[k] : \E z \in 1 .. N : Q(z) = P(l)
       PROVE  RP = recorded
  <2>1. \A l \in read : \E z \in 1 .. N : Q(z) = P(l)
    BY <1>8, <1>13
  <2>2. recorded \subseteq RP
    BY <1>11, <2>1 DEF RP
  <2> QED
    BY <1>5, <2>2
<1>14. ASSUME whole, Len(rows) <= limit PROVE answered = recorded
  <2>1. \A k \in 1 .. n : \A l \in own[k] : \E z \in 1 .. N : Q(z) = P(l)
    <3>1. ~ limit < Len(rows)
      BY <1>14
    <3> QED
      BY <1>9, <1>14, <3>1
  <2>2. m = N
    BY <1>1, <1>2, <1>14
  <2> QED
    BY <1>3, <1>13, <1>14, <2>1, <2>2 DEF RP
\* A page that left a row out is full.
<1>15. ASSUME Unlike(rows, columns), NEW k \in 1 .. n
       PROVE  \E f : /\ \A i \in 1 .. Len(segs[k]) :
                          f[i] \in 1 .. N /\ Q(f[i]) = Payload(segs[k][i], columns)
                     /\ \A i, j \in 1 .. Len(segs[k]) : f[i] = f[j] => i = j
  <2> DEFINE page == segs[k]
             mine == own[k]
  <2>1. PICK g : Page(g, page, rows, mine, whole, limit, c)
    BY DEF Gathers
  <2>2. mine \subseteq DOMAIN rows
    BY DEF Gathers
  <2>3. \A i \in 1 .. Len(page) : \E z \in 1 .. Len(r) :
          Payload(r[z], columns) = Payload(page[i], columns)
    BY <1>1 DEF N
  <2> HIDE DEF page, mine
  <2> DEFINE f == [i \in 1 .. Len(page) |->
                     CHOOSE z \in 1 .. Len(r) : Payload(r[z], columns) = Payload(page[i], columns)]
  <2>4. \A i \in 1 .. Len(page) :
          f[i] \in 1 .. Len(r) /\ Payload(r[f[i]], columns) = Payload(page[i], columns)
    BY <2>3
  <2> HIDE DEF f
  <2>5. ASSUME NEW i \in 1 .. Len(page), NEW j \in 1 .. Len(page), f[i] = f[j] PROVE i = j
    <3>1. Payload(page[i], columns) = Payload(page[j], columns)
      BY <2>4, <2>5
    <3>2. /\ g[i] \in mine /\ g[j] \in mine /\ page[i] = rows[g[i]] /\ page[j] = rows[g[j]]
          /\ g[i] = g[j] => i = j
      BY <2>1 DEF Page, Draws
    <3>3. g[i] = g[j]
      BY <1>15, <2>2, <3>1, <3>2 DEF Unlike
    <3> QED
      BY <3>2, <3>3
  <2> QED
    BY <2>4, <2>5 DEF N, page
<1>16. ASSUME whole, Unlike(rows, columns) PROVE m = Min({limit, Cardinality(recorded)})
  <2>0. Cardinality(recorded) \in Nat
    BY <1>10, FS_CardinalityType
  <2>1. CASE \A k \in 1 .. n : \A l \in own[k] : \E z \in 1 .. N : Q(z) = P(l)
    <3>1. Cardinality(recorded) = N
      BY <1>7, <1>13, <1>16, <2>1
    <3> QED
      BY <1>2, <3>1, SmallerOf
  <2>2. CASE ~ \A k \in 1 .. n : \A l \in own[k] : \E z \in 1 .. N : Q(z) = P(l)
    <3>1. PICK k \in 1 .. n : Len(segs[k]) = limit
      BY <1>9, <1>16, <2>2
    <3>2. PICK f : /\ \A i \in 1 .. limit : f[i] \in 1 .. N
                   /\ \A i, j \in 1 .. limit : f[i] = f[j] => i = j
      <4>1. \E f : /\ \A i \in 1 .. Len(segs[k]) :
                         f[i] \in 1 .. N /\ Q(f[i]) = Payload(segs[k][i], columns)
                   /\ \A i, j \in 1 .. Len(segs[k]) : f[i] = f[j] => i = j
        BY <1>15, <1>16
      <4> HIDE DEF Q
      <4> QED
        BY <3>1, <4>1
    <3> DEFINE S == 1 .. N
    <3>3. IsFiniteSet(S) /\ Cardinality(S) = N
      BY <1>2, IntervalSize
    <3> HIDE DEF S
    <3>4. limit <= Cardinality(S)
      BY <3>2, <3>3, NoMoreThan DEF S
    <3>5. m = limit
      BY <1>2, <3>3, <3>4
    <3>6. Cardinality(answered) <= Cardinality(recorded)
      BY <1>5, <1>10, FS_Subset
    <3> QED
      BY <1>7, <2>0, <3>5, <3>6, SmallerOf
  <2> QED
    BY <2>1, <2>2
<1>17. ASSUME whole, Unlike(rows, columns), c = MergeTime(columns),
              NEW p \in answered, NEW o \in recorded \ answered
       PROVE  p[1][c] >= o[1][c]
  <2>0. \A x : Payload(x, columns)[1] = x.at
    BY DEF Payload
  <2>1. PICK z \in 1 .. m : p = Q(z)
    BY <1>3
  <2>2. PICK k \in 1 .. n : \E l \in own[k] : o = P(l)
    BY <1>8, <1>11
  <2>3. PICK l \in own[k] : o = P(l)
    BY <2>2
  <2>4. p[1][c] = r[z].at[c] /\ o[1][c] = rows[l].at[c]
    BY <2>0, <2>1, <2>3
  <2>5. z \in 1 .. N /\ z <= m /\ z \in Int
    BY <1>2, <1>3
  <2>6. \A y \in 1 .. N : r[y].at[c] \in Int
    BY <1>1, <1>17 DEF Mergeable
  <2>7. rows[l].at[c] \in Int /\ r[z].at[c] \in Int
    BY <1>17, <2>5, <2>6 DEF Mergeable
  <2>8. CASE \E y \in 1 .. N : Q(y) = P(l)
    <3>1. PICK y \in 1 .. N : Q(y) = P(l)
      BY <2>8
    <3>2. ~ y \in 1 .. m
      BY <1>3, <2>3, <3>1
    <3>3. z <= y
      BY <1>2, <1>3, <2>5, <3>2
    <3>4. r[y].at[c] = rows[l].at[c]
      BY <2>0, <3>1
    <3> QED
      BY <1>2, <1>17, <2>4, <2>5, <3>3, <3>4
  <2>9. CASE ~ \E y \in 1 .. N : Q(y) = P(l)
    <3>1. /\ Len(segs[k]) = limit
          /\ \A j \in 1 .. limit : segs[k][j].at[c] >= rows[l].at[c]
      BY <1>9, <1>17, <2>9
    <3>2. PICK f : /\ \A i \in 1 .. limit : f[i] \in 1 .. N /\ Q(f[i]) = Payload(segs[k][i], columns)
                   /\ \A i, j \in 1 .. limit : f[i] = f[j] => i = j
      <4>1. \E f : /\ \A i \in 1 .. Len(segs[k]) :
                         f[i] \in 1 .. N /\ Q(f[i]) = Payload(segs[k][i], columns)
                   /\ \A i, j \in 1 .. Len(segs[k]) : f[i] = f[j] => i = j
        BY <1>15, <1>17
      <4> HIDE DEF Q
      <4> QED
        BY <3>1, <4>1
    <3> SUFFICES ASSUME r[z].at[c] < rows[l].at[c] PROVE FALSE
      BY <2>4, <2>7
    <3> DEFINE S == 1 .. (z - 1)
    <3>3. ASSUME NEW i \in 1 .. limit PROVE f[i] \in S
      <4>1. f[i] \in 1 .. N /\ r[f[i]].at[c] = segs[k][i].at[c]
        BY <2>0, <3>2
      <4>2. r[f[i]].at[c] >= rows[l].at[c] /\ r[f[i]].at[c] \in Int
        BY <2>6, <3>1, <4>1
      <4>3. ~ z <= f[i]
        <5> SUFFICES ASSUME z <= f[i] PROVE FALSE
          OBVIOUS
        <5>1. r[z].at[c] >= r[f[i]].at[c]
          BY <1>2, <1>17, <2>5, <4>1
        <5> QED
          BY <2>7, <4>2, <5>1
      <4> QED
        BY <1>2, <2>5, <4>1, <4>3
    <3>4. IsFiniteSet(S) /\ Cardinality(S) = z - 1
      <4>1. z - 1 \in Nat
        BY <2>5
      <4> QED
        BY <4>1, IntervalSize
    <3> HIDE DEF S
    <3>5. limit <= Cardinality(S)
      BY <3>2, <3>3, <3>4, NoMoreThan
    <3> QED
      BY <1>3, <2>5, <3>4, <3>5
  <2> QED
    BY <2>8, <2>9
<1>18. answered \subseteq recorded
  BY <1>5
<1> QED
  BY <1>7, <1>12, <1>14, <1>16, <1>17, <1>18 DEF RowsRead, recorded, answered, m

-----------------------------------------------------------------------------
(* Entities: what a raw read answers.                                      *)

\* A topic that the matcher lets through is one that a rule allows.
LEMMA AllowedIs ==
  ASSUME NEW rules, \A rule \in rules : rule \in Seq(ToSet(rule)), NEW topic, topic \in Seq(ToSet(topic)),
         isTopicAllowedByAccessRules(topic, rules)
  PROVE  AllowedBy(rules, topic)
<1>1. PICK rule \in rules : matchesTopic(rule, topic)
  BY DEF isTopicAllowedByAccessRules, UnsTopicMatches
<1>2. Len(rule) \in Nat /\ DOMAIN rule = 1 .. Len(rule) /\ Len(topic) \in Nat
  OBVIOUS
<1>3. CASE Hashes(rule) = {}
  <2>1. /\ \A i \in 1 .. Len(rule) : rule[i] \in {"+", topic[i]}
        /\ Len(rule) = Len(topic)
    BY <1>1, <1>3 DEF matchesTopic
  <2> DEFINE n == Len(rule)
  <2>2. n \in 0 .. Len(topic) /\ n <= Len(rule) /\ n = Len(rule) /\ n = Len(topic)
    BY <1>2, <2>1
  <2>3. \A i \in 1 .. n : rule[i] \in {"+", topic[i]}
    BY <2>1
  <2> HIDE DEF n
  <2> QED
    BY <2>2, <2>3 DEF AllowedBy
<1>4. CASE Hashes(rule) # {}
  <2> DEFINE H == Hashes(rule)
             m == CHOOSE x \in H : \A y \in H : x =< y
             n == m - 1
  <2>1. H \in SUBSET Nat
    BY <1>2 DEF Hashes
  <2>2. m \in H
    <3>1. \E x \in H : \A y \in H : x =< y
      <4> HIDE DEF H
      <4> QED
        BY <1>4, <2>1, LeastElement DEF H
    <3> HIDE DEF H
    <3> QED
      BY <3>1
  <2>3. Min(Hashes(rule)) = m
    BY DEF Min
  <2> HIDE DEF m
  <2>4. m \in 1 .. Len(rule) /\ rule[m] = "#"
    BY <1>2, <2>2 DEF Hashes
  <2>5. \A i \in 1 .. n : i <= Len(topic) /\ rule[i] \in {"+", topic[i]}
    BY <1>1, <1>4, <2>3 DEF matchesTopic
  <2>6. n \in 0 .. Len(topic)
    <3>1. CASE n = 0
      BY <1>2, <3>1
    <3>2. CASE n # 0
      <4>1. n \in 1 .. n
        BY <1>2, <2>4, <3>2
      <4> QED
        BY <1>2, <2>4, <2>5, <4>1
    <3> QED
      BY <3>1, <3>2
  <2>7. n <= Len(rule) /\ n # Len(rule) /\ rule[n + 1] = "#"
    BY <1>2, <2>4
  <2> HIDE DEF n
  <2> QED
    BY <2>5, <2>6, <2>7 DEF AllowedBy
<1> QED
  BY <1>3, <1>4

\* The rows that each part of a read of an entity gives.
LinesOf(w, q, part) ==
  buildEntityDataSql(w.rows, w.entity, part, q.limit, q.dedupe, w.columns,
                     resolveTemporalStrategy(w.columns, q.timeField))

LEMMA LinesArePage ==
  ASSUME NEW w, WorldFits(w), Null \notin Int, NEW q, q.limit \in Nat \ {0}, NEW part,
         resolveTemporalStrategy(w.columns, q.timeField) # Refused
  PROVE  LET temporal == resolveTemporalStrategy(w.columns, q.timeField)
             own == OfPart(w.rows, w.entity, part, temporal)
         IN  /\ \E g : Page(g, LinesOf(w, q, part), w.rows, own, ~ canApplyDedupe(q.dedupe, w.columns),
                            q.limit, temporal.fromColumn)
             /\ \A l \in own : w.rows[l].at[MergeTime(w.columns)] \in Int
<1> DEFINE temporal == resolveTemporalStrategy(w.columns, q.timeField)
           own == OfPart(w.rows, w.entity, part, temporal)
           whole == ~ canApplyDedupe(q.dedupe, w.columns)
           s == buildEntitySourceSql(w.rows, w.entity, part, q.dedupe, w.columns, temporal)
           rows == w.rows
<1>1. rows \in Seq(ToSet(rows)) /\ \A r \in ToSet(rows) : RowFits(r, w.columns)
  BY DEF WorldFits
<1>2. \A r \in ToSet(rows) :
        /\ resolvePointTimeColumn(w.columns) # Null => r.at[resolvePointTimeColumn(w.columns)] \in Int
        /\ Timed(r, temporal) => /\ r.at[MergeTime(w.columns)] \in Int
                                 /\ \A k \in DOMAIN temporal.orderBy : r.at[temporal.orderBy[k]] \in Int
  BY <1>1, RowTimes
<1>3. \A l \in own : l \in DOMAIN rows /\ rows[l] \in ToSet(rows) /\ Timed(rows[l], temporal)
  BY DEF OfPart, Overlaps, ToSet
<1>4. Key(temporal.orderBy) /\ temporal.orderBy[1] = temporal.fromColumn
  BY TemporalIs
<1>5. LinesOf(w, q, part) = Limited(Newest(s, temporal), q.limit)
  BY DEF LinesOf, buildEntityDataSql
<1> HIDE DEF temporal, rows
<1>6. PICK h : Draws(h, s, rows, own, whole)
  <2>1. resolvePointTimeColumn(w.columns) # Null =>
          \A r \in ToSet(rows) : r.at[resolvePointTimeColumn(w.columns)] \in Int
    BY <1>2
  <2> QED
    BY <1>1, <2>1, SourceDraws DEF rows
<1> HIDE DEF s, own, whole
<1>7. \A l \in own, k \in DOMAIN temporal.orderBy : rows[l].at[temporal.orderBy[k]] \in Int
  BY <1>2, <1>3
<1> DEFINE limit == q.limit
           ob == temporal.orderBy
<1>8. limit \in Nat \ {0} /\ own \in SUBSET (DOMAIN rows)
  BY <1>3
<1> HIDE DEF limit
<1>9. \E g : Page(g, Limited(Newest(s, temporal), limit), rows, own, whole, limit, temporal.orderBy[1])
  BY <1>1, <1>4, <1>6, <1>7, <1>8, PageOfSource
<1>10. \A l \in own : rows[l].at[MergeTime(w.columns)] \in Int
  BY <1>2, <1>3
<1> QED
  BY <1>4, <1>5, <1>9, <1>10 DEF limit, rows, temporal, own, whole

\* What the property says of an answer to a raw read.
RowsTold(data, w, q) ==
  LET recorded == Payloads(w.rows, Recorded(w, q), w.columns)
      answered == {Payload(data[k], w.columns) : k \in DOMAIN data}
      c        == resolveTemporalStrategy(w.columns, q.timeField).fromColumn
  IN  /\ answered \subseteq recorded
      /\ Cardinality(answered) = Len(data)
      /\ Consecutive(w) =>
           /\ Len(w.rows) <= q.limit /\ ~ q.dedupe => answered = recorded
           /\ ~ q.dedupe /\ Unlike(w.rows, w.columns) =>
                /\ Len(data) = Min({q.limit, Cardinality(recorded)})
                /\ c = MergeTime(w.columns) => \A p \in answered, o \in recorded \ answered :
                     p[1][MergeTime(w.columns)] >= o[1][MergeTime(w.columns)]
           /\ recorded # {} => answered # {}

\* The rows of a read in several parts, put together.
MergedLines(w, q, plan) ==
  mergeEntityHistoryRows([k \in DOMAIN plan |-> LinesOf(w, q, plan[k])], q.limit, w.columns)

LEMMA MergedLinesTold ==
  ASSUME NoEnd \notin Int, Null \notin Int, NEW w, WorldFits(w), NEW q, q.from \in Int, q.to \in Int,
         q.from < q.to, q.limit \in Nat \ {0}, resolveTemporalStrategy(w.columns, q.timeField) # Refused,
         NEW plan, plan = planIntervals(w.intervals, w.attributePath, q.from, q.to), Len(plan) > 0
  PROVE  RowsTold(MergedLines(w, q, plan), w, q)
<1> DEFINE rows == w.rows
           temporal == resolveTemporalStrategy(w.columns, q.timeField)
           c == temporal.fromColumn
           n == Len(plan)
           own == [k \in 1 .. n |-> OfPart(rows, w.entity, plan[k], temporal)]
           segs == [k \in 1 .. n |-> LinesOf(w, q, plan[k])]
           whole == ~ canApplyDedupe(q.dedupe, w.columns)
           limit == q.limit
           all == FlattenSeq(segs)
           data == MergedLines(w, q, plan)
           read == UNION {own[k] : k \in 1 .. n}
<1>1. /\ n \in Nat /\ DOMAIN plan = 1 .. n
      /\ \A k \in 1 .. n : own[k] \subseteq Recorded(w, q)
      /\ Consecutive(w) => \A l \in Recorded(w, q) : \E k \in 1 .. n : l \in own[k]
  BY RecordedIs
<1>2. ASSUME NEW k \in 1 .. n
      PROVE  /\ \E g : Page(g, segs[k], rows, own[k], whole, limit, c)
             /\ \A l \in own[k] : rows[l].at[MergeTime(w.columns)] \in Int
             /\ own[k] \subseteq DOMAIN rows
  <2>1. own[k] \subseteq DOMAIN rows
    BY DEF OfPart
  <2> QED
    BY <2>1, LinesArePage
<1>3. data = mergeEntityHistoryRows(segs, limit, w.columns)
  BY <1>1 DEF MergedLines
<1>4. Len(segs) = n /\ rows \in Seq(ToSet(rows)) /\ limit \in Nat \ {0}
  BY <1>1 DEF WorldFits
<1>5. c = resolveTemporalStrategy(w.columns, q.timeField).fromColumn /\ (~ q.dedupe => whole)
  BY DEF canApplyDedupe
<1> HIDE DEF own, segs, c, whole, temporal, limit, rows, data
<1>6. /\ all \in Seq(ToSet(rows))
      /\ \A j \in 1 .. Len(all) : \E k \in 1 .. n : \E i \in 1 .. Len(segs[k]) : all[j] = segs[k][i]
      /\ \A k \in 1 .. n : \A i \in 1 .. Len(segs[k]) : \E j \in 1 .. Len(all) : all[j] = segs[k][i]
  <2> DEFINE T == ToSet(rows)
  <2>1. \A k \in 1 .. n : segs[k] \in Seq(T)
    BY <1>2 DEF Page, Draws
  <2> HIDE DEF T, n
  <2>2. n \in Nat /\ n > 0
    BY <1>1 DEF n
  <2>3. /\ all \in Seq(T)
        /\ \A j \in 1 .. Len(all) : \E k \in 1 .. n : \E i \in 1 .. Len(segs[k]) : all[j] = segs[k][i]
        /\ \A k \in 1 .. n : \A i \in 1 .. Len(segs[k]) : \E j \in 1 .. Len(all) : all[j] = segs[k][i]
    <3>1. ListsOf(segs, n, T)
      BY <1>4, <2>1, <2>2 DEF ListsOf, n
    <3>2. HasAll(all, segs, n, T)
      BY <2>2, <3>1, FlatHas
    <3> QED
      BY <3>2 DEF HasAll
  <2> QED
    BY <2>3 DEF T
<1>7. Gathers(all, segs, n, rows, own, whole, limit, c)
  BY <1>2, <1>6 DEF Gathers
<1>8. PICK r : Merges(r, data, all, w.columns, limit)
  <2>1. \A j \in 1 .. Len(all) : all[j].at[MergeTime(w.columns)] \in Int
    <3> SUFFICES ASSUME NEW j \in 1 .. Len(all) PROVE all[j].at[MergeTime(w.columns)] \in Int
      OBVIOUS
    <3>1. PICK k \in 1 .. n : \E i \in 1 .. Len(segs[k]) : all[j] = segs[k][i]
      BY <1>6
    <3>2. PICK i \in 1 .. Len(segs[k]) : all[j] = segs[k][i]
      BY <3>1
    <3>3. PICK g : Page(g, segs[k], rows, own[k], whole, limit, c)
      BY <1>2
    <3>4. g[i] \in own[k] /\ segs[k][i] = rows[g[i]]
      BY <3>3 DEF Page, Draws
    <3> QED
      BY <1>2, <3>2, <3>4
  <2> DEFINE columns == w.columns
             T == ToSet(rows)
  <2> HIDE DEF columns, T
  <2>2. \E r : Merges(r, mergeEntityHistoryRows(segs, limit, columns), FlattenSeq(segs), columns, limit)
    <3>1. limit \in Nat
      BY <1>4
    <3>2. FlattenSeq(segs) \in Seq(T)
      BY <1>6 DEF T
    <3>3. \A j \in 1 .. Len(FlattenSeq(segs)) : FlattenSeq(segs)[j].at[MergeTime(columns)] \in Int
      BY <2>1 DEF columns
    <3> QED
      BY <3>1, <3>2, <3>3, MergeIs
  <2> QED
    BY <1>3, <2>2 DEF columns
<1> HIDE DEF all, n
<1>10. read \subseteq Recorded(w, q) /\ (Consecutive(w) => read = Recorded(w, q))
  BY <1>1 DEF n
<1>9. ReadBy(read, own, n)
  BY DEF ReadBy
<1> HIDE DEF read
<1>11. RowsRead(data, rows, read, whole, limit, c, w.columns)
  <2> DEFINE columns == w.columns
  <2>1. Mergeable(rows, own, n, columns)
    BY <1>2 DEF Mergeable, n
  <2>2. Merges(r, data, all, columns, limit)
    BY <1>8
  <2> HIDE DEF columns
  <2>3. n \in Nat /\ limit \in Nat \ {0} /\ rows \in Seq(ToSet(rows))
    BY <1>1, <1>4 DEF n
  <2>4. RowsRead(data, rows, read, whole, limit, c, columns)
    BY <1>7, <1>9, <2>1, <2>2, <2>3, MergedRows
  <2> QED
    BY <2>4 DEF columns
<1>12. CASE ~ Consecutive(w)
  <2>1. Payloads(rows, read, w.columns) \subseteq Payloads(rows, Recorded(w, q), w.columns)
    BY <1>10 DEF Payloads
  <2> QED
    BY <1>11, <1>12, <2>1 DEF RowsTold, RowsRead, rows, data
<1>13. CASE Consecutive(w)
  <2>1. RowsRead(data, rows, Recorded(w, q), whole, limit, c, w.columns)
    BY <1>10, <1>11, <1>13
  <2> HIDE DEF Payloads
  <2> QED
    BY <1>5, <2>1 DEF RowsTold, RowsRead, rows, data, limit
<1> QED
  BY <1>12, <1>13

-----------------------------------------------------------------------------
(* Entities: what is calculated from the rows of some places.              *)

\* s has the rows of the places P, each once.
HasRowsOf(s, rows, P) == \E h : Draws(h, s, rows, P, TRUE)

LEMMA DrawnHas ==
  ASSUME NEW s, NEW rows, NEW P, HasRowsOf(s, rows, P)
  PROVE  /\ s \in Seq(ToSet(rows)) /\ Len(s) \in Nat /\ DOMAIN s = 1 .. Len(s)
         /\ \A j \in 1 .. Len(s) : \E l \in P : s[j] = rows[l]
         /\ \A l \in P : \E j \in 1 .. Len(s) : s[j] = rows[l]
         /\ \A l \in P : rows[l] \in ToSet(s)
<1>1. PICK h : Draws(h, s, rows, P, TRUE)
  BY DEF HasRowsOf
<1> DEFINE T == ToSet(rows)
<1>2. s \in Seq(T) /\ Len(s) \in Nat /\ DOMAIN s = 1 .. Len(s)
  BY <1>1 DEF Draws
<1>3. \A j \in 1 .. Len(s) : h[j] \in P /\ s[j] = rows[h[j]]
  BY <1>1 DEF Draws
<1>4. \A l \in P : \E j \in 1 .. Len(s) : h[j] = l
  BY <1>1 DEF Draws
<1>5. \A l \in P : \E j \in 1 .. Len(s) : s[j] = rows[l]
  BY <1>3, <1>4
<1>6. \A l \in P : rows[l] \in ToSet(s)
  BY <1>2, <1>5 DEF ToSet
<1> QED
  BY <1>2, <1>3, <1>5, <1>6

LEMMA DrawnFilter ==
  ASSUME NEW s, NEW rows, NEW P, HasRowsOf(s, rows, P), NEW S, NEW Q \in SUBSET P,
         \A l \in P : l \in Q <=> rows[l] \in S
  PROVE  HasRowsOf(Filter(s, S), rows, Q)
<1> DEFINE T == ToSet(rows)
           r == Filter(s, S)
<1>1. PICK h : Draws(h, s, rows, P, TRUE)
  BY DEF HasRowsOf
<1>2. s \in Seq(T) /\ Len(s) \in Nat
  BY <1>1 DEF Draws
<1>3. /\ \A j \in 1 .. Len(s) : h[j] \in P /\ s[j] = rows[h[j]]
      /\ \A i, j \in 1 .. Len(s) : h[i] = h[j] => i = j
      /\ \A l \in P : \E j \in 1 .. Len(s) : h[j] = l
  BY <1>1 DEF Draws
<1> HIDE DEF T
<1>4. PICK at : r \in Seq(T) /\ Keeps(r, at, s, S, Len(s))
  BY <1>2, FilterKeeps
<1> HIDE DEF r
<1>5. Len(r) \in Nat
  BY <1>4
<1>6. /\ \A i \in 1 .. Len(r) : at[i] \in 1 .. Len(s) /\ r[i] = s[at[i]] /\ r[i] \in S
      /\ \A i, j \in 1 .. Len(r) : i < j => at[i] < at[j]
      /\ \A k \in 1 .. Len(s) : s[k] \in S => \E i \in 1 .. Len(r) : at[i] = k
  BY <1>4 DEF Keeps
<1> DEFINE g == [i \in 1 .. Len(r) |-> h[at[i]]]
<1>7. \A i \in 1 .. Len(r) : g[i] = h[at[i]]
  OBVIOUS
<1> HIDE DEF g
<1>8. \A i \in 1 .. Len(r) : g[i] \in Q /\ r[i] = rows[g[i]]
  BY <1>3, <1>6, <1>7
<1>9. ASSUME NEW i \in 1 .. Len(r), NEW j \in 1 .. Len(r), g[i] = g[j] PROVE i = j
  <2>1. at[i] \in 1 .. Len(s) /\ at[j] \in 1 .. Len(s) /\ at[i] = at[j]
    BY <1>3, <1>6, <1>7, <1>9
  <2>2. ~ at[i] < at[j] /\ ~ at[j] < at[i]
    BY <1>2, <2>1
  <2>3. ~ i < j /\ ~ j < i
    BY <1>6, <2>2
  <2> QED
    BY <1>5, <2>3
<1>10. \A l \in Q : \E i \in 1 .. Len(r) : g[i] = l
  <2> SUFFICES ASSUME NEW l \in Q PROVE \E i \in 1 .. Len(r) : g[i] = l
    OBVIOUS
  <2>1. PICK j \in 1 .. Len(s) : h[j] = l /\ s[j] = rows[l]
    BY <1>3
  <2>2. PICK i \in 1 .. Len(r) : at[i] = j
    BY <1>6, <2>1
  <2> QED
    BY <1>7, <2>1, <2>2
<1>11. Q # {} => Len(r) > 0
  BY <1>5, <1>10
<1>12. Draws(g, r, rows, Q, TRUE)
  BY <1>4, <1>8, <1>9, <1>10, <1>11 DEF Draws, T
<1> QED
  BY <1>12 DEF r, HasRowsOf

LEMMA DrawnLength ==
  ASSUME NEW s, NEW rows, NEW P, IsFiniteSet(P), HasRowsOf(s, rows, P)
  PROVE  Len(s) = Cardinality(P)
<1>1. PICK h : Draws(h, s, rows, P, TRUE)
  BY DEF HasRowsOf
<1> DEFINE T == ToSet(rows)
           n == Len(s)
           g == [j \in 1 .. n |-> h[j]]
<1>2. s \in Seq(T)
  BY <1>1 DEF Draws
<1>3. n \in Nat
  BY <1>2
<1>4. /\ \A j \in 1 .. n : h[j] \in P
      /\ \A i, j \in 1 .. n : h[i] = h[j] => i = j
      /\ \A l \in P : \E j \in 1 .. n : h[j] = l
  BY <1>1 DEF Draws
<1> HIDE DEF n
<1>5. g \in Injection(1 .. n, P) /\ g \in Surjection(1 .. n, P)
  <2>1. g \in [1 .. n -> P] /\ DOMAIN g = 1 .. n
    BY <1>4
  <2>2. \A i, j \in 1 .. n : g[i] = g[j] => i = j
    BY <1>4
  <2>3. \A l \in P : \E j \in 1 .. n : g[j] = l
    BY <1>4
  <2> HIDE DEF g
  <2> QED
    BY <2>1, <2>2, <2>3 DEF Injection, IsInjective, Surjection
<1>6. Cardinality(1 .. n) = n
  BY <1>3, IntervalSize
<1> HIDE DEF g
<1>7. Cardinality(1 .. n) = Cardinality(P)
  BY <1>5, FS_Injection
<1> QED
  BY <1>6, <1>7 DEF n

\* The places that have a value, their values and the sum of these.
ValuedAt(rows, P) == {l \in P : rows[l].value # Null}
ValuesAt(rows, P) == {rows[l].value : l \in ValuedAt(rows, P)}
SumAt(rows, P) == SumFunction([l \in ValuedAt(rows, P) |-> rows[l].value])
NumbersAt(rows, P) == \A l \in P : rows[l].value \in Int \cup {Null}

LEMMA DrawnValues ==
  ASSUME NEW s, NEW rows, NEW P, IsFiniteSet(P), HasRowsOf(s, rows, P), NumbersAt(rows, P)
  PROVE  /\ Len(Valued(s)) = Cardinality(ValuedAt(rows, P))
         /\ SumOf(s) = SumAt(rows, P)
         /\ Values(s) = ValuesAt(rows, P)
<1> DEFINE V == ValuedAt(rows, P)
           v == Valued(s)
           n == Len(v)
<1>1. V \in SUBSET P /\ IsFiniteSet(V) /\ \A l \in V : rows[l].value \in Int
  BY FS_Subset DEF ValuedAt, NumbersAt
<1>2. HasRowsOf(v, rows, V)
  <2>1. \A l \in P : rows[l] \in ToSet(s)
    BY DrawnHas
  <2>2. \A l \in P : l \in V <=> rows[l] \in {r \in ToSet(s) : r.value # Null}
    BY <2>1 DEF ValuedAt
  <2> HIDE DEF V
  <2> QED
    BY <1>1, <2>2, DrawnFilter DEF Valued
<1> HIDE DEF v, V
<1>3. n = Cardinality(V)
  BY <1>1, <1>2, DrawnLength
<1>4. PICK h : Draws(h, v, rows, V, TRUE)
  BY <1>2 DEF HasRowsOf
<1>5. n \in Nat /\ DOMAIN v = 1 .. n
  BY <1>2, DrawnHas
<1>6. /\ \A j \in 1 .. n : h[j] \in V /\ v[j] = rows[h[j]]
      /\ \A i, j \in 1 .. n : h[i] = h[j] => i = j
      /\ \A l \in V : \E j \in 1 .. n : h[j] = l
  BY <1>4 DEF Draws
<1>7. SumOf(s) = SumAt(rows, P)
  <2> DEFINE f == [l \in V |-> rows[l].value]
             g == [i \in 1 .. n |-> v[i].value]
             I == 1 .. n
             H == {h[i] : i \in I}
  <2>1. SumOf(s) = SumFunctionOnSet(g, I)
    <3>1. SumOf(s) = SumFunction([i \in DOMAIN v |-> v[i].value])
      BY DEF SumOf, v
    <3>2. SumOf(s) = SumFunction(g)
      BY <1>5, <3>1
    <3>3. DOMAIN g = I
      OBVIOUS
    <3> HIDE DEF g, I
    <3> QED
      BY <3>2, <3>3 DEF SumFunction
  <2>2. SumAt(rows, P) = SumFunctionOnSet(f, V)
    <3>1. SumAt(rows, P) = SumFunction(f) /\ DOMAIN f = V
      BY DEF SumAt, V
    <3> HIDE DEF f
    <3> QED
      BY <3>1 DEF SumFunction
  <2>3. \A i \in I : g[i] = f[h[i]] /\ g[i] \in Int
    <3> SUFFICES ASSUME NEW i \in I PROVE g[i] = f[h[i]] /\ g[i] \in Int
      OBVIOUS
    <3>1. h[i] \in V /\ v[i] = rows[h[i]]
      BY <1>6
    <3> QED
      BY <1>1, <3>1
  <2>4. H = V
    BY <1>6
  <2>5. IsFiniteSet(I) /\ \A i, j \in I : h[i] = h[j] => i = j
    BY <1>5, <1>6, IntervalSize
  <2> HIDE DEF f, g, I
  <2>6. SumFunctionOnSet(f, H) = SumFunctionOnSet(g, I)
    BY <2>3, <2>5, SumImage
  <2> HIDE DEF H
  <2> QED
    BY <2>1, <2>2, <2>4, <2>6
<1>8. Values(s) = ValuesAt(rows, P)
  <2>1. ToSet(v) = {v[j] : j \in 1 .. n}
    BY <1>5 DEF ToSet
  <2>2. {r.value : r \in ToSet(v)} = {rows[l].value : l \in V}
    BY <1>6, <2>1
  <2> QED
    BY <2>2 DEF Values, ValuesAt, v, V
<1> QED
  BY <1>3, <1>7, <1>8 DEF v, V

\* l is the place of a newest row of P.
NewestAt(rows, P, c, l) == l \in P /\ \A m \in P : rows[m].at[c] <= rows[l].at[c]

LEMMA ReversedDraws ==
  ASSUME NEW s, NEW rows, NEW P, HasRowsOf(s, rows, P)
  PROVE  HasRowsOf(Reverse(s), rows, P)
<1>1. PICK h : Draws(h, s, rows, P, TRUE)
  BY DEF HasRowsOf
<1> DEFINE T == ToSet(rows)
           n == Len(s)
           r == Reverse(s)
           g == [j \in 1 .. n |-> h[(n - j) + 1]]
<1>2. s \in Seq(T)
  BY <1>1 DEF Draws
<1>3. /\ \A j \in 1 .. n : h[j] \in P /\ s[j] = rows[h[j]]
      /\ \A i, j \in 1 .. n : h[i] = h[j] => i = j
      /\ \A l \in P : \E j \in 1 .. n : h[j] = l
  BY <1>1 DEF Draws
<1>4. n \in Nat /\ r = [j \in 1 .. n |-> s[(n - j) + 1]]
  BY <1>2 DEF Reverse
<1>5. \A j \in 1 .. n : (n - j) + 1 \in 1 .. n
  BY <1>4
<1> HIDE DEF T, n, r
<1>6. r \in Seq(T) /\ Len(r) = n
  <2>1. \A j \in 1 .. n : s[(n - j) + 1] \in T
    <3>1. \A j \in 1 .. n : s[j] \in T
      BY <1>2 DEF n
    <3> QED
      BY <1>5, <3>1
  <2> QED
    BY <1>4, <2>1
<1>7. \A j \in 1 .. n : g[j] = h[(n - j) + 1] /\ r[j] = s[(n - j) + 1]
  BY <1>4
<1> HIDE DEF g
<1>8. \A j \in 1 .. n : g[j] \in P /\ r[j] = rows[g[j]]
  BY <1>3, <1>5, <1>7
<1>9. ASSUME NEW i \in 1 .. n, NEW j \in 1 .. n, g[i] = g[j] PROVE i = j
  <2>1. (n - i) + 1 = (n - j) + 1
    BY <1>3, <1>5, <1>7, <1>9
  <2> QED
    BY <1>4, <2>1
<1>10. \A l \in P : \E j \in 1 .. n : g[j] = l
  <2> SUFFICES ASSUME NEW l \in P PROVE \E j \in 1 .. n : g[j] = l
    OBVIOUS
  <2>1. PICK j \in 1 .. n : h[j] = l
    BY <1>3
  <2>2. (n - j) + 1 \in 1 .. n /\ (n - ((n - j) + 1)) + 1 = j
    BY <1>4
  <2>3. g[(n - j) + 1] = l
    BY <1>7, <2>1, <2>2
  <2> QED
    BY <2>2, <2>3
<1>11. P # {} => Len(r) > 0
  BY <1>4, <1>6, <1>10
<1>12. Draws(g, r, rows, P, TRUE)
  BY <1>6, <1>8, <1>9, <1>10, <1>11 DEF Draws, T
<1> QED
  BY <1>12 DEF HasRowsOf, r

LEMMA DrawnLast ==
  ASSUME NEW s, NEW rows, NEW P, P # {}, HasRowsOf(s, rows, P), NEW temporal, Key(temporal.orderBy),
         \A l \in P, k \in DOMAIN temporal.orderBy : rows[l].at[temporal.orderBy[k]] \in Int
  PROVE  \E l : NewestAt(rows, P, temporal.orderBy[1], l) /\ LastOf(s, temporal) = rows[l]
<1> DEFINE ob == temporal.orderBy
           u == Reverse(s)
           n == Len(u)
           r == Newest(u, temporal)
           c == ob[1]
<1>1. HasRowsOf(u, rows, P)
  BY ReversedDraws
<1> HIDE DEF u
<1>2. /\ n \in Nat /\ DOMAIN u = 1 .. n
      /\ \A j \in 1 .. n : \E l \in P : u[j] = rows[l]
      /\ \A l \in P : \E j \in 1 .. n : u[j] = rows[l]
  <2>1. n \in Nat /\ DOMAIN u = 1 .. n
    BY <1>1, DrawnHas
  <2>2. \A j \in 1 .. n : \E l \in P : u[j] = rows[l]
    BY <1>1, DrawnHas
  <2>3. \A l \in P : \E j \in 1 .. n : u[j] = rows[l]
    BY <1>1, DrawnHas
  <2> QED
    BY <2>1, <2>2, <2>3
<1>3. HaveTimes(u, ob)
  BY <1>2 DEF HaveTimes
<1>4. PICK o : Arranges(o, r, u, ob)
  BY <1>3, NewestArranges
<1>5. /\ \A k \in 1 .. n : o[k] \in 1 .. n /\ r[k] = u[o[k]]
      /\ \A k \in 1 .. n : \E i \in 1 .. n : o[i] = k
  BY <1>4 DEF Arranges, HasEach
<1>6. \A i, j \in 1 .. n : i <= j => r[i].at[ob[1]] >= r[j].at[ob[1]]
  BY <1>3, <1>4, ArrangedFalls
<1>7. LastOf(s, temporal) = r[1]
  BY DEF LastOf, u
<1> HIDE DEF r, ob, n
<1>8. 1 \in 1 .. n /\ \A j \in 1 .. n : 1 <= j
  BY <1>2
<1>9. PICK l \in P : r[1] = rows[l]
  <2>1. r[1] = u[o[1]] /\ o[1] \in 1 .. n
    BY <1>5, <1>8
  <2> QED
    BY <1>2, <2>1, SMTT(20)
<1>10. ASSUME NEW m \in P PROVE rows[m].at[c] <= rows[l].at[c]
  <2>1. PICK j \in 1 .. n : u[j] = rows[m]
    BY <1>2
  <2>2. PICK i \in 1 .. n : o[i] = j
    BY <1>5
  <2>3. r[i] = rows[m]
    BY <1>5, <2>1, <2>2
  <2>4. r[1].at[c] >= r[i].at[c]
    BY <1>6, <1>8
  <2>5. rows[l].at[c] >= rows[m].at[c]
    BY <1>9, <2>3, <2>4
  <2>6. 1 \in DOMAIN ob
    BY DEF Key, ob
  <2>7. rows[l].at[c] \in Int /\ rows[m].at[c] \in Int
    BY <2>6 DEF ob
  <2> QED
    BY <2>5, <2>7
<1> QED
  BY <1>7, <1>9, <1>10 DEF NewestAt, ob

-----------------------------------------------------------------------------
(* Entities: the parts of a plan have no instant in common.                *)

\* An entity that is read, and the range it is read for.
ReadFor(w, q) ==
  /\ NoEnd \notin Int /\ Null \notin Int /\ WorldFits(w)
  /\ q.from \in Nat /\ q.to \in Nat /\ q.from < q.to
  /\ resolveTemporalStrategy(w.columns, q.timeField) # Refused

LEMMA RecordedRows ==
  ASSUME NEW w, NEW q, ReadFor(w, q)
  PROVE  /\ IsFiniteSet(Recorded(w, q)) /\ Recorded(w, q) \subseteq DOMAIN w.rows
         /\ \A l \in Recorded(w, q) :
              /\ w.rows[l].value \in Int \cup {Null}
              /\ First(w.rows[l], q, w) \in Int /\ Final(w.rows[l], q, w) \in Int
              /\ First(w.rows[l], q, w) <= q.to /\ Final(w.rows[l], q, w) >= q.from
              /\ LET temporal == resolveTemporalStrategy(w.columns, q.timeField) IN
                 \A k \in DOMAIN temporal.orderBy : w.rows[l].at[temporal.orderBy[k]] \in Int
<1>1. Recorded(w, q) \subseteq DOMAIN w.rows
  BY DEF Recorded
<1>2. IsFiniteSet(DOMAIN w.rows)
  <2> DEFINE rows == w.rows
  <2>1. rows \in Seq(ToSet(rows))
    BY DEF ReadFor, WorldFits
  <2>2. DOMAIN rows = 1 .. Len(rows) /\ Len(rows) \in Nat
    BY <2>1
  <2> QED
    BY <2>2, IntervalSize
<1>3. IsFiniteSet(Recorded(w, q))
  BY <1>1, <1>2, FS_Subset
<1>4. ASSUME NEW l \in Recorded(w, q)
      PROVE  /\ w.rows[l].value \in Int \cup {Null}
             /\ First(w.rows[l], q, w) \in Int /\ Final(w.rows[l], q, w) \in Int
             /\ First(w.rows[l], q, w) <= q.to /\ Final(w.rows[l], q, w) >= q.from
             /\ LET temporal == resolveTemporalStrategy(w.columns, q.timeField) IN
                \A k \in DOMAIN temporal.orderBy : w.rows[l].at[temporal.orderBy[k]] \in Int
  <2> DEFINE row == w.rows[l]
             temporal == resolveTemporalStrategy(w.columns, q.timeField)
  <2>1. RowFits(row, w.columns)
    BY <1>1 DEF ReadFor, WorldFits, ToSet
  <2>2. /\ Null \notin {First(row, q, w), Final(row, q, w)}
        /\ First(row, q, w) <= q.to /\ Final(row, q, w) >= q.from
    BY DEF Recorded
  <2>3. First(row, q, w) = row.at[temporal.fromColumn] /\ Final(row, q, w) = row.at[temporal.toColumn]
    BY DEF First, Final
  <2>4. Timed(row, temporal)
    BY <2>2, <2>3 DEF Timed
  <2>5. temporal # Refused /\ Null \notin Int
    BY DEF ReadFor
  <2>6. row.value \in Int \cup {Null}
    BY <2>1 DEF RowFits
  <2> HIDE DEF row
  <2>7. /\ row.at[temporal.fromColumn] \in Int /\ row.at[temporal.toColumn] \in Int
        /\ \A k \in DOMAIN temporal.orderBy : row.at[temporal.orderBy[k]] \in Int
    BY <2>1, <2>4, <2>5, RowTimes
  <2> HIDE DEF temporal
  <2>8. /\ row.value \in Int \cup {Null}
        /\ First(row, q, w) \in Int /\ Final(row, q, w) \in Int
        /\ First(row, q, w) <= q.to /\ Final(row, q, w) >= q.from
        /\ \A k \in DOMAIN temporal.orderBy : row.at[temporal.orderBy[k]] \in Int
    BY <2>2, <2>3, <2>6, <2>7
  <2> QED
    BY <2>8 DEF row, temporal
<1> QED
  BY <1>1, <1>3, <1>4

\* The places that each part of the plan reads.
PartsOf(w, q, plan) ==
  [k \in 1 .. Len(plan) |-> OfPart(w.rows, w.entity, plan[k], resolveTemporalStrategy(w.columns, q.timeField))]

LEMMA PartsDivide ==
  ASSUME NEW w, NEW q, ReadFor(w, q), Consecutive(w), Instants(w, q),
         NEW plan, plan = planIntervals(w.intervals, w.attributePath, q.from, q.to)
  PROVE  /\ Len(plan) \in Nat
         /\ Divides(PartsOf(w, q, plan), 1 .. Len(plan), Recorded(w, q))
         /\ AllOf(PartsOf(w, q, plan), 1 .. Len(plan)) = Recorded(w, q)
<1> DEFINE own == PartsOf(w, q, plan)
           n == Len(plan)
           K == 1 .. n
           M == Recorded(w, q)
           place(k) == OfPart(w.rows, w.entity, plan[k], resolveTemporalStrategy(w.columns, q.timeField))
<1>0. \A k \in K : own[k] = place(k)
  BY DEF PartsOf
<1>1. NoEnd \notin Int /\ Null \notin Int /\ WorldFits(w) /\ q.from \in Int /\ q.to \in Int /\ q.from < q.to
  BY DEF ReadFor
<1>2. resolveTemporalStrategy(w.columns, q.timeField) # Refused
  BY DEF ReadFor
<1>3. /\ n \in Nat
      /\ \A k \in K : place(k) \subseteq M
      /\ \A l \in M : \E k \in K : l \in place(k)
      /\ \A k \in K : \E i \in w.intervals : ReadsBinding(plan[k], i, w, q)
      /\ \A j, k \in K : SameKey(plan[j], plan[k]) => j = k
  <2>1. n \in Nat
    BY <1>1, <1>2, RecordedIs
  <2>2. \A k \in K : place(k) \subseteq M
    BY <1>1, <1>2, RecordedIs
  <2>3. \A l \in M : \E k \in K : l \in place(k)
    BY <1>1, <1>2, RecordedIs
  <2>4. /\ \A k \in K : \E i \in w.intervals : ReadsBinding(plan[k], i, w, q)
        /\ \A j, k \in K : SameKey(plan[j], plan[k]) => j = k
    BY <1>1, <1>2, RecordedIs
  <2> QED
    BY <2>1, <2>2, <2>3, <2>4
<1>4. \A k \in K : \E i \in w.intervals : ReadsBinding(plan[k], i, w, q) /\ BindingFits(i)
  BY <1>3 DEF ReadFor, WorldFits
<1>5. \A i \in w.intervals : \A k \in K : \A l : ReadsBinding(plan[k], i, w, q) =>
        (l \in place(k) <=> l \in M /\ BoundTo(i, w.rows[l], q, w))
  BY DEF ReadsBinding
<1> HIDE DEF place, K, M
<1>6. ASSUME NEW j \in K, NEW k \in K, j # k, NEW l \in own[j], l \in own[k] PROVE FALSE
  <2>1. PICK i \in w.intervals : ReadsBinding(plan[j], i, w, q) /\ BindingFits(i)
    BY <1>4
  <2>2. PICK m \in w.intervals : ReadsBinding(plan[k], m, w, q) /\ BindingFits(m)
    BY <1>4
  <2> DEFINE row == w.rows[l]
             a == First(row, q, w)
  <2>3. l \in M /\ BoundTo(i, row, q, w) /\ BoundTo(m, row, q, w)
    BY <1>0, <1>5, <1>6, <2>1, <2>2
  <2>4. a \in Int /\ Final(row, q, w) = a
    BY <2>3, RecordedRows DEF M, Instants, First, Final
  <2> HIDE DEF row, a
  <2>5. /\ i.topic = row.topic /\ a >= i.validFrom /\ (i.validTo # NoEnd => a < i.validTo)
        /\ m.topic = row.topic /\ a >= m.validFrom /\ (m.validTo # NoEnd => a < m.validTo)
    BY <2>3, <2>4 DEF BoundTo, a
  <2>6. i # m
    <3> SUFFICES ASSUME i = m PROVE FALSE
      OBVIOUS
    <3>1. plan[j] = plan[k]
      BY <2>1, <2>2 DEF ReadsBinding
    <3>2. SameKey(plan[j], plan[k])
      BY <3>1 DEF SameKey
    <3> QED
      BY <1>3, <1>6, <3>2
  <2>7. EndsBefore(i, m) \/ EndsBefore(m, i)
    BY <2>5, <2>6 DEF Consecutive
  <2>8. i.validFrom \in Int /\ i.validTo \in Int \cup {NoEnd} /\ m.validFrom \in Int /\ m.validTo \in Int \cup {NoEnd}
    BY <2>1, <2>2 DEF BindingFits
  <2>9. ~ EndsBefore(i, m)
    BY <2>4, <2>5, <2>8 DEF EndsBefore
  <2>10. ~ EndsBefore(m, i)
    BY <2>4, <2>5, <2>8 DEF EndsBefore
  <2> QED
    BY <2>7, <2>9, <2>10
<1> HIDE DEF own
<1>7. Divides(own, K, M)
  BY <1>0, <1>3, <1>6 DEF Divides
<1>8. AllOf(own, K) = M
  BY <1>0, <1>3 DEF AllOf
<1> QED
  BY <1>3, <1>7, <1>8 DEF own, K, M

-----------------------------------------------------------------------------
(* Entities: the groups of a part.                                         *)

\* What a database groups: rows that have the times that order them, and numbers.
Grouping(rows, P, temporal) ==
  /\ IsFiniteSet(P) /\ NumbersAt(rows, P)
  /\ Key(temporal.orderBy) /\ temporal.orderBy[1] = temporal.fromColumn
  /\ \A l \in P, k \in DOMAIN temporal.orderBy : rows[l].at[temporal.orderBy[k]] \in Int

\* The places of a bucket, and the buckets of some places.
InBucket(rows, P, k, b, temporal) == {l \in P : BucketOf(rows[l], b, temporal) = k}
BucketsAt(rows, P, b, temporal) == {BucketOf(rows[l], b, temporal) : l \in P}

LEMMA GroupDraws ==
  ASSUME NEW s, NEW rows, NEW P, HasRowsOf(s, rows, P), NEW k, NEW b, NEW temporal
  PROVE  HasRowsOf(Group(s, k, b, temporal), rows, InBucket(rows, P, k, b, temporal))
<1> DEFINE Q == InBucket(rows, P, k, b, temporal)
           S == {r \in ToSet(s) : BucketOf(r, b, temporal) = k}
<1>1. Q \in SUBSET P /\ \A l \in P : l \in Q <=> rows[l] \in S
  BY DrawnHas DEF InBucket
<1> HIDE DEF Q, S
<1>2. HasRowsOf(Filter(s, S), rows, Q)
  BY <1>1, DrawnFilter
<1> QED
  BY <1>2 DEF Q, S, Group

LEMMA GroupedBuckets ==
  ASSUME NEW s, NEW rows, NEW P, HasRowsOf(s, rows, P), NEW b, NEW temporal
  PROVE  {BucketOf(r, b, temporal) : r \in ToSet(s)} = BucketsAt(rows, P, b, temporal)
<1>1. /\ Len(s) \in Nat /\ DOMAIN s = 1 .. Len(s)
      /\ \A j \in 1 .. Len(s) : \E l \in P : s[j] = rows[l]
      /\ \A l \in P : rows[l] \in ToSet(s)
  BY DrawnHas
<1>2. \A r \in ToSet(s) : \E l \in P : r = rows[l]
  BY <1>1 DEF ToSet
<1>3. \A x \in {BucketOf(r, b, temporal) : r \in ToSet(s)} : \E l \in P : x = BucketOf(rows[l], b, temporal)
  BY <1>2
<1>4. \A l \in P : BucketOf(rows[l], b, temporal) \in {BucketOf(r, b, temporal) : r \in ToSet(s)}
  BY <1>1
<1> QED
  BY <1>3, <1>4 DEF BucketsAt

\* g says of the rows of P what the database says of a group.
GroupFits(g, rows, P, c) ==
  /\ g.rowCount = Cardinality(P) /\ g.valueCount = Cardinality(ValuedAt(rows, P))
  /\ g.sum = SumAt(rows, P)
  /\ g.min = Smallest(ValuesAt(rows, P)) /\ g.max = Largest(ValuesAt(rows, P))
  /\ \E l : NewestAt(rows, P, c, l) /\ g.last = rows[l].value /\ g.lastTime = rows[l].at[c]

\* The rows of a bucket can be grouped again.
LEMMA GroupingOfBucket ==
  ASSUME NEW rows, NEW P, NEW temporal, Grouping(rows, P, temporal), NEW Q \in SUBSET P
  PROVE  Grouping(rows, Q, temporal)
BY FS_Subset DEF Grouping, NumbersAt

\* A group for each bucket of the places of a part.
PartialOf(segment, rows, P, b, temporal) ==
  /\ {g.bucket : g \in segment} = BucketsAt(rows, P, b, temporal)
  /\ \A g \in segment : GroupFits(g, rows, InBucket(rows, P, g.bucket, b, temporal), temporal.fromColumn)
  /\ \A g, h \in segment : g.bucket = h.bucket => g = h

LEMMA PartialIs ==
  ASSUME NEW s, NEW rows, NEW P, HasRowsOf(s, rows, P), NEW b, NEW temporal, Grouping(rows, P, temporal)
  PROVE  PartialOf(buildEntityBucketPartialSql(s, b, temporal), rows, P, b, temporal)
<1> DEFINE B == BucketsAt(rows, P, b, temporal)
           places(k) == InBucket(rows, P, k, b, temporal)
           group(k) == Group(s, k, b, temporal)
           last(k)  == LastOf(group(k), temporal)
           record(k) ==
             [bucket |-> k, rowCount |-> Len(group(k)), valueCount |-> Len(Valued(group(k))),
              sum |-> SumOf(group(k)), min |-> Smallest(Values(group(k))),
              max |-> Largest(Values(group(k))), last |-> last(k).value,
              lastTime |-> last(k).at[temporal.fromColumn]]
           segment == buildEntityBucketPartialSql(s, b, temporal)
<1>1. segment = {record(k) : k \in B}
  BY GroupedBuckets DEF buildEntityBucketPartialSql
<1>2. ASSUME NEW k \in B PROVE GroupFits(record(k), rows, places(k), temporal.fromColumn)
  <2> DEFINE Q == places(k)
             t == group(k)
             c == temporal.fromColumn
  <2>1. HasRowsOf(t, rows, Q)
    BY GroupDraws
  <2>2. Q \in SUBSET P /\ Q # {}
    BY DEF InBucket, BucketsAt
  <2> HIDE DEF Q, t
  <2>3. Grouping(rows, Q, temporal)
    BY <2>2, GroupingOfBucket
  <2>4. Len(t) = Cardinality(Q)
    BY <2>1, <2>3, DrawnLength DEF Grouping
  <2>5. Len(Valued(t)) = Cardinality(ValuedAt(rows, Q)) /\ SumOf(t) = SumAt(rows, Q) /\ Values(t) = ValuesAt(rows, Q)
    BY <2>1, <2>3, DrawnValues DEF Grouping
  <2>6. \E l : NewestAt(rows, Q, c, l) /\ LastOf(t, temporal) = rows[l]
    BY <2>1, <2>2, <2>3, DrawnLast DEF Grouping
  <2> DEFINE g == record(k)
  <2>7. /\ g.rowCount = Len(t) /\ g.valueCount = Len(Valued(t)) /\ g.sum = SumOf(t)
        /\ g.min = Smallest(Values(t)) /\ g.max = Largest(Values(t))
        /\ g.last = LastOf(t, temporal).value /\ g.lastTime = LastOf(t, temporal).at[c]
    BY DEF t
  <2> HIDE DEF g, c
  <2>8. GroupFits(g, rows, Q, c)
    BY <2>4, <2>5, <2>6, <2>7 DEF GroupFits
  <2> QED
    BY <2>8 DEF g, Q, c
<1>3. \A k : record(k).bucket = k
  OBVIOUS
<1> HIDE DEF record, places, segment, B
<1>4. {g.bucket : g \in segment} = B
  BY <1>1, <1>3
<1>5. \A g \in segment : g.bucket \in B /\ g = record(g.bucket)
  BY <1>1, <1>3
<1>6. ASSUME NEW g \in segment PROVE GroupFits(g, rows, places(g.bucket), temporal.fromColumn)
  BY <1>2, <1>5
<1>7. \A g, h \in segment : g.bucket = h.bucket => g = h
  BY <1>5
<1> QED
  BY <1>4, <1>6, <1>7 DEF PartialOf, B, places, segment

\* v is the value that the rows of P have together.
ValueIs(v, rows, P, aggregate, c) ==
  LET valued == ValuedAt(rows, P) IN
  \/ aggregate = "count" /\ v = Cardinality(P)
  \/ aggregate = "last" /\ \E l : NewestAt(rows, P, c, l) /\ v = rows[l].value
  \/ aggregate \in {"avg", "sum", "min", "max"} /\ valued = {} /\ v = Null
  \/ aggregate = "avg" /\ valued # {} /\ v = <<SumAt(rows, P), Cardinality(valued)>>
  \/ aggregate = "sum" /\ valued # {} /\ v = SumAt(rows, P)
  \/ aggregate = "min" /\ valued # {} /\ v = Min(ValuesAt(rows, P))
  \/ aggregate = "max" /\ valued # {} /\ v = Max(ValuesAt(rows, P))

LEMMA ValueIsOver ==
  ASSUME NEW rows, NEW P, NEW c, NEW time, \A l \in P : time[l] = rows[l].at[c], NEW aggregate, NEW v,
         ValueIs(v, rows, P, aggregate, c)
  PROVE  v \in ValueOver(rows, P, aggregate, time)
<1> DEFINE valued == ValuedAt(rows, P)
<1>1. CASE aggregate = "count" /\ v = Cardinality(P)
  BY <1>1 DEF ValueOver
<1>2. CASE aggregate = "last" /\ \E l : NewestAt(rows, P, c, l) /\ v = rows[l].value
  <2>1. PICK l : NewestAt(rows, P, c, l) /\ v = rows[l].value
    BY <1>2
  <2>2. l \in {m \in P : \A n \in P : time[n] <= time[m]}
    BY <2>1 DEF NewestAt
  <2> QED
    BY <1>2, <2>1, <2>2 DEF ValueOver
<1>3. CASE aggregate \in {"avg", "sum", "min", "max"} /\ valued = {} /\ v = Null
  BY <1>3 DEF ValueOver, ValuedAt
<1>4. CASE aggregate = "avg" /\ valued # {} /\ v = <<SumAt(rows, P), Cardinality(valued)>>
  BY <1>4 DEF ValueOver, ValuedAt, SumAt
<1>5. CASE aggregate = "sum" /\ valued # {} /\ v = SumAt(rows, P)
  BY <1>5 DEF ValueOver, ValuedAt, SumAt
<1>6. CASE aggregate = "min" /\ valued # {} /\ v = Min(ValuesAt(rows, P))
  BY <1>6 DEF ValueOver, ValuedAt, ValuesAt
<1>7. CASE aggregate = "max" /\ valued # {} /\ v = Max(ValuesAt(rows, P))
  BY <1>7 DEF ValueOver, ValuedAt, ValuesAt
<1> QED
  BY <1>1, <1>2, <1>3, <1>4, <1>5, <1>6, <1>7 DEF ValueIs

Aggregates == {"avg", "sum", "min", "max", "count", "last"}

\* data has a value for each bucket of the places M, but for min and max in some of them.
BucketsTold(data, v, rows, M, aggregate, b, temporal, hollow) ==
  /\ data = {[bucket |-> k, value |-> v[k]] : k \in BucketsAt(rows, M, b, temporal)}
  /\ \A k \in BucketsAt(rows, M, b, temporal) :
       \/ ValueIs(v[k], rows, InBucket(rows, M, k, b, temporal), aggregate, temporal.fromColumn)
       \/ aggregate \in {"min", "max"} /\ k \in hollow

\* One part alone.
LEMMA BucketSqlIs ==
  ASSUME NEW s, NEW rows, NEW M, HasRowsOf(s, rows, M), NEW b, NEW temporal, Grouping(rows, M, temporal),
         NEW aggregate \in Aggregates, NEW hollow
  PROVE  \E v : BucketsTold(buildBucketSql(s, aggregate, b, temporal), v, rows, M, aggregate, b, temporal, hollow)
<1> DEFINE B == BucketsAt(rows, M, b, temporal)
           places(k) == InBucket(rows, M, k, b, temporal)
           group(k) == Group(s, k, b, temporal)
           value(k) ==
             IF aggregate = "count" THEN Len(group(k))
             ELSE IF aggregate = "last" THEN LastOf(group(k), temporal).value
             ELSE IF Values(group(k)) = {} THEN Null
             ELSE CASE aggregate = "avg" -> <<SumOf(group(k)), Len(Valued(group(k)))>>
                    [] aggregate = "sum" -> SumOf(group(k))
                    [] aggregate = "min" -> Min(Values(group(k)))
                    [] aggregate = "max" -> Max(Values(group(k)))
           data == buildBucketSql(s, aggregate, b, temporal)
           v == [k \in B |-> value(k)]
<1>1. data = {[bucket |-> k, value |-> value(k)] : k \in B}
  <2> DEFINE C == {BucketOf(r, b, temporal) : r \in ToSet(s)}
  <2>1. data = {[bucket |-> k, value |-> value(k)] : k \in C}
    BY DEF buildBucketSql
  <2>2. C = B
    BY GroupedBuckets
  <2> HIDE DEF data, value, B, C
  <2> QED
    BY <2>1, <2>2
<1>2. ASSUME NEW k \in B PROVE ValueIs(value(k), rows, places(k), aggregate, temporal.fromColumn)
  <2> DEFINE Q == places(k)
             t == group(k)
             c == temporal.fromColumn
             x == value(k)
  <2>1. HasRowsOf(t, rows, Q)
    BY GroupDraws
  <2>2. Q \in SUBSET M /\ Q # {}
    BY DEF InBucket, BucketsAt
  <2>3. x = IF aggregate = "count" THEN Len(t)
             ELSE IF aggregate = "last" THEN LastOf(t, temporal).value
             ELSE IF Values(t) = {} THEN Null
             ELSE CASE aggregate = "avg" -> <<SumOf(t), Len(Valued(t))>>
                    [] aggregate = "sum" -> SumOf(t)
                    [] aggregate = "min" -> Min(Values(t))
                    [] aggregate = "max" -> Max(Values(t))
    OBVIOUS
  <2> HIDE DEF Q, t, x
  <2>4. Grouping(rows, Q, temporal)
    BY <2>2, GroupingOfBucket
  <2>5. Len(t) = Cardinality(Q)
    BY <2>1, <2>4, DrawnLength DEF Grouping
  <2>6. Len(Valued(t)) = Cardinality(ValuedAt(rows, Q)) /\ SumOf(t) = SumAt(rows, Q) /\ Values(t) = ValuesAt(rows, Q)
    BY <2>1, <2>4, DrawnValues DEF Grouping
  <2>7. \E l : NewestAt(rows, Q, c, l) /\ LastOf(t, temporal) = rows[l]
    BY <2>1, <2>2, <2>4, DrawnLast DEF Grouping
  <2>8. ValuesAt(rows, Q) = {} <=> ValuedAt(rows, Q) = {}
    BY DEF ValuesAt
  <2>9. ValueIs(x, rows, Q, aggregate, c)
    <3>1. CASE aggregate = "count"
      BY <2>3, <2>5, <3>1 DEF ValueIs
    <3>2. CASE aggregate = "last"
      BY <2>3, <2>7, <3>2 DEF ValueIs
    <3>3. CASE aggregate \in {"avg", "sum", "min", "max"} /\ Values(t) = {}
      BY <2>3, <2>6, <2>8, <3>3 DEF ValueIs
    <3>4. CASE aggregate = "avg" /\ Values(t) # {}
      BY <2>3, <2>6, <2>8, <3>4 DEF ValueIs
    <3>5. CASE aggregate = "sum" /\ Values(t) # {}
      BY <2>3, <2>6, <2>8, <3>5 DEF ValueIs
    <3>6. CASE aggregate = "min" /\ Values(t) # {}
      BY <2>3, <2>6, <2>8, <3>6 DEF ValueIs
    <3>7. CASE aggregate = "max" /\ Values(t) # {}
      BY <2>3, <2>6, <2>8, <3>7 DEF ValueIs
    <3> QED
      BY <3>1, <3>2, <3>3, <3>4, <3>5, <3>6, <3>7 DEF Aggregates
  <2> QED
    BY <2>9 DEF x, Q
<1> HIDE DEF value, B, places, data
<1>3. \A k \in B : v[k] = value(k)
  OBVIOUS
<1> HIDE DEF v
<1>4. data = {[bucket |-> k, value |-> v[k]] : k \in B}
  BY <1>1, <1>3
<1>5. \A k \in B : ValueIs(v[k], rows, places(k), aggregate, temporal.fromColumn)
  BY <1>2, <1>3
<1>6. BucketsTold(data, v, rows, M, aggregate, b, temporal, hollow)
  BY <1>4, <1>5 DEF BucketsTold, B, places
<1> QED
  BY <1>6 DEF data

-----------------------------------------------------------------------------
(* Entities: the groups of one bucket merged.                              *)

LEMMA LeastExists ==
  ASSUME NEW S \in SUBSET Int, IsFiniteSet(S), S # {}
  PROVE  \E m \in S : \A n \in S : m <= n
<1> DEFINE T == {0 - x : x \in S}
           f == [x \in S |-> 0 - x]
<1>1. f \in Surjection(S, T)
  <2>1. f \in [S -> T] /\ \A t \in T : \E x \in S : f[x] = t
    OBVIOUS
  <2> QED
    BY <2>1 DEF Surjection
<1>2. IsFiniteSet(T)
  <2> HIDE DEF f, T
  <2> QED
    BY <1>1, FS_Surjection
<1>3. T \in SUBSET Int /\ T # {}
  <2>1. \A x \in S : 0 - x \in Int
    OBVIOUS
  <2>2. T \in SUBSET Int
    BY <2>1
  <2>3. PICK x \in S : TRUE
    OBVIOUS
  <2>4. 0 - x \in T
    OBVIOUS
  <2> QED
    BY <2>2, <2>4
<1>4. PICK g \in T : \A n \in T : n <= g
  <2> HIDE DEF T
  <2> QED
    BY <1>2, <1>3, GreatestExists
<1>5. PICK m \in S : g = 0 - m
  OBVIOUS
<1>6. ASSUME NEW n \in S PROVE m <= n
  <2>1. 0 - n <= 0 - m
    BY <1>4, <1>5
  <2> QED
    BY <2>1
<1> QED
  BY <1>6

LEMMA LeastIs ==
  ASSUME NEW S \in SUBSET Int, NEW n \in S, \A m \in S : n <= m
  PROVE  Min(S) = n
<1>1. \A x \in S : (\A y \in S : x <= y) => x = n
  BY SMT
<1> QED
  BY <1>1 DEF Min

\* The groups G[k] of the parts Q[k] of S.
GroupsFit(G, Q, N, rows, S, c) ==
  /\ N \in SUBSET Int /\ IsFiniteSet(N) /\ N # {}
  /\ IsFiniteSet(S) /\ NumbersAt(rows, S) /\ \A l \in S : rows[l].at[c] \in Int
  /\ Divides(Q, N, S) /\ AllOf(Q, N) = S
  /\ \A k \in N : Q[k] # {} /\ GroupFits(G[k], rows, Q[k], c)

\* Their counts and their sum.
LEMMA MergedCounts ==
  ASSUME NEW G, NEW Q, NEW N, NEW rows, NEW S, NEW c, GroupsFit(G, Q, N, rows, S, c)
  PROVE  /\ SumFunction([k \in N |-> G[k].rowCount]) = Cardinality(S)
         /\ SumFunction([k \in N |-> G[k].valueCount]) = Cardinality(ValuedAt(rows, S))
         /\ SumFunction([k \in N |-> G[k].sum]) = SumAt(rows, S)
<1> DEFINE V == ValuedAt(rows, S)
           R == [k \in N |-> ValuedAt(rows, Q[k])]
           counts == [k \in N |-> G[k].rowCount]
           values == [k \in N |-> G[k].valueCount]
           sums == [k \in N |-> G[k].sum]
           f == [l \in V |-> rows[l].value]
<1>1. /\ IsFiniteSet(N) /\ IsFiniteSet(S) /\ NumbersAt(rows, S)
      /\ Divides(Q, N, S) /\ AllOf(Q, N) = S
  BY DEF GroupsFit
<1>2. \A k \in N : /\ G[k].rowCount = Cardinality(Q[k])
                   /\ G[k].valueCount = Cardinality(ValuedAt(rows, Q[k]))
                   /\ G[k].sum = SumAt(rows, Q[k])
  BY DEF GroupsFit, GroupFits
<1>3. \A k \in N : Q[k] \in SUBSET S /\ R[k] = ValuedAt(rows, Q[k])
  BY <1>1 DEF Divides
<1>4. V \in SUBSET S /\ IsFiniteSet(V) /\ \A l \in V : f[l] \in Int /\ f[l] = rows[l].value
  BY <1>1, FS_Subset DEF ValuedAt, NumbersAt
<1> HIDE DEF R
<1>5. Divides(R, N, V) /\ AllOf(R, N) = V
  <2>1. \A k \in N : R[k] \in SUBSET V
    BY <1>3 DEF ValuedAt
  <2>2. \A k, l \in N : k # l => R[k] \cap R[l] = {}
    BY <1>1, <1>3 DEF Divides, ValuedAt
  <2>3. \A l \in V : \E k \in N : l \in R[k]
    <3> SUFFICES ASSUME NEW l \in V PROVE \E k \in N : l \in R[k]
      OBVIOUS
    <3>1. PICK k \in N : l \in Q[k]
      BY <1>1 DEF AllOf, ValuedAt
    <3>2. l \in R[k]
      BY <1>3, <3>1 DEF ValuedAt
    <3> QED
      BY <3>2
  <2> HIDE DEF V
  <2> QED
    BY <2>1, <2>2, <2>3 DEF Divides, AllOf
<1>6. SumFunction(counts) = Cardinality(S)
  <2>1. DOMAIN counts = N /\ \A k \in N : counts[k] = Cardinality(Q[k])
    BY <1>2
  <2> HIDE DEF counts
  <2>2. SumFunctionOnSet(counts, N) = Cardinality(AllOf(Q, N))
    BY <1>1, <2>1, CountOfParts
  <2> QED
    BY <1>1, <2>1, <2>2 DEF SumFunction
<1>7. SumFunction(values) = Cardinality(V)
  <2>1. DOMAIN values = N /\ \A k \in N : values[k] = Cardinality(R[k])
    BY <1>2, <1>3
  <2> HIDE DEF values, V
  <2>2. SumFunctionOnSet(values, N) = Cardinality(AllOf(R, N))
    BY <1>1, <1>4, <1>5, <2>1, CountOfParts
  <2> QED
    BY <1>5, <2>1, <2>2 DEF SumFunction
<1>8. SumFunction(sums) = SumAt(rows, S)
  <2>1. DOMAIN sums = N /\ \A k \in N : sums[k] = SumAt(rows, Q[k])
    BY <1>2
  <2>2. ASSUME NEW k \in N PROVE SumAt(rows, Q[k]) = SumFunctionOnSet(f, R[k])
    <3> DEFINE W == ValuedAt(rows, Q[k])
               g == [l \in W |-> rows[l].value]
    <3>1. R[k] = W /\ W \in SUBSET V
      BY <1>3, <1>5 DEF Divides
    <3>2. \A l \in W : g[l] = f[l]
      BY <3>1
    <3>3. SumAt(rows, Q[k]) = SumFunction(g) /\ DOMAIN g = W
      BY DEF SumAt
    <3>4. IsFiniteSet(W)
      BY <1>4, <3>1, FS_Subset
    <3> HIDE DEF g, W, f
    <3>5. SumFunctionOnSet(g, W) = SumFunctionOnSet(f, W)
      BY <3>2, <3>4, SumSame
    <3> QED
      BY <3>1, <3>3, <3>5 DEF SumFunction
  <2>3. SumAt(rows, S) = SumFunctionOnSet(f, V)
    <3>1. SumAt(rows, S) = SumFunction(f) /\ DOMAIN f = V
      BY DEF SumAt
    <3> HIDE DEF f
    <3> QED
      BY <3>1 DEF SumFunction
  <2> HIDE DEF sums, V, f
  <2>4. \A k \in N : sums[k] = SumFunctionOnSet(f, R[k])
    BY <2>1, <2>2
  <2>5. SumFunctionOnSet(sums, N) = SumFunctionOnSet(f, AllOf(R, N))
    BY <1>1, <1>4, <1>5, <2>4, SumOfParts
  <2> QED
    BY <1>5, <2>1, <2>3, <2>5 DEF SumFunction
<1> QED
  BY <1>6, <1>7, <1>8

\* The values of finitely many places.
LEMMA ValuesFinite ==
  ASSUME NEW rows, NEW S, IsFiniteSet(S), NumbersAt(rows, S)
  PROVE  ValuesAt(rows, S) \in SUBSET Int /\ IsFiniteSet(ValuesAt(rows, S))
<1> DEFINE V == ValuedAt(rows, S)
           f == [l \in V |-> rows[l].value]
<1>1. IsFiniteSet(V) /\ \A l \in V : rows[l].value \in Int
  BY FS_Subset DEF ValuedAt, NumbersAt
<1>2. f \in Surjection(V, ValuesAt(rows, S))
  <2>1. f \in [V -> ValuesAt(rows, S)] /\ \A t \in ValuesAt(rows, S) : \E l \in V : f[l] = t
    BY DEF ValuesAt
  <2> QED
    BY <2>1 DEF Surjection
<1> HIDE DEF f
<1>3. IsFiniteSet(ValuesAt(rows, S))
  BY <1>1, <1>2, FS_Surjection
<1> QED
  BY <1>1, <1>3 DEF ValuesAt

\* No part without a value: the smallest and the largest are those of all.
Lows(G, N) == {G[k].min : k \in N}
Highs(G, N) == {G[k].max : k \in N}
HaveValues(Q, N, rows) == \A k \in N : ValuedAt(rows, Q[k]) # {}
LEMMA MergedExtremes ==
  ASSUME NEW G, NEW Q, NEW N, NEW rows, NEW S, NEW c, GroupsFit(G, Q, N, rows, S, c),
         HaveValues(Q, N, rows)
  PROVE  /\ ValuedAt(rows, S) # {}
         /\ Min(Lows(G, N)) = Min(ValuesAt(rows, S))
         /\ Max(Highs(G, N)) = Max(ValuesAt(rows, S))
<1> DEFINE V == ValuesAt(rows, S)
           W(k) == ValuesAt(rows, Q[k])
           low == Lows(G, N)
           high == Highs(G, N)
<1>1. /\ N # {} /\ IsFiniteSet(S) /\ NumbersAt(rows, S)
      /\ \A k \in N : Q[k] \in SUBSET S /\ AllOf(Q, N) = S
  BY DEF GroupsFit, Divides
<1>2. \A k \in N : G[k].min = Smallest(W(k)) /\ G[k].max = Largest(W(k))
  BY DEF GroupsFit, GroupFits
<1>3. V \in SUBSET Int /\ IsFiniteSet(V)
  BY <1>1, ValuesFinite
<1>4. ASSUME NEW k \in N PROVE W(k) \in SUBSET V /\ W(k) # {} /\ IsFiniteSet(W(k)) /\ W(k) \in SUBSET Int
  <2>1. W(k) \in SUBSET V /\ W(k) # {}
    BY <1>1 DEF ValuesAt, ValuedAt, HaveValues
  <2> HIDE DEF W, V
  <2> QED
    BY <1>3, <2>1, FS_Subset
<1>5. \A v \in V : \E k \in N : v \in W(k)
  <2> SUFFICES ASSUME NEW v \in V PROVE \E k \in N : v \in W(k)
    OBVIOUS
  <2>1. PICK l \in S : rows[l].value # Null /\ v = rows[l].value
    BY DEF ValuesAt, ValuedAt
  <2>2. PICK k \in N : l \in Q[k]
    BY <1>1, <2>1 DEF AllOf
  <2>3. v \in W(k)
    BY <2>1, <2>2 DEF ValuesAt, ValuedAt
  <2> QED
    BY <2>3
<1>6. V # {}
  BY <1>1, <1>4
<1> HIDE DEF V, W
<1>7. \A k \in N : /\ G[k].min \in W(k) /\ \A x \in W(k) : G[k].min <= x
                   /\ G[k].max \in W(k) /\ \A x \in W(k) : x <= G[k].max
  <2> SUFFICES ASSUME NEW k \in N
               PROVE  /\ G[k].min \in W(k) /\ \A x \in W(k) : G[k].min <= x
                      /\ G[k].max \in W(k) /\ \A x \in W(k) : x <= G[k].max
    OBVIOUS
  <2>1. G[k].min = Min(W(k)) /\ G[k].max = Max(W(k))
    BY <1>2, <1>4 DEF Smallest, Largest
  <2>2. PICK m \in W(k) : \A x \in W(k) : m <= x
    BY <1>4, LeastExists
  <2>3. PICK g \in W(k) : \A x \in W(k) : x <= g
    BY <1>4, GreatestExists
  <2>4. Min(W(k)) = m
    BY <1>4, <2>2, LeastIs
  <2>5. Max(W(k)) = g
    BY <1>4, <2>3, GreatestIs
  <2> QED
    BY <2>1, <2>2, <2>3, <2>4, <2>5
<1>8. low \in SUBSET V /\ high \in SUBSET V
  BY <1>4, <1>7 DEF Lows, Highs
<1>9. Min(low) = Min(V)
  <2>1. PICK m \in V : \A x \in V : m <= x
    BY <1>3, <1>6, LeastExists
  <2>2. PICK k \in N : m \in W(k)
    BY <1>5
  <2>3. G[k].min = m
    <3>1. G[k].min <= m /\ m <= G[k].min /\ G[k].min \in Int /\ m \in Int
      BY <1>3, <1>4, <1>7, <2>1, <2>2
    <3> QED
      BY <3>1
  <2>4. m \in low
    BY <2>3 DEF Lows
  <2> HIDE DEF low
  <2>5. low \in SUBSET Int /\ \A x \in low : m <= x
    BY <1>3, <1>8, <2>1
  <2>6. Min(low) = m
    BY <2>4, <2>5, LeastIs
  <2>7. Min(V) = m
    BY <1>3, <2>1, LeastIs
  <2> QED
    BY <2>6, <2>7
<1>10. Max(high) = Max(V)
  <2>1. PICK m \in V : \A x \in V : x <= m
    BY <1>3, <1>6, GreatestExists
  <2>2. PICK k \in N : m \in W(k)
    BY <1>5
  <2>3. G[k].max = m
    <3>1. G[k].max <= m /\ m <= G[k].max /\ G[k].max \in Int /\ m \in Int
      BY <1>3, <1>4, <1>7, <2>1, <2>2
    <3> QED
      BY <3>1
  <2>4. m \in high
    BY <2>3 DEF Highs
  <2> HIDE DEF high
  <2>5. high \in SUBSET Int /\ \A x \in high : x <= m
    BY <1>3, <1>8, <2>1
  <2>6. Max(high) = m
    BY <2>4, <2>5, GreatestIs
  <2>7. Max(V) = m
    BY <1>3, <2>1, GreatestIs
  <2> QED
    BY <2>6, <2>7
<1>11. ValuedAt(rows, S) # {}
  BY <1>6 DEF V, ValuesAt
<1> QED
  BY <1>9, <1>10, <1>11 DEF V

\* The group with the latest time has a newest row of all.
LEMMA MergedLast ==
  ASSUME NEW G, NEW Q, NEW N, NEW rows, NEW S, NEW c, GroupsFit(G, Q, N, rows, S, c)
  PROVE  /\ LatestGroup(G, N) \in N
         /\ \E l : NewestAt(rows, S, c, l) /\ G[LatestGroup(G, N)].last = rows[l].value
<1> DEFINE T == {G[k].lastTime : k \in N}
           L == {k \in N : \A l \in N : G[l].lastTime <= G[k].lastTime}
           f == [k \in N |-> G[k].lastTime]
<1>1. /\ N \in SUBSET Int /\ IsFiniteSet(N) /\ N # {} /\ AllOf(Q, N) = S
      /\ \A l \in S : rows[l].at[c] \in Int
      /\ \A k \in N : Q[k] \in SUBSET S
  BY DEF GroupsFit, Divides
<1>2. \A k \in N : \E l : NewestAt(rows, Q[k], c, l) /\ G[k].last = rows[l].value /\ G[k].lastTime = rows[l].at[c]
  BY DEF GroupsFit, GroupFits
<1>3. T \in SUBSET Int
  BY <1>1, <1>2 DEF NewestAt
<1>4. IsFiniteSet(T)
  <2>1. f \in [N -> T] /\ \A t \in T : \E k \in N : f[k] = t
    OBVIOUS
  <2>2. f \in Surjection(N, T)
    BY <2>1 DEF Surjection
  <2> HIDE DEF f, T
  <2> QED
    BY <1>1, <2>2, FS_Surjection
<1>5. T # {}
  BY <1>1
<1>6. PICK t \in T : \A u \in T : u <= t
  <2> HIDE DEF T
  <2> QED
    BY <1>3, <1>4, <1>5, GreatestExists
<1>7. L # {}
  <2>1. PICK k \in N : t = G[k].lastTime
    BY <1>6
  <2>2. \A l \in N : G[l].lastTime <= G[k].lastTime
    BY <1>6, <2>1
  <2> QED
    BY <2>2
<1>8. L \in SUBSET N /\ IsFiniteSet(L)
  BY <1>1, FS_Subset
<1>9. LatestGroup(G, N) = Max(L)
  BY DEF LatestGroup
<1>10. \A k \in L : k \in N /\ \A j \in N : G[j].lastTime <= G[k].lastTime
  OBVIOUS
<1> HIDE DEF L, T
<1>11. PICK k \in L : Max(L) = k
  <2>1. L \in SUBSET Int
    BY <1>1, <1>8
  <2>2. PICK g \in L : \A x \in L : x <= g
    BY <1>7, <1>8, <2>1, GreatestExists
  <2>3. Max(L) = g
    BY <2>1, <2>2, GreatestIs
  <2> QED
    BY <2>3
<1>12. k \in N /\ \A j \in N : G[j].lastTime <= G[k].lastTime
  BY <1>10
<1>13. PICK l : NewestAt(rows, Q[k], c, l) /\ G[k].last = rows[l].value /\ G[k].lastTime = rows[l].at[c]
  BY <1>2, <1>12
<1>14. l \in S
  BY <1>1, <1>12, <1>13 DEF NewestAt
<1>15. ASSUME NEW m \in S PROVE rows[m].at[c] <= rows[l].at[c]
  <2>1. PICK j \in N : m \in Q[j]
    BY <1>1 DEF AllOf
  <2>2. PICK x : NewestAt(rows, Q[j], c, x) /\ G[j].lastTime = rows[x].at[c]
    BY <1>2
  <2>3. rows[m].at[c] <= rows[x].at[c] /\ x \in S
    BY <1>1, <2>1, <2>2 DEF NewestAt
  <2>4. rows[x].at[c] <= rows[l].at[c]
    BY <1>12, <1>13, <2>2
  <2>5. rows[m].at[c] \in Int /\ rows[x].at[c] \in Int /\ rows[l].at[c] \in Int
    BY <1>1, <1>14, <2>3
  <2> QED
    BY <2>3, <2>4, <2>5
<1>16. NewestAt(rows, S, c, l) /\ G[LatestGroup(G, N)].last = rows[l].value
  BY <1>9, <1>11, <1>13, <1>14, <1>15 DEF NewestAt
<1> QED
  BY <1>9, <1>11, <1>12, <1>16

-----------------------------------------------------------------------------
(* Entities: the merged buckets.                                           *)

\* The value of the groups G[k], k in N, of one bucket.
TotalOf(G, N, field) == SumFunction([k \in N |-> G[k][field]])
MergedOf(G, N, aggregate) ==
  CASE aggregate = "avg"   -> IF TotalOf(G, N, "valueCount") = 0 THEN Null
                              ELSE <<TotalOf(G, N, "sum"), TotalOf(G, N, "valueCount")>>
    [] aggregate = "sum"   -> IF TotalOf(G, N, "valueCount") = 0 THEN Null
                              ELSE TotalOf(G, N, "sum")
    [] aggregate = "min"   -> Min(Lows(G, N))
    [] aggregate = "max"   -> Max(Highs(G, N))
    [] aggregate = "count" -> TotalOf(G, N, "rowCount")
    [] aggregate = "last"  -> G[LatestGroup(G, N)].last

LEMMA MergedValue ==
  ASSUME NEW G, NEW Q, NEW N, NEW rows, NEW S, NEW c, GroupsFit(G, Q, N, rows, S, c),
         NEW aggregate \in Aggregates
  PROVE  \/ ValueIs(MergedOf(G, N, aggregate), rows, S, aggregate, c)
         \/ aggregate \in {"min", "max"} /\ \E k \in N : ValuedAt(rows, Q[k]) = {}
<1> DEFINE x == MergedOf(G, N, aggregate)
           V == ValuedAt(rows, S)
           all == TotalOf(G, N, "rowCount")
           some == TotalOf(G, N, "valueCount")
           sum == TotalOf(G, N, "sum")
<1>1. all = Cardinality(S) /\ some = Cardinality(V) /\ sum = SumAt(rows, S)
  <2>1. /\ SumFunction([k \in N |-> G[k].rowCount]) = Cardinality(S)
        /\ SumFunction([k \in N |-> G[k].valueCount]) = Cardinality(V)
        /\ SumFunction([k \in N |-> G[k].sum]) = SumAt(rows, S)
    BY MergedCounts
  <2> QED
    BY <2>1 DEF TotalOf
<1>2. some = 0 <=> V = {}
  <2>1. IsFiniteSet(V)
    BY FS_Subset DEF GroupsFit, ValuedAt
  <2> QED
    BY <1>1, <2>1, FS_EmptySet
<1>3. x = CASE aggregate = "avg"   -> IF some = 0 THEN Null ELSE <<sum, some>>
            [] aggregate = "sum"   -> IF some = 0 THEN Null ELSE sum
            [] aggregate = "min"   -> Min(Lows(G, N))
            [] aggregate = "max"   -> Max(Highs(G, N))
            [] aggregate = "count" -> all
            [] aggregate = "last"  -> G[LatestGroup(G, N)].last
  BY DEF MergedOf
<1> HIDE DEF x, V, all, some, sum
<1>4. CASE aggregate = "avg"
  <2>1. x = IF some = 0 THEN Null ELSE <<sum, some>>
    BY <1>3, <1>4
  <2>2. ValueIs(x, rows, S, aggregate, c)
    BY <1>1, <1>2, <1>4, <2>1 DEF ValueIs, V
  <2> QED
    BY <2>2 DEF x
<1>5. CASE aggregate = "sum"
  <2>1. x = IF some = 0 THEN Null ELSE sum
    BY <1>3, <1>5
  <2>2. ValueIs(x, rows, S, aggregate, c)
    BY <1>1, <1>2, <1>5, <2>1 DEF ValueIs, V
  <2> QED
    BY <2>2 DEF x
<1>6. CASE aggregate = "count"
  <2>1. x = all
    BY <1>3, <1>6
  <2>2. ValueIs(x, rows, S, aggregate, c)
    BY <1>1, <1>6, <2>1 DEF ValueIs
  <2> QED
    BY <2>2 DEF x
<1>7. CASE aggregate = "last"
  <2>1. x = G[LatestGroup(G, N)].last
    BY <1>3, <1>7
  <2>2. \E l : NewestAt(rows, S, c, l) /\ x = rows[l].value
    BY <2>1, MergedLast
  <2>3. ValueIs(x, rows, S, aggregate, c)
    BY <1>7, <2>2 DEF ValueIs
  <2> QED
    BY <2>3 DEF x
<1>8. CASE aggregate = "min" /\ HaveValues(Q, N, rows)
  <2>1. x = Min(Lows(G, N))
    BY <1>3, <1>8
  <2>2. V # {} /\ Min(Lows(G, N)) = Min(ValuesAt(rows, S))
    BY <1>8, MergedExtremes DEF V
  <2>3. ValueIs(x, rows, S, aggregate, c)
    BY <1>8, <2>1, <2>2 DEF ValueIs, V
  <2> QED
    BY <2>3 DEF x
<1>9. CASE aggregate = "max" /\ HaveValues(Q, N, rows)
  <2>1. x = Max(Highs(G, N))
    BY <1>3, <1>9
  <2>2. V # {} /\ Max(Highs(G, N)) = Max(ValuesAt(rows, S))
    BY <1>9, MergedExtremes DEF V
  <2>3. ValueIs(x, rows, S, aggregate, c)
    BY <1>9, <2>1, <2>2 DEF ValueIs, V
  <2> QED
    BY <2>3 DEF x
<1> QED
  BY <1>4, <1>5, <1>6, <1>7, <1>8, <1>9 DEF Aggregates, HaveValues

\* The parts own[k] of M and the groups of each.
PartialsOf(segments, own, rows, M, b, temporal) ==
  /\ Len(segments) \in Nat /\ DOMAIN segments = 1 .. Len(segments)
  /\ Divides(own, DOMAIN segments, M) /\ AllOf(own, DOMAIN segments) = M
  /\ \A k \in DOMAIN segments : PartialOf(segments[k], rows, own[k], b, temporal)

\* The group of a bucket in a part, and the parts that have one.
GroupIn(segments, k, bucket) == CHOOSE g \in segments[k] : g.bucket = bucket
PartsWith(segments, bucket) == {k \in DOMAIN segments : \E g \in segments[k] : g.bucket = bucket}
GroupsOf(segments, bucket) == [k \in PartsWith(segments, bucket) |-> GroupIn(segments, k, bucket)]

\* The buckets some part has no value for.
HollowBuckets(own, K, rows, b, temporal) ==
  {k \in Int : \E j \in K : LET P == InBucket(rows, own[j], k, b, temporal)
                            IN  P # {} /\ ValuedAt(rows, P) = {}}

LEMMA GroupsOfBucket ==
  ASSUME NEW segments, NEW own, NEW rows, NEW M, NEW b, NEW temporal, Grouping(rows, M, temporal),
         PartialsOf(segments, own, rows, M, b, temporal), NEW k \in BucketsAt(rows, M, b, temporal)
  PROVE  GroupsFit(GroupsOf(segments, k),
                   [j \in PartsWith(segments, k) |-> InBucket(rows, own[j], k, b, temporal)],
                   PartsWith(segments, k), rows, InBucket(rows, M, k, b, temporal), temporal.fromColumn)
<1> DEFINE c == temporal.fromColumn
           S == InBucket(rows, M, k, b, temporal)
           N == PartsWith(segments, k)
           G == GroupsOf(segments, k)
           R(j) == InBucket(rows, own[j], k, b, temporal)
           Q == [j \in N |-> R(j)]
           K == DOMAIN segments
<1>1. /\ Len(segments) \in Nat /\ K = 1 .. Len(segments)
      /\ Divides(own, K, M) /\ AllOf(own, K) = M
      /\ \A j \in K : PartialOf(segments[j], rows, own[j], b, temporal)
  BY DEF PartialsOf
<1>2. \A j \in K : j \in N <=> R(j) # {}
  <2> SUFFICES ASSUME NEW j \in K PROVE j \in N <=> R(j) # {}
    OBVIOUS
  <2>1. {g.bucket : g \in segments[j]} = BucketsAt(rows, own[j], b, temporal)
    BY <1>1 DEF PartialOf
  <2>2. j \in N <=> k \in {g.bucket : g \in segments[j]}
    BY DEF PartsWith
  <2>3. k \in BucketsAt(rows, own[j], b, temporal) <=> R(j) # {}
    BY DEF BucketsAt, InBucket
  <2> QED
    BY <2>1, <2>2, <2>3
<1>3. N \in SUBSET K
  BY DEF PartsWith
<1>4. \A j \in N : Q[j] = R(j)
  OBVIOUS
<1>5. S # {} /\ S \in SUBSET M
  BY DEF BucketsAt, InBucket
<1>6. IsFiniteSet(S) /\ NumbersAt(rows, S) /\ \A l \in S : rows[l].at[c] \in Int
  <2>1. Grouping(rows, S, temporal)
    BY <1>5, GroupingOfBucket
  <2>2. 1 \in DOMAIN temporal.orderBy /\ temporal.orderBy[1] = c
    BY <2>1 DEF Grouping, Key
  <2> QED
    BY <2>1, <2>2 DEF Grouping
<1>7. \A j \in N : R(j) \in SUBSET S
  BY <1>1, <1>3 DEF Divides, InBucket
<1>8. \A i, j \in N : i # j => R(i) \cap R(j) = {}
  BY <1>1, <1>3 DEF Divides, InBucket
<1>9. \A l \in S : \E j \in N : l \in R(j)
  <2> SUFFICES ASSUME NEW l \in S PROVE \E j \in N : l \in R(j)
    OBVIOUS
  <2>1. PICK j \in K : l \in own[j]
    BY <1>1, <1>5 DEF AllOf
  <2>2. l \in R(j)
    BY <2>1 DEF InBucket
  <2> QED
    BY <1>2, <2>2
<1>10. \A j \in N : GroupFits(G[j], rows, R(j), c)
  <2> SUFFICES ASSUME NEW j \in N PROVE GroupFits(G[j], rows, R(j), c)
    OBVIOUS
  <2> DEFINE g == GroupIn(segments, j, k)
  <2>1. G[j] = g
    BY DEF GroupsOf
  <2>2. g \in segments[j] /\ g.bucket = k
    BY DEF GroupIn, PartsWith
  <2>3. PartialOf(segments[j], rows, own[j], b, temporal)
    BY <1>1, <1>3
  <2> HIDE DEF g
  <2>4. GroupFits(g, rows, InBucket(rows, own[j], g.bucket, b, temporal), c)
    BY <2>2, <2>3 DEF PartialOf
  <2> QED
    BY <2>1, <2>2, <2>4
<1>11. N \in SUBSET Int /\ IsFiniteSet(N)
  BY <1>1, <1>3, IntervalSize, FS_Subset
<1> HIDE DEF N, G, R, S, c, Q
<1>12. N # {}
  BY <1>5, <1>9
<1>13. Divides(Q, N, S)
  BY <1>4, <1>7, <1>8 DEF Divides
<1>14. AllOf(Q, N) = S
  BY <1>4, <1>7, <1>9 DEF AllOf
<1>15. \A j \in N : Q[j] # {} /\ GroupFits(G[j], rows, Q[j], c)
  BY <1>2, <1>3, <1>4, <1>10
<1>16. GroupsFit(G, Q, N, rows, S, c)
  BY <1>6, <1>11, <1>12, <1>13, <1>14, <1>15 DEF GroupsFit
<1> QED
  BY <1>16 DEF G, Q, N, S, c, R

LEMMA MergedBuckets ==
  ASSUME NEW segments, NEW own, NEW rows, NEW M, NEW b, NEW temporal, Grouping(rows, M, temporal),
         PartialsOf(segments, own, rows, M, b, temporal), NEW aggregate \in Aggregates,
         NEW hollow, HollowBuckets(own, DOMAIN segments, rows, b, temporal) \subseteq hollow,
         BucketsAt(rows, M, b, temporal) \subseteq Int
  PROVE  \E v : BucketsTold(mergeEntityBucketRows(segments, aggregate), v, rows, M, aggregate, b, temporal, hollow)
<1> DEFINE K == DOMAIN segments
           B == BucketsAt(rows, M, b, temporal)
           places(k) == InBucket(rows, M, k, b, temporal)
           c == temporal.fromColumn
           group(k, bucket) == CHOOSE g \in segments[k] : g.bucket = bucket
           parts(bucket)    == {k \in DOMAIN segments : \E g \in segments[k] : g.bucket = bucket}
           total(bucket, field) == SumFunction([k \in parts(bucket) |-> group(k, bucket)[field]])
           value(bucket) ==
             CASE aggregate = "avg"   -> IF total(bucket, "valueCount") = 0 THEN Null
                                         ELSE <<total(bucket, "sum"), total(bucket, "valueCount")>>
               [] aggregate = "sum"   -> IF total(bucket, "valueCount") = 0 THEN Null
                                         ELSE total(bucket, "sum")
               [] aggregate = "min"   -> Min({group(k, bucket).min : k \in parts(bucket)})
               [] aggregate = "max"   -> Max({group(k, bucket).max : k \in parts(bucket)})
               [] aggregate = "count" -> total(bucket, "rowCount")
               [] aggregate = "last"  ->
                    group(LatestGroup([k \in parts(bucket) |-> group(k, bucket)], parts(bucket)),
                          bucket).last
           data == mergeEntityBucketRows(segments, aggregate)
           N(k) == PartsWith(segments, k)
           G(k) == GroupsOf(segments, k)
           v == [k \in B |-> value(k)]
<1>1. UNION {{g.bucket : g \in segments[k]} : k \in K} = B
  <2>1. /\ Divides(own, K, M) /\ AllOf(own, K) = M
        /\ \A j \in K : {g.bucket : g \in segments[j]} = BucketsAt(rows, own[j], b, temporal)
    BY DEF PartialsOf, PartialOf
  <2>2. \A l \in M : \E j \in K : l \in own[j]
    BY <2>1 DEF AllOf
  <2>3. \A j \in K : \A l \in own[j] : l \in M
    BY <2>1 DEF Divides
  <2> HIDE DEF K
  <2>4. \A x \in B : \E j \in K : x \in BucketsAt(rows, own[j], b, temporal)
    BY <2>2 DEF BucketsAt
  <2>5. \A j \in K : BucketsAt(rows, own[j], b, temporal) \subseteq B
    BY <2>3 DEF BucketsAt
  <2>6. \A x : x \in UNION {{g.bucket : g \in segments[k]} : k \in K}
                 <=> \E j \in K : x \in BucketsAt(rows, own[j], b, temporal)
    BY <2>1
  <2> HIDE DEF B
  <2> QED
    BY <2>4, <2>5, <2>6
<1>2. data = {[bucket |-> k, value |-> value(k)] : k \in B}
  <2> DEFINE C == UNION {{g.bucket : g \in segments[k]} : k \in K}
  <2>1. data = {[bucket |-> k, value |-> value(k)] : k \in C}
    BY DEF mergeEntityBucketRows
  <2> HIDE DEF data, value, B, C
  <2> QED
    BY <1>1, <2>1 DEF C
<1>3. \A k : parts(k) = N(k)
  BY DEF PartsWith
<1>4. \A k : [j \in parts(k) |-> group(j, k)] = G(k)
  BY DEF GroupsOf, PartsWith, GroupIn
<1>5. \A k : \A j \in N(k) : G(k)[j] = group(j, k)
  BY DEF GroupsOf, GroupIn
<1>6. ASSUME NEW k \in B PROVE value(k) = MergedOf(G(k), N(k), aggregate)
  <2>1. \A field : total(k, field) = TotalOf(G(k), N(k), field)
    BY <1>3, <1>5 DEF TotalOf
  <2>2. {group(j, k).min : j \in parts(k)} = Lows(G(k), N(k)) /\ {group(j, k).max : j \in parts(k)} = Highs(G(k), N(k))
    <3>1. parts(k) = N(k) /\ \A j \in N(k) : G(k)[j] = group(j, k)
      BY <1>3, <1>5
    <3> HIDE DEF parts, group, N, G
    <3>2. {group(j, k).min : j \in N(k)} = Lows(G(k), N(k))
      BY <3>1 DEF Lows
    <3>3. {group(j, k).max : j \in N(k)} = Highs(G(k), N(k))
      BY <3>1 DEF Highs
    <3> QED
      BY <3>1, <3>2, <3>3
  <2>3. LatestGroup(G(k), N(k)) \in N(k)
    BY GroupsOfBucket, MergedLast
  <2>4. group(LatestGroup(G(k), N(k)), k) = G(k)[LatestGroup(G(k), N(k))]
    BY <1>5, <2>3
  <2>5. group(LatestGroup([j \in parts(k) |-> group(j, k)], parts(k)), k).last = G(k)[LatestGroup(G(k), N(k))].last
    BY <1>3, <1>4, <2>4
  <2> HIDE DEF total, group, parts, G, N
  <2>6. value(k) =
          CASE aggregate = "avg"   -> IF total(k, "valueCount") = 0 THEN Null
                                      ELSE <<total(k, "sum"), total(k, "valueCount")>>
            [] aggregate = "sum"   -> IF total(k, "valueCount") = 0 THEN Null
                                      ELSE total(k, "sum")
            [] aggregate = "min"   -> Min(Lows(G(k), N(k)))
            [] aggregate = "max"   -> Max(Highs(G(k), N(k)))
            [] aggregate = "count" -> total(k, "rowCount")
            [] aggregate = "last"  -> G(k)[LatestGroup(G(k), N(k))].last
    BY <2>2, <2>5 DEF value
  <2> HIDE DEF value
  <2>7. aggregate \in {"avg", "sum", "min", "max", "count", "last"}
    BY DEF Aggregates
  <2>8. CASE aggregate = "avg" \/ aggregate = "sum"
    BY <2>1, <2>6, <2>8 DEF MergedOf
  <2>9. CASE aggregate = "min" \/ aggregate = "max"
    BY <2>6, <2>9 DEF MergedOf
  <2>10. CASE aggregate = "count" \/ aggregate = "last"
    BY <2>1, <2>6, <2>10 DEF MergedOf
  <2> QED
    BY <2>7, <2>8, <2>9, <2>10
<1>7. ASSUME NEW k \in B
      PROVE  \/ ValueIs(value(k), rows, places(k), aggregate, c)
             \/ aggregate \in {"min", "max"} /\ k \in hollow
  <2> DEFINE Q == [j \in N(k) |-> InBucket(rows, own[j], k, b, temporal)]
  <2>1. GroupsFit(G(k), Q, N(k), rows, places(k), c)
    BY GroupsOfBucket
  <2>2. \A j \in N(k) : Q[j] = InBucket(rows, own[j], k, b, temporal) /\ Q[j] # {} /\ j \in K
    BY <2>1 DEF GroupsFit, PartsWith
  <2> HIDE DEF Q, places, value, G, N
  <2>3. CASE ValueIs(MergedOf(G(k), N(k), aggregate), rows, places(k), aggregate, c)
    BY <1>6, <2>3
  <2>4. CASE aggregate \in {"min", "max"} /\ \E j \in N(k) : ValuedAt(rows, Q[j]) = {}
    <3>1. PICK j \in N(k) : ValuedAt(rows, Q[j]) = {}
      BY <2>4
    <3>2. k \in Int
      OBVIOUS
    <3>3. k \in HollowBuckets(own, K, rows, b, temporal)
      BY <2>2, <3>1, <3>2 DEF HollowBuckets
    <3> QED
      BY <2>4, <3>3
  <2> QED
    BY <2>1, <2>3, <2>4, MergedValue
<1> HIDE DEF value, B, places, data
<1>8. \A k \in B : v[k] = value(k)
  OBVIOUS
<1> HIDE DEF v
<1>9. data = {[bucket |-> k, value |-> v[k]] : k \in B}
  BY <1>2, <1>8
<1>10. \A k \in B : \/ ValueIs(v[k], rows, places(k), aggregate, c)
                    \/ aggregate \in {"min", "max"} /\ k \in hollow
  BY <1>7, <1>8
<1>11. BucketsTold(data, v, rows, M, aggregate, b, temporal, hollow)
  BY <1>9, <1>10 DEF BucketsTold, B, places
<1> QED
  BY <1>11 DEF data

-----------------------------------------------------------------------------
(* Entities: no more points than asked.                                    *)

LEMMA QuotientIs ==
  ASSUME NEW t \in Int, NEW b \in Nat \ {0}
  PROVE  t \div b \in Int /\ (t \div b) * b <= t /\ t < (t \div b) * b + b
OBVIOUS

LEMMA QuotientGrows ==
  ASSUME NEW s \in Int, NEW t \in Int, s <= t, NEW b \in Nat \ {0}
  PROVE  s \div b <= t \div b
<1> DEFINE x == s \div b
           y == t \div b
<1>1. x \in Int /\ x * b <= s /\ y \in Int /\ t < y * b + b
  BY QuotientIs
<1> HIDE DEF x, y
<1>2. x * b < (y + 1) * b
  <2>1. x * b < y * b + b /\ y * b + b = (y + 1) * b
    BY <1>1
  <2> QED
    BY <2>1
<1>3. x < y + 1
  BY <1>1, <1>2
<1>4. x <= y
  BY <1>1, <1>3
<1> QED
  BY <1>4 DEF x, y

\* The width of a bucket that a number of points asks for.
LEMMA WidthDerived ==
  ASSUME NEW from \in Nat, NEW to \in Nat, from <= to, NEW points \in Nat \ {0}
  PROVE  /\ deriveBucketMs(from, to, points) \in 1 .. (to + 1)
         /\ estimateBucketCount(from, to, deriveBucketMs(from, to, points)) <= points
<1> DEFINE e == firstEstimate(from, to, points)
           est(b) == estimateBucketCount(from, to, b)
           S == {b \in e .. (to + 1) : est(b) <= points}
           d == (to - from + points) \div points
<1>1. \A b \in Nat \ {0} : est(b) \in Int
  BY QuotientIs DEF estimateBucketCount
<1>2. d \in Int /\ d <= to + 1
  <2> DEFINE m == to - from
  <2>1. m \in Nat /\ m <= to
    OBVIOUS
  <2>2. d \in Int /\ d * points <= m + points
    BY QuotientIs
  <2>3. m <= m * points
    BY <2>1
  <2> HIDE DEF m, d
  <2>4. d * points <= (m + 1) * points
    BY <2>1, <2>2, <2>3
  <2>5. d <= m + 1
    <3> SUFFICES ASSUME m + 1 < d PROVE FALSE
      BY <2>1, <2>2
    <3>1. (m + 2) * points <= d * points
      <4>1. m + 2 <= d
        BY <2>1, <2>2
      <4> QED
        BY <2>1, <2>2, <4>1
    <3>2. (m + 2) * points = (m + 1) * points + points
      BY <2>1
    <3>3. (m + 1) * points \in Int /\ d * points \in Int /\ (m + 2) * points \in Int
      BY <2>1, <2>2
    <3> QED
      BY <2>4, <3>1, <3>2, <3>3
  <2> QED
    BY <2>1, <2>2, <2>5
<1>3. e \in Nat \ {0} /\ e <= to + 1
  <2>1. e = IF 1 <= d THEN d ELSE 1
    BY <1>2, LargerOf DEF firstEstimate
  <2> HIDE DEF e, d
  <2> QED
    BY <1>2, <2>1
<1>4. to + 1 \in S
  <2>1. to \div (to + 1) = 0 /\ from \div (to + 1) = 0
    <3>1. \A s \in 0 .. to : s \div (to + 1) = 0
      <4> SUFFICES ASSUME NEW s \in 0 .. to PROVE s \div (to + 1) = 0
        OBVIOUS
      <4> DEFINE x == s \div (to + 1)
                 b == to + 1
      <4>0. s \in Int /\ b \in Nat \ {0} /\ s < b /\ 0 <= s
        OBVIOUS
      <4> HIDE DEF b
      <4>1. x \in Int /\ x * b <= s /\ s < x * b + b /\ b \in Nat \ {0} /\ s < b /\ 0 <= s
        BY <4>0, QuotientIs DEF b
      <4> HIDE DEF x, b
      <4>2. x < 1
        <5> SUFFICES ASSUME x >= 1 PROVE FALSE
          BY <4>1
        <5>1. x * b >= b
          BY <4>1
        <5> QED
          BY <4>1, <5>1
      <4>3. x > -1
        <5> SUFFICES ASSUME x <= -1 PROVE FALSE
          BY <4>1
        <5>1. x * b <= -b
          BY <4>1
        <5> QED
          BY <4>1, <5>1
      <4>4. x = 0
        BY <4>1, <4>2, <4>3
      <4> QED
        BY <4>4 DEF x
    <3> QED
      BY <3>1
  <2>2. est(to + 1) = 1
    BY <2>1 DEF estimateBucketCount
  <2> HIDE DEF e, est
  <2> QED
    BY <1>3, <2>2
<1>5. S \in SUBSET Nat
  <2> HIDE DEF e, est
  <2> QED
    BY <1>3
<1> HIDE DEF e, d
<1>6. PICK b \in S : \A c \in S : b <= c
  <2> HIDE DEF S
  <2> QED
    BY <1>4, <1>5, LeastElement
<1>7. \A c \in e .. (b - 1) : est(c) > points
  <2> SUFFICES ASSUME NEW c \in e .. (b - 1) PROVE est(c) > points
    OBVIOUS
  <2>1. c \in Nat \ {0} /\ c \in e .. (to + 1) /\ b \in Nat /\ c < b
    BY <1>3, <1>5
  <2>2. c \notin S
    BY <1>6, <2>1
  <2>3. est(c) \in Int
    BY <1>1, <2>1
  <2> HIDE DEF est
  <2> QED
    BY <2>1, <2>2, <2>3
<1>8. b \in e .. (to + 1) /\ est(b) <= points
  BY <1>6
<1> DEFINE x == deriveBucketMs(from, to, points)
<1>9. x = CHOOSE c \in e .. (to + 1) : est(c) <= points /\ \A n \in e .. (c - 1) : est(n) > points
  BY DEF deriveBucketMs, e
<1> HIDE DEF x, est
<1>10. x \in e .. (to + 1) /\ est(x) <= points
  BY <1>7, <1>8, <1>9
<1>11. x \in 1 .. (to + 1)
  BY <1>3, <1>10
<1> QED
  BY <1>10, <1>11 DEF x, est

\* data has one element for a bucket, and each bucket has one of the rows M.
OfBuckets(data, rows, M, b, temporal) ==
  /\ \A d, e \in data : d.bucket = e.bucket => d = e
  /\ \A d \in data : \E l \in M : d.bucket = BucketOf(rows[l], b, temporal)

\* Then they are no more than the range of the rows has.
LEMMA BucketsCapped ==
  ASSUME NEW rows, NEW M, NEW b \in Nat \ {0}, NEW temporal, NEW from \in Nat, NEW to \in Nat, from <= to,
         \A l \in M : LET t == rows[l].at[temporal.fromColumn] IN t \in Int /\ from <= t /\ t <= to,
         NEW data, OfBuckets(data, rows, M, b, temporal)
  PROVE  /\ Cardinality(data) \in Nat /\ estimateBucketCount(from, to, b) \in Int
         /\ Cardinality(data) <= estimateBucketCount(from, to, b)
<1> DEFINE first == from \div b
           last == to \div b
           J == first .. last
           D == {j \in J : \E d \in data : d.bucket = j * b}
           element(j) == CHOOSE d \in data : d.bucket = j * b
           f == [j \in D |-> element(j)]
<1>1. first \in Int /\ last \in Int /\ first <= last
  BY QuotientIs, QuotientGrows
<1>2. \A d \in data : \E j \in J : d.bucket = j * b
  <2> SUFFICES ASSUME NEW d \in data PROVE \E j \in J : d.bucket = j * b
    OBVIOUS
  <2>0. PICK l \in M : d.bucket = BucketOf(rows[l], b, temporal)
    BY DEF OfBuckets
  <2> DEFINE t == rows[l].at[temporal.fromColumn]
  <2>1. t \in Int /\ from <= t /\ t <= to
    OBVIOUS
  <2>2. BucketOf(rows[l], b, temporal) = (t \div b) * b
    BY DEF BucketOf
  <2> HIDE DEF t
  <2>3. t \div b \in Int /\ first <= t \div b /\ t \div b <= last
    <3>1. t \div b \in Int
      BY <2>1, QuotientIs
    <3>2. from \div b <= t \div b
      <4>1. from \in Int /\ t \in Int /\ from <= t
        BY <2>1
      <4> QED
        BY <4>1, QuotientGrows
    <3>3. t \div b <= to \div b
      BY <2>1, QuotientGrows
    <3> QED
      BY <3>1, <3>2, <3>3
  <2> HIDE DEF first, last
  <2>4. t \div b \in J
    BY <1>1, <2>3
  <2> QED
    BY <2>0, <2>2, <2>4
<1> HIDE DEF first, last
<1>3. IsFiniteSet(J) /\ Cardinality(J) = last - first + 1
  BY <1>1, FS_Interval
<1>4. f \in Surjection(D, data)
  <2>1. \A j \in D : f[j] \in data /\ f[j].bucket = j * b
    OBVIOUS
  <2>2. DOMAIN f = D
    OBVIOUS
  <2>3. f = [j \in D |-> f[j]]
    OBVIOUS
  <2>4. \A d \in data : \E j \in D : d.bucket = j * b
    BY <1>2
  <2> HIDE DEF f, D
  <2>5. \A d \in data : \E j \in D : f[j] = d
    BY <2>1, <2>4 DEF OfBuckets
  <2>6. f \in [D -> data]
    BY <2>1, <2>2, <2>3
  <2> QED
    BY <2>5, <2>6 DEF Surjection
<1>5. D \in SUBSET J
  OBVIOUS
<1> HIDE DEF D, f, J
<1>6. IsFiniteSet(D) /\ Cardinality(D) <= Cardinality(J)
  BY <1>3, <1>5, FS_Subset
<1>7. IsFiniteSet(data) /\ Cardinality(data) <= Cardinality(D)
  BY <1>4, <1>6, FS_Surjection
<1>8. Cardinality(data) \in Nat /\ Cardinality(D) \in Nat /\ Cardinality(J) \in Nat
  BY <1>3, <1>6, <1>7, FS_CardinalityType
<1>9. estimateBucketCount(from, to, b) = last - first + 1
  BY DEF estimateBucketCount, first, last
<1> QED
  BY <1>1, <1>3, <1>6, <1>7, <1>8, <1>9

-----------------------------------------------------------------------------
(* Entities: the buckets of an answer.                                     *)

\* The width of the buckets of a part, and the data of an answer in buckets.
WidthOf(q, plan, k) ==
  IF q.points = 0 THEN q.bucket
  ELSE LET r == SampleRange(plan, k, q) IN deriveBucketMs(r.from, r.to, q.points)
SourceOf(w, q, part) ==
  buildEntitySourceSql(w.rows, w.entity, part, q.dedupe, w.columns,
                       resolveTemporalStrategy(w.columns, q.timeField))
GroupedPart(w, q, plan, k) ==
  buildEntityBucketPartialSql(SourceOf(w, q, plan[k]), WidthOf(q, plan, k),
                              resolveTemporalStrategy(w.columns, q.timeField))
EntityBuckets(w, q, plan) ==
  IF Len(plan) > 1
  THEN mergeEntityBucketRows([k \in DOMAIN plan |-> GroupedPart(w, q, plan, k)], q.aggregate)
  ELSE buildBucketSql(SourceOf(w, q, plan[1]), q.aggregate, WidthOf(q, plan, 1),
                      resolveTemporalStrategy(w.columns, q.timeField))

\* A read in buckets, and its plan.
BucketsRead(w, q, plan) ==
  /\ ReadFor(w, q) /\ q.bucket \in Nat \ {0} /\ q.points \in Nat /\ q.aggregate \in Aggregates
  /\ Instants(w, q)
  /\ plan = planIntervals(w.intervals, w.attributePath, q.from, q.to) /\ Len(plan) > 0

\* One that has all the rows there are.
WholeRead(w, q, plan) == BucketsRead(w, q, plan) /\ ~ q.dedupe /\ Consecutive(w)

LEMMA PartsAre ==
  ASSUME NEW w, NEW q, NEW plan, BucketsRead(w, q, plan)
  PROVE  /\ Len(plan) \in Nat /\ DOMAIN plan = 1 .. Len(plan)
         /\ \A k \in 1 .. Len(plan) : \E i \in w.intervals : ReadsBinding(plan[k], i, w, q) /\ BindingFits(i)
<1>1. NoEnd \notin Int /\ Null \notin Int /\ WorldFits(w) /\ q.from \in Int /\ q.to \in Int /\ q.from < q.to
  BY DEF BucketsRead, ReadFor
<1>2. resolveTemporalStrategy(w.columns, q.timeField) # Refused /\ plan = planIntervals(w.intervals, w.attributePath, q.from, q.to)
  BY DEF BucketsRead, ReadFor
<1>3. Len(plan) \in Nat /\ DOMAIN plan = 1 .. Len(plan)
  BY <1>1, <1>2, RecordedIs
<1>4. \A k \in 1 .. Len(plan) : \E i \in w.intervals : ReadsBinding(plan[k], i, w, q)
  BY <1>1, <1>2, RecordedIs
<1>5. \A i \in w.intervals : BindingFits(i)
  BY <1>1 DEF WorldFits
<1> QED
  BY <1>3, <1>4, <1>5

LEMMA SourceHas ==
  ASSUME NEW w, NEW q, ReadFor(w, q), ~ q.dedupe, NEW part
  PROVE  HasRowsOf(SourceOf(w, q, part), w.rows,
                   OfPart(w.rows, w.entity, part, resolveTemporalStrategy(w.columns, q.timeField)))
<1> DEFINE temporal == resolveTemporalStrategy(w.columns, q.timeField)
           own == OfPart(w.rows, w.entity, part, temporal)
           rows == w.rows
           s == SourceOf(w, q, part)
<1>1. rows \in Seq(ToSet(rows)) /\ \A r \in ToSet(rows) : RowFits(r, w.columns)
  BY DEF ReadFor, WorldFits
<1>2. resolvePointTimeColumn(w.columns) # Null =>
        \A r \in ToSet(rows) : r.at[resolvePointTimeColumn(w.columns)] \in Int
  BY <1>1, RowTimes DEF ReadFor
<1>3. ~ canApplyDedupe(q.dedupe, w.columns)
  BY DEF canApplyDedupe
<1>4. s = buildEntitySourceSql(rows, w.entity, part, q.dedupe, w.columns, temporal)
  BY DEF SourceOf
<1> HIDE DEF rows, temporal, s
<1>5. PICK h : Draws(h, s, rows, OfPart(rows, w.entity, part, temporal), ~ canApplyDedupe(q.dedupe, w.columns))
  BY <1>1, <1>2, <1>4, SourceDraws
<1>6. Draws(h, s, rows, OfPart(rows, w.entity, part, temporal), TRUE)
  BY <1>3, <1>5 DEF Draws
<1>7. HasRowsOf(s, rows, OfPart(rows, w.entity, part, temporal))
  BY <1>6 DEF HasRowsOf
<1> QED
  BY <1>7 DEF s, rows, temporal

\* The recorded rows can be grouped.
LEMMA RecordedGroups ==
  ASSUME NEW w, NEW q, ReadFor(w, q)
  PROVE  Grouping(w.rows, Recorded(w, q), resolveTemporalStrategy(w.columns, q.timeField))
<1> DEFINE temporal == resolveTemporalStrategy(w.columns, q.timeField)
           M == Recorded(w, q)
<1>1. IsFiniteSet(M)
  BY RecordedRows
<1>2. \A l \in M : /\ w.rows[l].value \in Int \cup {Null}
                   /\ \A k \in DOMAIN temporal.orderBy : w.rows[l].at[temporal.orderBy[k]] \in Int
  BY RecordedRows
<1>3. Key(temporal.orderBy) /\ temporal.orderBy[1] = temporal.fromColumn
  BY TemporalIs DEF ReadFor
<1> QED
  BY <1>1, <1>2, <1>3 DEF Grouping, NumbersAt

\* The rows of one part alone are within it.
LEMMA OnePartWithin ==
  ASSUME NEW w, NEW q, NEW plan, BucketsRead(w, q, plan), NEW k \in 1 .. Len(plan)
  PROVE  /\ plan[k].from \in Nat /\ plan[k].to \in Nat /\ plan[k].from <= plan[k].to /\ plan[k].to <= q.to
         /\ \A l \in PartsOf(w, q, plan)[k] :
              plan[k].from <= First(w.rows[l], q, w) /\ First(w.rows[l], q, w) <= plan[k].to
<1> DEFINE temporal == resolveTemporalStrategy(w.columns, q.timeField)
           p == plan[k]
<1>1. PICK i \in w.intervals : ReadsBinding(p, i, w, q) /\ BindingFits(i)
  BY PartsAre
<1>2. q.from \in Nat /\ q.to \in Nat /\ q.from < q.to /\ NoEnd \notin Int
  BY DEF BucketsRead, ReadFor
<1>3. /\ p.from \in Int /\ p.to \in Int
      /\ p.from = IF i.validFrom <= q.from THEN q.from ELSE i.validFrom
      /\ p.to = IF i.validTo = NoEnd THEN q.to ELSE IF i.validTo <= q.to THEN i.validTo ELSE q.to
  BY <1>1, <1>2, ClippedIs DEF ReadsBinding
<1>4. i.validFrom < q.to /\ (i.validTo # NoEnd => q.from < i.validTo /\ i.validFrom < i.validTo)
  BY <1>1 DEF ReadsBinding, InForce
<1>5. i.validFrom \in Int /\ i.validTo \in Int \cup {NoEnd}
  BY <1>1 DEF BindingFits
<1>6. p.from \in Nat /\ p.to \in Nat /\ p.from <= p.to /\ p.to <= q.to
  BY <1>2, <1>3, <1>4, <1>5
<1>7. ASSUME NEW l \in PartsOf(w, q, plan)[k]
      PROVE  p.from <= First(w.rows[l], q, w) /\ First(w.rows[l], q, w) <= p.to
  <2>1. l \in OfPart(w.rows, w.entity, p, temporal)
    BY DEF PartsOf
  <2>2. l \in Recorded(w, q)
    BY <1>1, <2>1 DEF ReadsBinding
  <2>3. First(w.rows[l], q, w) \in Int
    BY <2>2, RecordedRows DEF BucketsRead
  <2>4. temporal.fromColumn = temporal.toColumn
    BY DEF BucketsRead, Instants
  <2>5. Overlaps(w.rows[l], p, temporal)
    BY <2>1 DEF OfPart
  <2> DEFINE t == First(w.rows[l], q, w)
  <2>6. t = w.rows[l].at[temporal.fromColumn]
    BY DEF First
  <2> HIDE DEF t, p
  <2>7. t >= p.from /\ (t < p.to \/ t <= p.to)
    BY <2>4, <2>5, <2>6 DEF Overlaps
  <2>8. p.from <= t /\ t <= p.to
    BY <1>6, <2>3, <2>7 DEF t
  <2> QED
    BY <2>8 DEF t
<1> QED
  BY <1>6, <1>7

\* The width of all parts that are merged, and of one part alone.
LEMMA WidthIs ==
  ASSUME NEW w, NEW q, NEW plan, BucketsRead(w, q, plan), NEW k \in 1 .. Len(plan)
  PROVE  /\ WidthOf(q, plan, k) \in Nat \ {0}
         /\ Len(plan) > 1 => WidthOf(q, plan, k) = WidthOf(q, plan, 1)
         /\ WidthOf(q, plan, k) \in IF q.points = 0 THEN {q.bucket} ELSE 1 .. (q.to + 1)
<1> DEFINE r == SampleRange(plan, k, q)
<1>1. q.bucket \in Nat \ {0} /\ q.points \in Nat
  BY DEF BucketsRead
<1>2. q.from \in Nat /\ q.to \in Nat /\ q.from <= q.to
  BY DEF BucketsRead, ReadFor
<1>3. r.from \in Nat /\ r.to \in Nat /\ r.from <= r.to /\ r.to <= q.to
  <2>1. CASE Len(plan) > 1
    BY <1>2, <2>1 DEF SampleRange
  <2>2. CASE ~ Len(plan) > 1
    BY <2>2, OnePartWithin DEF SampleRange
  <2> QED
    BY <2>1, <2>2
<1>4. Len(plan) > 1 => SampleRange(plan, k, q) = SampleRange(plan, 1, q)
  BY DEF SampleRange
<1> HIDE DEF r
<1>5. WidthOf(q, plan, k) = IF q.points = 0 THEN q.bucket ELSE deriveBucketMs(r.from, r.to, q.points)
  BY DEF WidthOf, r
<1>6. q.points # 0 => deriveBucketMs(r.from, r.to, q.points) \in 1 .. (q.to + 1)
  <2> SUFFICES ASSUME q.points # 0 PROVE deriveBucketMs(r.from, r.to, q.points) \in 1 .. (q.to + 1)
    OBVIOUS
  <2>1. deriveBucketMs(r.from, r.to, q.points) \in 1 .. (r.to + 1)
    BY <1>1, <1>3, WidthDerived
  <2> QED
    BY <1>2, <1>3, <2>1
<1>7. WidthOf(q, plan, k) \in Nat \ {0}
  BY <1>1, <1>5, <1>6
<1>8. Len(plan) > 1 => WidthOf(q, plan, k) = WidthOf(q, plan, 1)
  BY <1>4 DEF WidthOf
<1> QED
  BY <1>5, <1>6, <1>7, <1>8

\* Some value is there for each bucket of the recorded rows.
BucketsHeld(data, v, w, q, plan, b) ==
  BucketsTold(data, v, w.rows, Recorded(w, q), q.aggregate, b, resolveTemporalStrategy(w.columns, q.timeField),
              HollowBuckets(PartsOf(w, q, plan), DOMAIN plan, w.rows, b,
                            resolveTemporalStrategy(w.columns, q.timeField)))

LEMMA BucketsAreInt ==
  ASSUME NEW w, NEW q, ReadFor(w, q), NEW b \in Nat \ {0}
  PROVE  BucketsAt(w.rows, Recorded(w, q), b, resolveTemporalStrategy(w.columns, q.timeField)) \subseteq Int
<1> DEFINE temporal == resolveTemporalStrategy(w.columns, q.timeField)
<1>1. \A l \in Recorded(w, q) : w.rows[l].at[temporal.fromColumn] \in Int
  BY RecordedRows DEF First
<1>2. \A t \in Int : (t \div b) * b \in Int
  BY QuotientIs
<1> HIDE DEF temporal
<1>3. \A l \in Recorded(w, q) : BucketOf(w.rows[l], b, temporal) \in Int
  BY <1>1, <1>2 DEF BucketOf
<1> QED
  BY <1>3 DEF BucketsAt, temporal

\* One part alone is all there is.
LEMMA OnePart == ASSUME NEW P, NEW M, AllOf(P, 1 .. 1) = M PROVE P[1] = M
<1>1. \A k : k \in 1 .. 1 <=> k = 1
  OBVIOUS
<1>2. \A x : x \in AllOf(P, 1 .. 1) <=> x \in P[1]
  BY <1>1 DEF AllOf
<1> QED
  BY <1>2

LEMMA BucketsAnswered ==
  ASSUME NEW w, NEW q, NEW plan, WholeRead(w, q, plan)
  PROVE  \E v : BucketsHeld(EntityBuckets(w, q, plan), v, w, q, plan, WidthOf(q, plan, 1))
<1> DEFINE rows == w.rows
           temporal == resolveTemporalStrategy(w.columns, q.timeField)
           M == Recorded(w, q)
           n == Len(plan)
           own == PartsOf(w, q, plan)
           b == WidthOf(q, plan, 1)
           data == EntityBuckets(w, q, plan)
           hollow == HollowBuckets(own, DOMAIN plan, rows, b, temporal)
           segments == [k \in DOMAIN plan |-> GroupedPart(w, q, plan, k)]
           source(k) == SourceOf(w, q, plan[k])
<1>0. BucketsRead(w, q, plan)
  BY DEF WholeRead
<1>1. n \in Nat /\ DOMAIN plan = 1 .. n
  BY <1>0, PartsAre
<1>2. ReadFor(w, q) /\ n > 0 /\ q.aggregate \in Aggregates /\ ~ q.dedupe
  BY <1>0 DEF BucketsRead, WholeRead
<1>3. Divides(own, 1 .. n, M) /\ AllOf(own, 1 .. n) = M
  BY <1>0, PartsDivide DEF BucketsRead, WholeRead
<1>4. Grouping(rows, M, temporal)
  BY <1>2, RecordedGroups
<1>5. \A k \in 1 .. n : HasRowsOf(source(k), rows, own[k])
  BY <1>2, SourceHas DEF PartsOf
<1>6. b \in Nat \ {0}
  <2>1. 1 \in 1 .. Len(plan)
    BY <1>1, <1>2
  <2> QED
    BY <1>0, <2>1, WidthIs
<1>7. BucketsAt(rows, M, b, temporal) \subseteq Int
  BY <1>2, <1>6, BucketsAreInt
<1>8. CASE n > 1
  <2>1. data = mergeEntityBucketRows(segments, q.aggregate)
    BY <1>8 DEF EntityBuckets
  <2>2. DOMAIN segments = 1 .. n /\ Len(segments) = n
    BY <1>1
  <2>3. ASSUME NEW k \in 1 .. n PROVE PartialOf(segments[k], rows, own[k], b, temporal)
    <3>1. WidthOf(q, plan, k) = b
      BY <1>0, <1>8, WidthIs
    <3>2. segments[k] = buildEntityBucketPartialSql(source(k), b, temporal)
      BY <1>1, <3>1 DEF GroupedPart
    <3>3. Grouping(rows, own[k], temporal)
      BY <1>3, <1>4, GroupingOfBucket DEF Divides
    <3> HIDE DEF rows, temporal, own, b, source, segments
    <3> QED
      BY <1>5, <3>2, <3>3, PartialIs
  <2> DEFINE aggregate == q.aggregate
  <2>4. HollowBuckets(own, DOMAIN segments, rows, b, temporal) \subseteq hollow
    BY <1>1, <2>2
  <2> HIDE DEF segments, own, rows, M, temporal, b, hollow, data, n
  <2>5. PartialsOf(segments, own, rows, M, b, temporal)
    <3>1. Len(segments) \in Nat /\ DOMAIN segments = 1 .. Len(segments)
      BY <1>1, <2>2
    <3>2. Divides(own, DOMAIN segments, M) /\ AllOf(own, DOMAIN segments) = M
      BY <1>3, <2>2
    <3>3. \A k \in DOMAIN segments : PartialOf(segments[k], rows, own[k], b, temporal)
      BY <2>2, <2>3
    <3> QED
      BY <3>1, <3>2, <3>3 DEF PartialsOf
  <2>6. aggregate \in Aggregates /\ data = mergeEntityBucketRows(segments, aggregate)
    BY <1>2, <2>1
  <2> HIDE DEF aggregate
  <2>7. \E v : BucketsTold(data, v, rows, M, aggregate, b, temporal, hollow)
    BY <1>4, <1>7, <2>4, <2>5, <2>6, MergedBuckets
  <2> QED
    BY <2>7 DEF BucketsHeld, aggregate, own, rows, M, temporal, b, hollow, data
<1>9. CASE ~ n > 1
  <2>1. n = 1 /\ 1 \in 1 .. n
    BY <1>1, <1>2, <1>9
  <2>2. data = buildBucketSql(source(1), q.aggregate, b, temporal)
    BY <1>9 DEF EntityBuckets
  <2>3. own[1] = M
    <3> HIDE DEF own, M, n
    <3> QED
      BY <1>3, <2>1, OnePart
  <2> DEFINE aggregate == q.aggregate
             s == source(1)
  <2>4. HasRowsOf(s, rows, M) /\ aggregate \in Aggregates /\ data = buildBucketSql(s, aggregate, b, temporal)
    BY <1>2, <1>5, <2>1, <2>2, <2>3
  <2> HIDE DEF s, own, rows, M, temporal, b, hollow, data, n, aggregate
  <2>5. \E v : BucketsTold(data, v, rows, M, aggregate, b, temporal, hollow)
    BY <1>4, <2>4, BucketSqlIs
  <2> QED
    BY <2>5 DEF BucketsHeld, aggregate, own, rows, M, temporal, b, hollow, data
<1> QED
  BY <1>8, <1>9

\* Merged or not, the data of an answer have buckets of the rows that were read.
GroupsWithin(groups, rows, M, b, temporal) == \A g \in groups : \E l \in M : g.bucket = BucketOf(rows[l], b, temporal)

LEMMA OnceForEach ==
  ASSUME NEW C, NEW f, NEW data, data = {[bucket |-> k, value |-> f[k]] : k \in C}
  PROVE  /\ \A d, e \in data : d.bucket = e.bucket => d = e
         /\ \A d \in data : d.bucket \in C
<1>1. ASSUME NEW d \in data PROVE d.bucket \in C /\ d = [bucket |-> d.bucket, value |-> f[d.bucket]]
  <2>1. PICK k \in C : d = [bucket |-> k, value |-> f[k]]
    OBVIOUS
  <2>2. d.bucket = k
    BY <2>1
  <2> QED
    BY <2>1, <2>2
<1>2. ASSUME NEW d \in data, NEW e \in data, d.bucket = e.bucket PROVE d = e
  <2>1. d = [bucket |-> d.bucket, value |-> f[d.bucket]] /\ e = [bucket |-> e.bucket, value |-> f[e.bucket]]
    BY <1>1
  <2> QED
    BY <1>2, <2>1
<1> QED
  BY <1>1, <1>2

LEMMA MergedOnce ==
  ASSUME NEW segments, NEW aggregate, NEW rows, NEW M, NEW b, NEW temporal,
         \A k \in DOMAIN segments : GroupsWithin(segments[k], rows, M, b, temporal)
  PROVE  OfBuckets(mergeEntityBucketRows(segments, aggregate), rows, M, b, temporal)
<1> DEFINE data == mergeEntityBucketRows(segments, aggregate)
           C == UNION {{g.bucket : g \in segments[k]} : k \in DOMAIN segments}
           group(k, bucket) == CHOOSE g \in segments[k] : g.bucket = bucket
           parts(bucket)    == {k \in DOMAIN segments : \E g \in segments[k] : g.bucket = bucket}
           total(bucket, field) == SumFunction([k \in parts(bucket) |-> group(k, bucket)[field]])
           value(bucket) ==
             CASE aggregate = "avg"   -> IF total(bucket, "valueCount") = 0 THEN Null
                                         ELSE <<total(bucket, "sum"), total(bucket, "valueCount")>>
               [] aggregate = "sum"   -> IF total(bucket, "valueCount") = 0 THEN Null
                                         ELSE total(bucket, "sum")
               [] aggregate = "min"   -> Min({group(k, bucket).min : k \in parts(bucket)})
               [] aggregate = "max"   -> Max({group(k, bucket).max : k \in parts(bucket)})
               [] aggregate = "count" -> total(bucket, "rowCount")
               [] aggregate = "last"  ->
                    group(LatestGroup([k \in parts(bucket) |-> group(k, bucket)], parts(bucket)),
                          bucket).last
           f == [k \in C |-> value(k)]
<1>1. data = {[bucket |-> k, value |-> value(k)] : k \in C}
  BY DEF mergeEntityBucketRows
<1>2. \A c \in C : \E l \in M : c = BucketOf(rows[l], b, temporal)
  BY DEF GroupsWithin
<1> HIDE DEF data, C, value
<1>3. \A k \in C : f[k] = value(k)
  OBVIOUS
<1> HIDE DEF f
<1>4. data = {[bucket |-> k, value |-> f[k]] : k \in C}
  BY <1>1, <1>3
<1>5. \A d, e \in data : d.bucket = e.bucket => d = e
  BY <1>4, OnceForEach
<1>6. \A d \in data : d.bucket \in C
  BY <1>4, OnceForEach
<1>7. OfBuckets(data, rows, M, b, temporal)
  BY <1>2, <1>5, <1>6 DEF OfBuckets
<1> QED
  BY <1>7 DEF data

LEMMA GroupedOnce ==
  ASSUME NEW s, NEW aggregate, NEW rows, NEW M, NEW b, NEW temporal,
         \A r \in ToSet(s) : \E l \in M : r = rows[l]
  PROVE  OfBuckets(buildBucketSql(s, aggregate, b, temporal), rows, M, b, temporal)
<1> DEFINE data == buildBucketSql(s, aggregate, b, temporal)
           C == {BucketOf(r, b, temporal) : r \in ToSet(s)}
           group(k) == Group(s, k, b, temporal)
           value(k) ==
             IF aggregate = "count" THEN Len(group(k))
             ELSE IF aggregate = "last" THEN LastOf(group(k), temporal).value
             ELSE IF Values(group(k)) = {} THEN Null
             ELSE CASE aggregate = "avg" -> <<SumOf(group(k)), Len(Valued(group(k)))>>
                    [] aggregate = "sum" -> SumOf(group(k))
                    [] aggregate = "min" -> Min(Values(group(k)))
                    [] aggregate = "max" -> Max(Values(group(k)))
           f == [k \in C |-> value(k)]
<1>1. data = {[bucket |-> k, value |-> value(k)] : k \in C}
  BY DEF buildBucketSql
<1>2. \A c \in C : \E l \in M : c = BucketOf(rows[l], b, temporal)
  OBVIOUS
<1> HIDE DEF data, C, value
<1>3. \A k \in C : f[k] = value(k)
  OBVIOUS
<1> HIDE DEF f
<1>4. data = {[bucket |-> k, value |-> f[k]] : k \in C}
  BY <1>1, <1>3
<1>5. \A d, e \in data : d.bucket = e.bucket => d = e
  BY <1>4, OnceForEach
<1>6. \A d \in data : d.bucket \in C
  BY <1>4, OnceForEach
<1>7. OfBuckets(data, rows, M, b, temporal)
  BY <1>2, <1>5, <1>6 DEF OfBuckets
<1> QED
  BY <1>7 DEF data

LEMMA PartialOnce ==
  ASSUME NEW s, NEW rows, NEW M, NEW b, NEW temporal, \A r \in ToSet(s) : \E l \in M : r = rows[l]
  PROVE  GroupsWithin(buildEntityBucketPartialSql(s, b, temporal), rows, M, b, temporal)
<1> DEFINE groups == buildEntityBucketPartialSql(s, b, temporal)
           C == {BucketOf(r, b, temporal) : r \in ToSet(s)}
<1>1. \A g \in groups : g.bucket \in C
  BY DEF buildEntityBucketPartialSql
<1>2. \A c \in C : \E l \in M : c = BucketOf(rows[l], b, temporal)
  OBVIOUS
<1> HIDE DEF groups, C
<1>3. GroupsWithin(groups, rows, M, b, temporal)
  BY <1>1, <1>2 DEF GroupsWithin
<1> QED
  BY <1>3 DEF groups

LEMMA SourceWithin ==
  ASSUME NEW w, NEW q, ReadFor(w, q), NEW part
  PROVE  \A r \in ToSet(SourceOf(w, q, part)) :
           \E l \in OfPart(w.rows, w.entity, part, resolveTemporalStrategy(w.columns, q.timeField)) : r = w.rows[l]
<1> DEFINE temporal == resolveTemporalStrategy(w.columns, q.timeField)
           rows == w.rows
           own == OfPart(rows, w.entity, part, temporal)
           s == SourceOf(w, q, part)
           n == Len(s)
<1>1. rows \in Seq(ToSet(rows)) /\ \A r \in ToSet(rows) : RowFits(r, w.columns)
  BY DEF ReadFor, WorldFits
<1>2. resolvePointTimeColumn(w.columns) # Null =>
        \A r \in ToSet(rows) : r.at[resolvePointTimeColumn(w.columns)] \in Int
  BY <1>1, RowTimes DEF ReadFor
<1>3. s = buildEntitySourceSql(rows, w.entity, part, q.dedupe, w.columns, temporal)
  BY DEF SourceOf
<1> HIDE DEF rows, temporal, s
<1>4. PICK h : Draws(h, s, rows, own, ~ canApplyDedupe(q.dedupe, w.columns))
  BY <1>1, <1>2, <1>3, SourceDraws
<1> HIDE DEF own
<1>5. s \in Seq(ToSet(rows)) /\ \A j \in 1 .. Len(s) : h[j] \in own /\ s[j] = rows[h[j]]
  BY <1>4 DEF Draws
<1>6. DOMAIN s = 1 .. Len(s)
  <2> DEFINE T == ToSet(rows)
  <2> HIDE DEF T
  <2>1. s \in Seq(T)
    BY <1>5 DEF T
  <2> QED
    BY <2>1
<1>7. \A r \in ToSet(s) : \E j \in 1 .. Len(s) : r = s[j]
  BY <1>6 DEF ToSet
<1>8. \A r \in ToSet(s) : \E l \in own : r = rows[l]
  BY <1>5, <1>7
<1> QED
  BY <1>8 DEF own, rows, temporal, s

\* The rows that a read in buckets has at all, in the range that its buckets divide.
LEMMA SampledWithin ==
  ASSUME NEW w, NEW q, NEW plan, BucketsRead(w, q, plan)
  PROVE  LET r == SampleRange(plan, 1, q) IN
         /\ r.from \in Nat /\ r.to \in Nat /\ r.from <= r.to
         /\ \A l \in AllOf(PartsOf(w, q, plan), 1 .. Len(plan)) :
              LET t == w.rows[l].at[resolveTemporalStrategy(w.columns, q.timeField).fromColumn]
              IN  t \in Int /\ r.from <= t /\ t <= r.to
<1> DEFINE rows == w.rows
           r == SampleRange(plan, 1, q)
           own == PartsOf(w, q, plan)
           n == Len(plan)
           M == AllOf(own, 1 .. n)
           time(l) == First(rows[l], q, w)
<1>1. n \in Nat /\ n > 0 /\ ReadFor(w, q) /\ q.from \in Nat /\ q.to \in Nat /\ q.from <= q.to
  BY PartsAre DEF BucketsRead, ReadFor
<1>2. 1 \in 1 .. n
  BY <1>1
<1>3. \A k \in 1 .. n : \A l \in own[k] : l \in Recorded(w, q)
  <2> SUFFICES ASSUME NEW k \in 1 .. n, NEW l \in own[k] PROVE l \in Recorded(w, q)
    OBVIOUS
  <2>1. PICK i \in w.intervals : ReadsBinding(plan[k], i, w, q)
    BY PartsAre
  <2> QED
    BY <2>1 DEF ReadsBinding, PartsOf
<1>4. \A l \in Recorded(w, q) : time(l) \in Int /\ time(l) <= q.to /\ q.from <= time(l)
  <2>1. \A l \in Recorded(w, q) : /\ time(l) \in Int /\ time(l) <= q.to
                                  /\ Final(rows[l], q, w) >= q.from /\ Final(rows[l], q, w) \in Int
    BY <1>1, RecordedRows
  <2>2. \A l \in Recorded(w, q) : time(l) = Final(rows[l], q, w)
    BY DEF BucketsRead, Instants, First, Final
  <2> HIDE DEF time
  <2> QED
    BY <1>1, <2>1, <2>2
<1>5. \A l \in M : \E k \in 1 .. n : l \in own[k]
  BY DEF AllOf
<1>6. /\ r.from \in Nat /\ r.to \in Nat /\ r.from <= r.to
      /\ \A l \in M : time(l) \in Int /\ r.from <= time(l) /\ time(l) <= r.to
  <2>1. CASE n > 1
    <3>1. r.from = q.from /\ r.to = q.to
      BY <2>1 DEF SampleRange
    <3> HIDE DEF r, time, M, own, n
    <3>2. \A l \in M : l \in Recorded(w, q)
      BY <1>3, <1>5
    <3> QED
      BY <1>1, <1>4, <3>1, <3>2
  <2>2. CASE ~ n > 1
    <3>1. r.from = plan[1].from /\ r.to = plan[1].to
      BY <2>2 DEF SampleRange
    <3>2. /\ plan[1].from \in Nat /\ plan[1].to \in Nat /\ plan[1].from <= plan[1].to
          /\ \A l \in own[1] : plan[1].from <= time(l) /\ time(l) <= plan[1].to
      BY <1>2, OnePartWithin
    <3> HIDE DEF own, r, n, M, time
    <3>3. \A k \in 1 .. n : k = 1
      BY <1>1, <2>2
    <3>4. \A l \in M : l \in own[1] /\ l \in Recorded(w, q)
      BY <1>2, <1>3, <1>5, <3>3
    <3> QED
      BY <1>4, <3>1, <3>2, <3>4
  <2> QED
    BY <2>1, <2>2
<1>7. \A l : time(l) = rows[l].at[resolveTemporalStrategy(w.columns, q.timeField).fromColumn]
  BY DEF First
<1> HIDE DEF time, r, M
<1> QED
  BY <1>6, <1>7 DEF r, M

\* An answer never has more points than were asked for.
LEMMA PointsKept ==
  ASSUME NEW w, NEW q, NEW plan, BucketsRead(w, q, plan), q.points # 0
  PROVE  Cardinality(EntityBuckets(w, q, plan)) <= q.points
<1> DEFINE rows == w.rows
           temporal == resolveTemporalStrategy(w.columns, q.timeField)
           own == PartsOf(w, q, plan)
           n == Len(plan)
           M == AllOf(own, 1 .. n)
           r == SampleRange(plan, 1, q)
           b == WidthOf(q, plan, 1)
           data == EntityBuckets(w, q, plan)
           segments == [k \in DOMAIN plan |-> GroupedPart(w, q, plan, k)]
           source(k) == SourceOf(w, q, plan[k])
           aggregate == q.aggregate
<1>1. n \in Nat /\ n > 0 /\ DOMAIN plan = 1 .. n /\ ReadFor(w, q) /\ q.points \in Nat \ {0}
  BY PartsAre DEF BucketsRead
<1>2. 1 \in 1 .. n
  BY <1>1
<1>3. b \in Nat \ {0} /\ \A k \in 1 .. n : n > 1 => WidthOf(q, plan, k) = b
  BY <1>2, WidthIs
<1>4. \A k \in 1 .. n : \A x \in ToSet(source(k)) : \E l \in M : x = rows[l]
  <2>1. \A k \in 1 .. n : own[k] = OfPart(rows, w.entity, plan[k], temporal)
    BY DEF PartsOf
  <2>2. \A k \in 1 .. n : own[k] \subseteq M
    BY DEF AllOf
  <2>3. \A k \in 1 .. n : \A x \in ToSet(source(k)) : \E l \in OfPart(rows, w.entity, plan[k], temporal) : x = rows[l]
    BY <1>1, SourceWithin
  <2> HIDE DEF own, M, source, rows, temporal
  <2> QED
    BY <2>1, <2>2, <2>3
<1>5. OfBuckets(data, rows, M, b, temporal)
  <2>1. CASE n > 1
    <3>1. data = mergeEntityBucketRows(segments, aggregate)
      BY <2>1 DEF EntityBuckets
    <3>2. \A k \in DOMAIN segments : GroupsWithin(segments[k], rows, M, b, temporal)
      <4> SUFFICES ASSUME NEW k \in 1 .. n PROVE GroupsWithin(segments[k], rows, M, b, temporal)
        BY <1>1
      <4>1. segments[k] = buildEntityBucketPartialSql(source(k), b, temporal)
        BY <1>1, <1>3, <2>1 DEF GroupedPart
      <4> DEFINE s == source(k)
      <4>2. \A x \in ToSet(s) : \E l \in M : x = rows[l]
        BY <1>4
      <4> HIDE DEF segments, source, M, b, temporal, rows, s
      <4>3. GroupsWithin(buildEntityBucketPartialSql(s, b, temporal), rows, M, b, temporal)
        BY <4>2, PartialOnce
      <4> QED
        BY <4>1, <4>3 DEF s
    <3> HIDE DEF segments, M, b, temporal, rows, aggregate, data
    <3> QED
      BY <3>1, <3>2, MergedOnce
  <2>2. CASE ~ n > 1
    <3>1. data = buildBucketSql(source(1), aggregate, b, temporal)
      BY <2>2 DEF EntityBuckets
    <3> HIDE DEF source, M, b, temporal, rows, aggregate, data
    <3>2. \A x \in ToSet(source(1)) : \E l \in M : x = rows[l]
      BY <1>2, <1>4
    <3> QED
      BY <3>1, <3>2, GroupedOnce
  <2> QED
    BY <2>1, <2>2
<1>6. b = deriveBucketMs(r.from, r.to, q.points)
  BY DEF WidthOf
<1>7. /\ r.from \in Nat /\ r.to \in Nat /\ r.from <= r.to
      /\ \A l \in M : LET t == rows[l].at[temporal.fromColumn] IN t \in Int /\ r.from <= t /\ t <= r.to
  BY SampledWithin
<1> DEFINE from == r.from
           to == r.to
           points == q.points
<1>8. from \in Nat /\ to \in Nat /\ from <= to /\ points \in Nat \ {0}
  BY <1>1, <1>7
<1>9. \A l \in M : LET t == rows[l].at[temporal.fromColumn] IN t \in Int /\ from <= t /\ t <= to
  BY <1>7
<1>10. b = deriveBucketMs(from, to, points)
  BY <1>6
<1> HIDE DEF from, to, points, rows, M, temporal, b, data
<1>11. estimateBucketCount(from, to, b) <= points
  BY <1>8, <1>10, WidthDerived
<1>12. /\ Cardinality(data) \in Nat /\ estimateBucketCount(from, to, b) \in Int
       /\ Cardinality(data) <= estimateBucketCount(from, to, b)
  BY <1>3, <1>5, <1>8, <1>9, BucketsCapped
<1>13. Cardinality(data) <= points
  BY <1>8, <1>11, <1>12
<1> QED
  BY <1>13 DEF data, points

\* What the property says of an answer in buckets, and of one in buckets of a width.
SaidOfWidth(data, w, q, b) ==
  LET recorded == Recorded(w, q)
      time     == [k \in DOMAIN w.rows |-> First(w.rows[k], q, w)]
      bucket(k) == (time[k] \div b) * b
      members(d) == {k \in recorded : bucket(k) = d.bucket}
      Hollow(d) == \E i \in w.intervals :
        LET own == {k \in members(d) : BoundTo(i, w.rows[k], q, w)}
        IN  own # {} /\ \A k \in own : w.rows[k].value = Null
  IN  /\ {d.bucket : d \in data} = {bucket(k) : k \in recorded}
      /\ \A d \in data :
           \/ d.value \in ValueOver(w.rows, members(d), q.aggregate, time)
           \/ q.aggregate \in {"min", "max"} /\ Hollow(d)
BucketsSaid(data, w, q) == \E b \in Widths(q) : SaidOfWidth(data, w, q, b)

LEMMA BucketsSaidIs ==
  ASSUME NEW w, NEW q, NEW plan, WholeRead(w, q, plan)
  PROVE  BucketsSaid(EntityBuckets(w, q, plan), w, q)
<1> DEFINE rows == w.rows
           temporal == resolveTemporalStrategy(w.columns, q.timeField)
           c == temporal.fromColumn
           M == Recorded(w, q)
           b == WidthOf(q, plan, 1)
           time == [k \in DOMAIN rows |-> First(rows[k], q, w)]
           bucket(k) == (time[k] \div b) * b
           members(d) == {k \in M : bucket(k) = d.bucket}
           hollow(d) == \E i \in w.intervals :
             LET own == {k \in members(d) : BoundTo(i, rows[k], q, w)}
             IN  own # {} /\ \A k \in own : rows[k].value = Null
           data == EntityBuckets(w, q, plan)
           at(k) == InBucket(rows, M, k, b, temporal)
           own == PartsOf(w, q, plan)
<1>0. BucketsRead(w, q, plan)
  BY DEF WholeRead
<1>1. /\ Len(plan) \in Nat /\ DOMAIN plan = 1 .. Len(plan) /\ Len(plan) > 0 /\ ReadFor(w, q)
      /\ q.aggregate \in Aggregates
  BY <1>0, PartsAre DEF BucketsRead
<1>2. PICK v : BucketsHeld(data, v, w, q, plan, b)
  BY BucketsAnswered
<1>3. /\ data = {[bucket |-> k, value |-> v[k]] : k \in BucketsAt(rows, M, b, temporal)}
      /\ \A k \in BucketsAt(rows, M, b, temporal) :
           \/ ValueIs(v[k], rows, at(k), q.aggregate, c)
           \/ q.aggregate \in {"min", "max"} /\ k \in HollowBuckets(own, DOMAIN plan, rows, b, temporal)
  BY <1>2 DEF BucketsHeld, BucketsTold
<1>4. IsFiniteSet(M) /\ M \subseteq DOMAIN rows
  BY <1>1, RecordedRows
<1>5. \A l \in M : time[l] = rows[l].at[c]
  BY <1>4 DEF First
<1>6. b \in Widths(q)
  <2>1. 1 \in 1 .. Len(plan)
    BY <1>1
  <2> QED
    BY <1>0, <2>1, WidthIs DEF Widths
<1>7. \A l \in M : BucketOf(rows[l], b, temporal) = bucket(l)
  BY <1>5 DEF BucketOf
<1> HIDE DEF bucket, time, M
<1>8. BucketsAt(rows, M, b, temporal) = {bucket(l) : l \in M}
  BY <1>7 DEF BucketsAt
<1>9. {d.bucket : d \in data} = {bucket(l) : l \in M}
  <2> DEFINE B == BucketsAt(rows, M, b, temporal)
  <2>1. data = {[bucket |-> k, value |-> v[k]] : k \in B}
    BY <1>3
  <2> HIDE DEF B, data
  <2>2. {d.bucket : d \in data} = B
    <3>1. \A k \in B : \E d \in data : d.bucket = k
      <4> SUFFICES ASSUME NEW k \in B PROVE \E d \in data : d.bucket = k
        OBVIOUS
      <4>1. [bucket |-> k, value |-> v[k]] \in data /\ [bucket |-> k, value |-> v[k]].bucket = k
        BY <2>1
      <4> QED
        BY <4>1
    <3>2. \A d \in data : d.bucket \in B
      BY <2>1
    <3> QED
      BY <3>1, <3>2
  <2> QED
    BY <1>8, <2>2 DEF B
<1>10. ASSUME NEW d \in data
      PROVE  \/ d.value \in ValueOver(rows, members(d), q.aggregate, time)
             \/ q.aggregate \in {"min", "max"} /\ hollow(d)
  <2>1. PICK k \in BucketsAt(rows, M, b, temporal) : d = [bucket |-> k, value |-> v[k]]
    BY <1>3
  <2>2. d.bucket = k /\ d.value = v[k]
    BY <2>1
  <2>3. members(d) = at(k)
    BY <1>7, <2>2 DEF InBucket
  <2>4. \A l \in at(k) : time[l] = rows[l].at[c]
    BY <1>5 DEF InBucket
  <2>5. CASE ValueIs(v[k], rows, at(k), q.aggregate, c)
    <3> DEFINE x == v[k]
               P == at(k)
               aggregate == q.aggregate
    <3>1. ValueIs(x, rows, P, aggregate, c) /\ \A l \in P : time[l] = rows[l].at[c]
      BY <2>4, <2>5
    <3> HIDE DEF x, P, aggregate, c, rows
    <3>2. x \in ValueOver(rows, P, aggregate, time)
      BY <3>1, ValueIsOver
    <3> QED
      BY <2>2, <2>3, <3>2 DEF x, P, aggregate
  <2>6. CASE q.aggregate \in {"min", "max"} /\ k \in HollowBuckets(own, DOMAIN plan, rows, b, temporal)
    <3>1. PICK j \in DOMAIN plan : /\ InBucket(rows, own[j], k, b, temporal) # {}
                                   /\ ValuedAt(rows, InBucket(rows, own[j], k, b, temporal)) = {}
      BY <2>6 DEF HollowBuckets
    <3>2. j \in 1 .. Len(plan)
      BY <1>1
    <3>3. PICK i \in w.intervals : ReadsBinding(plan[j], i, w, q)
      BY <1>0, <3>2, PartsAre
    <3>4. \A l : l \in own[j] <=> l \in M /\ BoundTo(i, rows[l], q, w)
      BY <3>2, <3>3 DEF ReadsBinding, PartsOf, M
    <3> DEFINE mine == {l \in members(d) : BoundTo(i, rows[l], q, w)}
    <3> HIDE DEF own
    <3>5. \A l : l \in mine <=> l \in InBucket(rows, own[j], k, b, temporal)
      BY <2>3, <3>4 DEF InBucket
    <3>6. mine # {} /\ \A l \in mine : rows[l].value = Null
      <4> HIDE DEF mine
      <4> QED
        BY <3>1, <3>5 DEF ValuedAt
    <3> QED
      BY <2>6, <3>6
  <2> QED
    BY <1>3, <2>5, <2>6
<1> HIDE DEF members, hollow, data, b
<1>11. SaidOfWidth(data, w, q, b)
  BY <1>9, <1>10 DEF SaidOfWidth, bucket, time, M, members, hollow
<1>12. BucketsSaid(data, w, q)
  BY <1>6, <1>11 DEF BucketsSaid
<1> QED
  BY <1>12 DEF data

-----------------------------------------------------------------------------
(* Entities: the property.                                                 *)

\* A question about the tables and bindings of an entity.
EntityAsked(w, q) ==
  /\ NoEnd \notin Int /\ Null \notin Int /\ WorldFits(w)
  /\ \A i \in w.intervals : i.topic \in Seq(ToSet(i.topic))
  /\ \A rule \in w.rules : rule \in Seq(ToSet(rule))
  /\ q.from \in Nat /\ q.to \in Nat /\ q.limit \in Nat \ {0} /\ q.bucket \in Nat \ {0} /\ q.points \in Nat
  /\ q.aggregate \in {"raw"} \cup Aggregates

LEMMA EntityAskedIs == ASSUME NEW w \in EntityWorlds, NEW q \in EntityQuestions PROVE EntityAsked(w, q)
<1>1. NoEnd \notin Int /\ Null \notin Int
  BY EntityAssumption, ArchiveAssumption DEF EntitiesFit, RowsFit
<1>2. /\ w.rows \in Seq(ToSet(w.rows)) /\ IsFiniteSet(w.intervals)
      /\ \A i \in w.intervals : /\ i.validFrom \in Int /\ i.validTo \in Int \cup {NoEnd}
                                /\ i.topic \in Seq(ToSet(i.topic)) /\ TopicRank[i.topic] \in Int
      /\ \A rule \in w.rules : rule \in Seq(ToSet(rule))
      /\ \A r \in ToSet(w.rows) : /\ Times(r, w.columns \cap Interval)
                                  /\ {r.at[c] : c \in w.columns \cap {"time", "timestamp"}} \subseteq Int
                                  /\ r.value \in Int \cup {Null}
  BY EntityAssumption DEF EntitiesFit
<1>3. /\ q.from \in Nat /\ q.to \in Nat
      /\ q.limit \in Nat \ {0} /\ q.bucket \in Nat \ {0} /\ q.points \in Nat
      /\ q.aggregate \in {"raw"} \cup Aggregates
  BY EntityAssumption DEF EntitiesFit, Aggregates
<1>4. \A r \in ToSet(w.rows) : RowFits(r, w.columns)
  BY <1>2 DEF RowFits
<1>5. \A i \in w.intervals : BindingFits(i)
  BY <1>2 DEF BindingFits
<1> QED
  BY <1>1, <1>2, <1>3, <1>4, <1>5 DEF EntityAsked, WorldFits

\* A plan without parts is the empty one.
LEMMA EmptyPlan ==
  ASSUME NEW intervals, NEW path, NEW from, NEW to, NEW plan, plan = planIntervals(intervals, path, from, to),
         Len(plan) \in Nat, DOMAIN plan = 1 .. Len(plan)
  PROVE  plan = <<>> <=> ~ Len(plan) > 0
<1>1. plan = [k \in DOMAIN plan |-> plan[k]]
  BY DEF planIntervals, Ordered
<1>2. ASSUME ~ Len(plan) > 0 PROVE plan = <<>>
  <2>1. DOMAIN plan = {}
    BY <1>2
  <2> QED
    BY <1>1, <2>1
<1> QED
  BY <1>2

\* Whatever is asked of an entity: who may read it, and whether there is anything to read.
LEMMA EntityOpens ==
  ASSUME NEW w, NEW q, EntityAsked(w, q),
         NEW plan, plan = planEntityHistoryBindings(w.intervals, w.attributePath, q.from, q.to),
         plan # Refused
  PROVE  /\ plan = planIntervals(w.intervals, w.attributePath, q.from, q.to) /\ q.from < q.to
         /\ plan = <<>> => Visited(w, q) = {}
         /\ plan # <<>> => Len(plan) > 0 /\ Visited(w, q) # {}
         /\ assessEntityPlanAccess(plan, w.rules, w.dataSources) =>
              \A t \in Visited(w, q) : AllowedBy(w.rules, t)
<1>1. q.from \in Int /\ q.to \in Int /\ NoEnd \notin Int /\ Null \notin Int /\ WorldFits(w)
  BY DEF EntityAsked
<1>2. q.from < q.to /\ plan = planIntervals(w.intervals, w.attributePath, q.from, q.to)
  BY <1>1 DEF planEntityHistoryBindings
<1>3. /\ Len(plan) \in Nat /\ DOMAIN plan = 1 .. Len(plan)
      /\ Visited(w, q) = {plan[k].topic : k \in 1 .. Len(plan)}
  BY <1>1, <1>2, PlanVisits
<1>4. plan = <<>> <=> ~ Len(plan) > 0
  BY <1>2, <1>3, EmptyPlan
<1>5. plan = <<>> => Visited(w, q) = {}
  BY <1>3, <1>4
<1>6. plan # <<>> => Len(plan) > 0 /\ Visited(w, q) # {}
  <2> SUFFICES ASSUME plan # <<>> PROVE Len(plan) > 0 /\ Visited(w, q) # {}
    OBVIOUS
  <2>1. Len(plan) > 0 /\ 1 \in 1 .. Len(plan)
    BY <1>3, <1>4
  <2> QED
    BY <1>3, <2>1
<1>7. ASSUME assessEntityPlanAccess(plan, w.rules, w.dataSources), NEW t \in Visited(w, q)
      PROVE  AllowedBy(w.rules, t)
  <2>1. PICK k \in 1 .. Len(plan) : t = plan[k].topic
    BY <1>3
  <2>2. isTopicAllowedByAccessRules(t, w.rules)
    BY <1>3, <1>7, <2>1 DEF assessEntityPlanAccess
  <2>3. t \in Seq(ToSet(t)) /\ \A rule \in w.rules : rule \in Seq(ToSet(rule))
    BY DEF Visited, EntityAsked
  <2> DEFINE rules == w.rules
  <2> HIDE DEF rules
  <2>4. AllowedBy(rules, t)
    BY <2>2, <2>3, AllowedIs DEF rules
  <2> QED
    BY <2>4 DEF rules
<1> QED
  BY <1>2, <1>5, <1>6, <1>7

\* What the property says of a question and its answer.
EntityTold(a, b) ==
  a.kind = "entity" =>
    LET w == a.world
        q == a.question
    IN  /\ b.status = "resolved" => /\ \A t \in Visited(w, q) : AllowedBy(w.rules, t)
                                    /\ Visited(w, q) # {}
        /\ b.status = "not-found" => Visited(w, q) = {}
        /\ b.status = "resolved" =>
             IF q.aggregate = "raw" THEN RowsTold(b.data, w, q)
             ELSE Instants(w, q) => /\ q.points # 0 => Cardinality(b.data) <= q.points
                                    /\ ~ q.dedupe /\ Consecutive(w) => BucketsSaid(b.data, w, q)

\* The definitions above name its parts.
LEMMA EntityReadIs == EntityReadExact <=> EntityTold(asked, answer)
<1>1. ASSUME NEW w, NEW q PROVE RowsExact(w, q) <=> RowsTold(answer.data, w, q)
  BY DEF RowsExact, RowsTold, Payloads, Unlike
<1>2. ASSUME NEW w, NEW q PROVE BucketsExact(w, q) <=> BucketsSaid(answer.data, w, q)
  BY DEF BucketsExact, BucketsSaid, SaidOfWidth
<1> QED
  BY <1>1, <1>2 DEF EntityReadExact, EntityTold

LEMMA EntityAnswers ==
  ASSUME NEW w \in EntityWorlds, NEW q \in EntityQuestions, NEW a, NEW b,
         a = [kind |-> "entity", world |-> w, question |-> q], b = entityResult(w, q)
  PROVE  EntityTold(a, b)
<1> DEFINE plan == planEntityHistoryBindings(w.intervals, w.attributePath, q.from, q.to)
           temporal == resolveTemporalStrategy(w.columns, q.timeField)
           lines == MergedLines(w, q, plan)
           buckets == EntityBuckets(w, q, plan)
           open == \A t \in Visited(w, q) : AllowedBy(w.rules, t)
<1>1. a.kind = "entity" /\ a.world = w /\ a.question = q
  OBVIOUS
<1>2. b = IF plan = Refused THEN [status |-> "failed"]
          ELSE IF ~ assessEntityPlanAccess(plan, w.rules, w.dataSources) THEN [status |-> "denied"]
          ELSE IF plan = <<>> THEN [status |-> "not-found"]
          ELSE IF temporal = Refused THEN [status |-> "failed"]
          ELSE IF q.aggregate = "raw" THEN [status |-> "resolved", data |-> lines]
          ELSE [status |-> "resolved", data |-> buckets]
  BY DEF entityResult, MergedLines, LinesOf, EntityBuckets, GroupedPart, SourceOf, WidthOf
<1>3. EntityAsked(w, q)
  BY EntityAskedIs
<1> HIDE DEF lines, buckets, plan, open
<1>4. CASE plan = Refused
  <2>1. b.status = "failed"
    BY <1>2, <1>4
  <2> QED
    BY <1>1, <2>1 DEF EntityTold
<1>5. CASE plan # Refused
  <2>1. /\ plan = planIntervals(w.intervals, w.attributePath, q.from, q.to) /\ q.from < q.to
        /\ plan = <<>> => Visited(w, q) = {}
        /\ plan # <<>> => Len(plan) > 0 /\ Visited(w, q) # {}
        /\ assessEntityPlanAccess(plan, w.rules, w.dataSources) => open
    BY <1>3, <1>5, EntityOpens DEF plan, open
  <2>2. CASE ~ assessEntityPlanAccess(plan, w.rules, w.dataSources)
    <3>1. b.status = "denied"
      BY <1>2, <1>5, <2>2
    <3> QED
      BY <1>1, <3>1 DEF EntityTold
  <2>3. CASE assessEntityPlanAccess(plan, w.rules, w.dataSources) /\ plan = <<>>
    <3>1. b.status = "not-found"
      BY <1>2, <1>5, <2>3
    <3> QED
      BY <1>1, <2>1, <2>3, <3>1 DEF EntityTold
  <2>4. CASE /\ assessEntityPlanAccess(plan, w.rules, w.dataSources) /\ plan # <<>>
             /\ temporal = Refused
    <3>1. b.status = "failed"
      BY <1>2, <1>5, <2>4
    <3> QED
      BY <1>1, <3>1 DEF EntityTold
  <2>5. CASE /\ assessEntityPlanAccess(plan, w.rules, w.dataSources) /\ plan # <<>>
             /\ temporal # Refused
    <3>1. NoEnd \notin Int /\ Null \notin Int /\ WorldFits(w) /\ q.from \in Nat /\ q.to \in Nat
      BY <1>3 DEF EntityAsked
    <3>2. CASE q.aggregate = "raw"
      <4>1. b.status = "resolved" /\ b.data = lines
        BY <1>2, <1>5, <2>5, <3>2
      <4>2. RowsTold(lines, w, q)
        <5>1. q.limit \in Nat \ {0} /\ q.from \in Int /\ q.to \in Int
          BY <1>3 DEF EntityAsked
        <5> QED
          BY <2>1, <2>5, <3>1, <5>1, MergedLinesTold DEF lines
      <4> QED
        BY <1>1, <2>1, <2>5, <3>2, <4>1, <4>2 DEF EntityTold, open
    <3>3. CASE q.aggregate # "raw"
      <4>1. b.status = "resolved" /\ b.data = buckets
        BY <1>2, <1>5, <2>5, <3>3
      <4>2. ASSUME Instants(w, q) PROVE BucketsRead(w, q, plan)
        <5>1. ReadFor(w, q)
          BY <2>1, <2>5, <3>1 DEF ReadFor
        <5>2. q.bucket \in Nat \ {0} /\ q.points \in Nat /\ q.aggregate \in Aggregates
          BY <1>3, <3>3 DEF EntityAsked
        <5> QED
          BY <2>1, <2>5, <4>2, <5>1, <5>2 DEF BucketsRead
      <4>3. ASSUME Instants(w, q), q.points # 0 PROVE Cardinality(buckets) <= q.points
        BY <4>2, <4>3, PointsKept DEF buckets
      <4>4. ASSUME Instants(w, q), ~ q.dedupe, Consecutive(w) PROVE BucketsSaid(buckets, w, q)
        BY <4>2, <4>4, BucketsSaidIs DEF buckets, WholeRead
      <4> QED
        BY <1>1, <2>1, <2>5, <3>3, <4>1, <4>3, <4>4 DEF EntityTold, open
    <3> QED
      BY <3>2, <3>3
  <2> QED
    BY <2>2, <2>3, <2>4, <2>5
<1> QED
  BY <1>4, <1>5

\* An entity's rows are those that were recorded at each of its topics while it was bound
\* to it: none is lost at a handover, none is read twice, none is another entity's; a
\* limited answer holds the newest; buckets over several topics have the value that all
\* their rows have together, and never more points than asked; a topic the caller may not
\* read denies the whole answer (planIntervals, buildEntitySourceSql,
\* mergeEntityHistoryRows, mergeEntityBucketRows, buildBucketSql, deriveBucketMs).
THEOREM EntityReadAlwaysExact == AnswersSpec => []EntityReadExact
<1> DEFINE Inv == EntityReadExact
<1>0. Inv <=> EntityTold(asked, answer)
  BY EntityReadIs
<1> HIDE DEF Inv
<1>1. AnswersInit => Inv
  BY <1>0 DEF AnswersInit, Idle, EntityTold
<1>2. ASSUME Inv, [AnswersNext]_<<asked, answer>>
      PROVE  Inv'
  <2>0. Inv' <=> EntityTold(asked, answer)'
    BY <1>0, PTL
  <2>1. CASE UNCHANGED <<asked, answer>>
    <3>1. EntityTold(asked, answer) => EntityTold(asked, answer)'
      BY <2>1 DEF EntityTold
    <3> QED
      BY <1>0, <1>2, <2>0, <3>1
  <2>2. ASSUME NEW w \in EntityWorlds, NEW q \in EntityQuestions, ReadEntity(w, q)
        PROVE  Inv'
    <3>1. EntityTold(asked', answer')
      BY <2>2, EntityAnswers DEF ReadEntity
    <3>2. EntityTold(asked, answer)'
      BY <3>1 DEF EntityTold
    <3> QED
      BY <2>0, <3>2
  <2>3. ASSUME asked'.kind # "entity" PROVE Inv'
    BY <2>0, <2>3 DEF EntityTold
  <2>4. \/ \E w \in EntityWorlds, q \in EntityQuestions : ReadEntity(w, q)
        \/ asked'.kind # "entity"
        \/ UNCHANGED <<asked, answer>>
    <3>1. ASSUME NEW rows, NEW q, ReadCounter(rows, q) PROVE asked'.kind # "entity"
      BY <3>1 DEF ReadCounter
    <3>2. ASSUME NEW r, NEW q, ExportRows(r, q) PROVE asked'.kind # "entity"
      BY <3>2 DEF ExportRows
    <3>3. ASSUME NEW r, NEW q, RecoverLatest(r, q) PROVE asked'.kind # "entity"
      BY <3>3 DEF RecoverLatest
    <3>4. ASSUME NEW r, NEW q, ResolveTables(r, q) PROVE asked'.kind # "entity"
      BY <3>4 DEF ResolveTables
    <3>5. ASSUME NEW from, NEW to, NormalizeRange(from, to) PROVE asked'.kind # "entity"
      BY <3>5 DEF NormalizeRange
    <3>6. ASSUME Done PROVE asked'.kind # "entity"
      BY <3>6 DEF Done, Idle
    <3> QED
      BY <1>2, <3>1, <3>2, <3>3, <3>4, <3>5, <3>6 DEF AnswersNext, Ask
  <2> QED
    BY <2>1, <2>2, <2>3, <2>4
<1>3. AnswersSpec => []Inv
  BY <1>1, <1>2, PTL DEF AnswersSpec, answerVars
<1> QED
  BY <1>3 DEF Inv
=============================================================================
