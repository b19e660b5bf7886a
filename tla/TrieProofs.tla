----------------------------- MODULE TrieProofs -----------------------------
(***************************************************************************)
(* Proofs about the double array and its builder, for keys of every number *)
(* and length and every density factor: the types, that every cell has one *)
(* parent, and that no key is lost; that few keys always find a place, and *)
(* that a trie finds its keys and iterates over them in their order.       *)
(***************************************************************************)
EXTENDS Trie, FlattenLemmas

-----------------------------------------------------------------------------
(* Ranks in a finite total order                                           *)

Below(S, R, x) == {y \in S : <<y, x>> \in R}

IsTotalOrder(S, R) ==
    /\ \A x \in S : <<x, x>> \notin R
    /\ \A x, y, z \in S : <<x, y>> \in R /\ <<y, z>> \in R => <<x, z>> \in R
    /\ \A x, y \in S : x = y \/ <<x, y>> \in R \/ <<y, x>> \in R

LEMMA BelowIsFinite ==
    ASSUME NEW S, IsFiniteSet(S), NEW R, NEW x \in S, <<x, x>> \notin R
    PROVE  /\ IsFiniteSet(Below(S, R, x)) /\ Cardinality(Below(S, R, x)) \in Nat
           /\ Cardinality(S) \in Nat /\ Cardinality(Below(S, R, x)) < Cardinality(S)
<1>1. Below(S, R, x) \in SUBSET S /\ Below(S, R, x) # S
  BY DEF Below
<1>2. /\ IsFiniteSet(Below(S, R, x)) /\ Cardinality(Below(S, R, x)) <= Cardinality(S)
      /\ Cardinality(S) # Cardinality(Below(S, R, x))
  BY <1>1, FS_Subset
<1>3. Cardinality(S) \in Nat /\ Cardinality(Below(S, R, x)) \in Nat
  BY <1>2, FS_CardinalityType
<1> QED BY <1>2, <1>3

LEMMA RankGrows ==
    ASSUME NEW S, IsFiniteSet(S), NEW R, IsTotalOrder(S, R),
           NEW x \in S, NEW y \in S, <<x, y>> \in R
    PROVE  Cardinality(Below(S, R, x)) < Cardinality(Below(S, R, y))
<1>1. Below(S, R, x) \in SUBSET Below(S, R, y)
  BY DEF Below, IsTotalOrder
<1>2. Below(S, R, x) # Below(S, R, y)
  BY DEF Below, IsTotalOrder
<1>3. /\ IsFiniteSet(Below(S, R, y)) /\ Cardinality(Below(S, R, y)) \in Nat
      /\ Cardinality(Below(S, R, x)) \in Nat
  BY BelowIsFinite DEF IsTotalOrder
<1>4. /\ Cardinality(Below(S, R, x)) <= Cardinality(Below(S, R, y))
      /\ Cardinality(Below(S, R, x)) # Cardinality(Below(S, R, y))
  BY <1>1, <1>2, <1>3, FS_Subset
<1> QED BY <1>3, <1>4

Ranked(S, R) ==
    [n \in 1..Cardinality(S) |-> CHOOSE x \in S : Cardinality(Below(S, R, x)) = n - 1]

\* A function that has all members of a set, in order.
IsRanking(f, S, R) ==
    /\ f \in [1..Cardinality(S) -> S]
    /\ \A x \in S : \E n \in 1..Cardinality(S) : f[n] = x
    /\ \A m, n \in 1..Cardinality(S) : m < n => <<f[m], f[n]>> \in R

\* As many members are below one as there are places before its own.
LEMMA Ranking ==
    ASSUME NEW S, IsFiniteSet(S), NEW R, IsTotalOrder(S, R)
    PROVE  Cardinality(S) \in Nat /\ IsRanking(Ranked(S, R), S, R)
<1> DEFINE size == Cardinality(S)
           rank == [x \in S |-> Cardinality(Below(S, R, x))]
           f == Ranked(S, R)
<1>1. size \in Nat
  BY FS_CardinalityType
<1>2. \A x \in S : rank[x] \in 0..size - 1
  <2> TAKE x \in S
  <2>1. rank[x] \in Nat /\ rank[x] < size
    BY BelowIsFinite DEF IsTotalOrder
  <2> QED BY <2>1, <1>1
<1>3. \A x, y \in S : <<x, y>> \in R => rank[x] < rank[y]
  BY RankGrows
<1>4. f = [n \in 1..size |-> CHOOSE x \in S : rank[x] = n - 1]
  BY DEF Ranked
<1>5. rank \in [S -> 0..size - 1]
  BY <1>2
<1> HIDE DEF rank, f
<1>6. \A x, y \in S : rank[x] = rank[y] => x = y
  <2> SUFFICES ASSUME NEW x \in S, NEW y \in S, rank[x] = rank[y] PROVE x = y
    OBVIOUS
  <2>1. ~(rank[x] < rank[y]) /\ ~(rank[y] < rank[x])
    BY <1>1, <1>2
  <2> QED BY <2>1, <1>3 DEF IsTotalOrder
<1>7. rank \in Injection(S, 0..size - 1)
  BY <1>5, <1>6 DEF Injection, IsInjective
<1>8. IsFiniteSet(0..size - 1) /\ Cardinality(0..size - 1) = size
  BY <1>1, FS_Interval
<1>9. rank \in Surjection(S, 0..size - 1)
  BY <1>7, <1>8, FS_Injection
<1> HIDE DEF size
<1>10. \A n \in 1..size : f[n] \in S /\ rank[f[n]] = n - 1
  <2> TAKE n \in 1..size
  <2>1. n - 1 \in 0..size - 1
    BY <1>1
  <2>2. \E x \in S : rank[x] = n - 1
    BY <2>1, <1>9 DEF Surjection
  <2>3. f[n] = CHOOSE x \in S : rank[x] = n - 1
    BY <1>4
  <2> QED BY <2>2, <2>3
<1>11. f \in [1..size -> S]
  BY <1>4, <1>10
<1>12. ASSUME NEW x \in S PROVE \E n \in 1..size : f[n] = x
  <2>1. rank[x] + 1 \in 1..size /\ (rank[x] + 1) - 1 = rank[x]
    BY <1>2, <1>1
  <2>2. f[rank[x] + 1] \in S /\ rank[f[rank[x] + 1]] = rank[x]
    BY <2>1, <1>10
  <2> QED BY <2>1, <2>2, <1>6
<1>13. ASSUME NEW m \in 1..size, NEW n \in 1..size, m < n PROVE <<f[m], f[n]>> \in R
  <2>1. f[m] \in S /\ f[n] \in S /\ rank[f[m]] = m - 1 /\ rank[f[n]] = n - 1
    BY <1>10
  <2>2. m - 1 < n - 1
    BY <1>13, <1>1
  <2>3. f[m] # f[n] /\ ~(rank[f[n]] < rank[f[m]])
    BY <2>1, <2>2, <1>1
  <2> QED BY <2>1, <2>3, <1>3 DEF IsTotalOrder
<1> QED BY <1>1, <1>11, <1>12, <1>13 DEF IsRanking, f, size

\* The numbers of a finite set in order.
IsInOrder(f, S) ==
    /\ f \in [1..Cardinality(S) -> S]
    /\ \A x \in S : \E n \in 1..Cardinality(S) : f[n] = x
    /\ \A m, n \in 1..Cardinality(S) : m < n => f[m] < f[n]

LEMMA InOrderProperties ==
    ASSUME NEW S \in SUBSET Int, IsFiniteSet(S)
    PROVE  Cardinality(S) \in Nat /\ IsInOrder(InOrder(S), S)
<1> DEFINE R == {p \in S \X S : p[1] < p[2]}
<1>0. \A x, y \in S : <<x, y>> \in R <=> x < y
  OBVIOUS
<1> HIDE DEF R
<1>1. IsTotalOrder(S, R)
  BY <1>0 DEF IsTotalOrder
<1>2. Cardinality(S) \in Nat /\ IsRanking(Ranked(S, R), S, R)
  BY <1>1, Ranking
<1>3. \A x \in S : Below(S, R, x) = {y \in S : y < x}
  BY <1>0 DEF Below
<1> DEFINE Nth(n) == CHOOSE x \in S : Cardinality(Below(S, R, x)) = n - 1
<1>4. \A n : Nth(n) = CHOOSE x \in S : Cardinality({y \in S : y < x}) = n - 1
  BY <1>3
<1>5. Ranked(S, R) = [n \in 1..Cardinality(S) |-> Nth(n)]
  BY DEF Ranked
<1>6. Ranked(S, R) = InOrder(S)
  <2> HIDE DEF Nth
  <2> QED BY <1>4, <1>5 DEF InOrder
<1> QED BY <1>0, <1>2, <1>6 DEF IsRanking, IsInOrder
-----------------------------------------------------------------------------
(* The order of the keys. A key ends with the terminator, which is less    *)
(* than every character, so that keys are compared code by code.           *)

KeySet == Seq(1..Vacant - 1)

AgreeTo(a, b, n) == \A k \in 0..n - 1 : CodeAt(a, k) = CodeAt(b, k)

Less(a, b) == \E n \in Nat : AgreeTo(a, b, n) /\ CodeAt(a, n) < CodeAt(b, n)

LEMMA CodeFacts ==
    ASSUME NEW a \in KeySet, NEW k \in Nat
    PROVE  /\ Len(a) \in Nat /\ CodeAt(a, k) \in 0..Vacant - 1
           /\ k < Len(a) => CodeAt(a, k) = a[k + 1] /\ CodeAt(a, k) > 0
           /\ k >= Len(a) => CodeAt(a, k) = 0
<1>1. Len(a) \in Nat
  BY LenProperties DEF KeySet
<1>2. CASE k < Len(a)
  <2>1. k + 1 \in 1..Len(a)
    BY <1>1, <1>2
  <2>2. a[k + 1] \in 1..Vacant - 1
    BY <2>1, ElementOfSeq DEF KeySet
  <2> QED BY <1>1, <1>2, <2>2, VacantAssumption DEF CodeAt
<1>3. CASE ~(k < Len(a))
  <2>1. CodeAt(a, k) = 0
    BY <1>3 DEF CodeAt, Terminator
  <2> QED BY <1>1, <1>3, <2>1, VacantAssumption
<1> QED BY <1>2, <1>3

LEMMA CodeType == \A a \in KeySet : \A k \in Nat : CodeAt(a, k) \in Nat
<1> SUFFICES ASSUME NEW a \in KeySet, NEW k \in Nat PROVE CodeAt(a, k) \in Nat
  OBVIOUS
<1>1. CodeAt(a, k) \in 0..Vacant - 1
  BY CodeFacts
<1> QED BY <1>1, VacantAssumption

\* Keys whose codes are all the same are the same.
LEMMA SameCodes ==
    ASSUME NEW a \in KeySet, NEW b \in KeySet, \A k \in Nat : CodeAt(a, k) = CodeAt(b, k)
    PROVE  a = b
<1>1. Len(a) \in Nat /\ Len(b) \in Nat
  BY LenProperties DEF KeySet
<1>2. Len(a) = Len(b)
  <2>1. CodeAt(a, Len(b)) = 0 /\ CodeAt(b, Len(a)) = 0
    <3>1. CodeAt(b, Len(b)) = 0 /\ CodeAt(a, Len(a)) = 0
      BY <1>1, CodeFacts
    <3> QED BY <3>1, <1>1
  <2>2. ~(Len(b) < Len(a)) /\ ~(Len(a) < Len(b))
    BY <2>1, <1>1, CodeFacts
  <2> QED BY <2>2, <1>1
<1>3. \A i \in 1..Len(a) : a[i] = b[i]
  <2> TAKE i \in 1..Len(a)
  <2>1. i - 1 \in Nat /\ i - 1 < Len(a) /\ i - 1 < Len(b) /\ (i - 1) + 1 = i
    BY <1>1, <1>2
  <2>2. CodeAt(a, i - 1) = a[i] /\ CodeAt(b, i - 1) = b[i]
    BY <2>1, CodeFacts
  <2> QED BY <2>1, <2>2
<1> QED BY <1>2, <1>3, SeqEqual DEF KeySet

LEMMA Beginning ==
    ASSUME NEW S, NEW s \in Seq(S), NEW n \in Nat, n <= Len(s)
    PROVE  SubSeq(s, 1, n) \in Seq(S) /\ IsPart(SubSeq(s, 1, n), s, 0, n)
<1>1. ASSUME NEW from \in Nat, from <= n
      PROVE  SubSeq(s, from + 1, n) \in Seq(S) /\ IsPart(SubSeq(s, from + 1, n), s, from, n)
  BY <1>1, PartProperties
<1>2. 0 \in Nat /\ 0 <= n /\ 0 + 1 = 1
  OBVIOUS
<1> QED BY <1>1, <1>2

\* The beginning of a key, by its codes.
LEMMA SameBeginning ==
    ASSUME NEW a \in KeySet, NEW b \in KeySet, NEW n \in Nat, n <= Len(a), n <= Len(b)
    PROVE  SubSeq(a, 1, n) = SubSeq(b, 1, n) <=> AgreeTo(a, b, n)
<1>1. Len(a) \in Nat /\ Len(b) \in Nat
  BY LenProperties DEF KeySet
<1> DEFINE x == SubSeq(a, 1, n)
           y == SubSeq(b, 1, n)
<1>2. /\ x \in KeySet /\ Len(x) = n /\ \A i \in 1..n : x[i] = a[i]
      /\ y \in KeySet /\ Len(y) = n /\ \A i \in 1..n : y[i] = b[i]
  <2>1. /\ x \in KeySet /\ IsPart(x, a, 0, n) /\ y \in KeySet /\ IsPart(y, b, 0, n)
    BY <1>1, Beginning DEF KeySet
  <2> QED BY <2>1 DEF IsPart
<1> HIDE DEF x, y
<1>3. \A k \in 0..n - 1 : CodeAt(a, k) = x[k + 1] /\ CodeAt(b, k) = y[k + 1]
  <2> TAKE k \in 0..n - 1
  <2>1. k \in Nat /\ k < Len(a) /\ k < Len(b) /\ k + 1 \in 1..n
    BY <1>1
  <2> QED BY <2>1, <1>2, CodeFacts
<1>4. ASSUME x = y PROVE AgreeTo(a, b, n)
  BY <1>3, <1>4 DEF AgreeTo
<1>5. ASSUME AgreeTo(a, b, n) PROVE x = y
  <2>1. \A i \in 1..n : x[i] = y[i]
    <3> TAKE i \in 1..n
    <3>1. i - 1 \in 0..n - 1 /\ (i - 1) + 1 = i
      OBVIOUS
    <3> QED BY <3>1, <1>3, <1>5 DEF AgreeTo
  <2> QED BY <2>1, <1>2, SeqEqual DEF KeySet
<1> QED BY <1>4, <1>5 DEF x, y

LEMMA BeforeIsLess ==
    ASSUME NEW a \in KeySet, NEW b \in KeySet
    PROVE  Before(a, b) <=> Less(a, b)
<1>1. Len(a) \in Nat /\ Len(b) \in Nat /\ DOMAIN a = 1..Len(a) /\ DOMAIN b = 1..Len(b)
  BY LenProperties DEF KeySet
<1>2. ASSUME IsStrictPrefix(a, b) PROVE Less(a, b)
  <2>1. Len(a) <= Len(b) /\ SubSeq(a, 1, Len(a)) = SubSeq(b, 1, Len(a)) /\ a # b
    BY <1>2 DEF IsStrictPrefix, IsPrefix
  <2>2. AgreeTo(a, b, Len(a))
    BY <2>1, <1>1, SameBeginning
  <2>3. Len(a) # Len(b)
    <3>1. SubSeq(a, 1, Len(a)) = a /\ SubSeq(b, 1, Len(b)) = b
      BY SubSeqFull DEF KeySet
    <3> QED BY <3>1, <2>1
  <2>4. CodeAt(a, Len(a)) = 0 /\ CodeAt(b, Len(a)) > 0
    <3>1. Len(a) <= Len(b) /\ Len(a) \in Nat /\ Len(b) \in Nat
      BY <2>1, <1>1
    <3>2. Len(a) < Len(b) /\ Len(a) >= Len(a)
      BY <3>1, <2>3
    <3> QED BY <3>1, <3>2, CodeFacts
  <2> QED BY <2>2, <2>4, <1>1 DEF Less
<1>3. ASSUME NEW i \in DOMAIN a \cap DOMAIN b,
             SubSeq(a, 1, i - 1) = SubSeq(b, 1, i - 1), a[i] < b[i]
      PROVE  Less(a, b)
  <2>1. /\ i - 1 \in Nat /\ i - 1 <= Len(a) /\ i - 1 <= Len(b) /\ i - 1 < Len(a) /\ i - 1 < Len(b)
        /\ (i - 1) + 1 = i
    BY <1>1
  <2>2. AgreeTo(a, b, i - 1)
    BY <2>1, <1>3, SameBeginning
  <2>3. CodeAt(a, i - 1) = a[i] /\ CodeAt(b, i - 1) = b[i]
    BY <2>1, CodeFacts
  <2> QED BY <2>1, <2>2, <2>3, <1>3 DEF Less
<1>4. ASSUME Less(a, b) PROVE Before(a, b)
  <2>1. PICK n \in Nat : AgreeTo(a, b, n) /\ CodeAt(a, n) < CodeAt(b, n)
    BY <1>4 DEF Less
  <2>2. n < Len(b)
    <3>1. CodeAt(a, n) \in Nat /\ (n >= Len(b) => CodeAt(b, n) = 0)
      BY CodeFacts
    <3> QED BY <3>1, <2>1, <1>1
  <2>3. n <= Len(a)
    <3> SUFFICES ASSUME Len(a) < n PROVE FALSE
      BY <1>1
    <3>1. Len(a) \in 0..n - 1 /\ Len(a) < Len(b) /\ Len(a) >= Len(a)
      BY <1>1, <2>2
    <3>2. CodeAt(a, Len(a)) = 0 /\ CodeAt(b, Len(a)) > 0
      BY <3>1, <1>1, CodeFacts
    <3>3. CodeAt(a, Len(a)) = CodeAt(b, Len(a))
      BY <3>1, <2>1 DEF AgreeTo
    <3> QED BY <3>2, <3>3
  <2>4. SubSeq(a, 1, n) = SubSeq(b, 1, n)
    BY <2>1, <2>2, <2>3, <1>1, SameBeginning
  <2>5. CASE n = Len(a)
    <3>1. IsPrefix(a, b) /\ a # b
      BY <2>2, <2>4, <2>5, <1>1 DEF IsPrefix
    <3> QED BY <3>1 DEF Before, IsStrictPrefix
  <2>6. CASE n < Len(a)
    <3>1. n + 1 \in DOMAIN a \cap DOMAIN b /\ (n + 1) - 1 = n
      BY <1>1, <2>2, <2>6
    <3>2. CodeAt(a, n) = a[n + 1] /\ CodeAt(b, n) = b[n + 1]
      BY <2>2, <2>6, CodeFacts
    <3>3. SubSeq(a, 1, (n + 1) - 1) = SubSeq(b, 1, (n + 1) - 1) /\ a[n + 1] < b[n + 1]
      BY <3>1, <3>2, <2>1, <2>4
    <3> QED BY <3>1, <3>3 DEF Before
  <2>7. n = Len(a) \/ n < Len(a)
    <3>1. n \in Nat /\ Len(a) \in Nat
      BY <1>1
    <3> QED BY <3>1, <2>3
  <2> QED BY <2>5, <2>6, <2>7
<1> QED BY <1>2, <1>3, <1>4 DEF Before

LEMMA LessIsTotal ==
    ASSUME NEW a \in KeySet, NEW b \in KeySet
    PROVE  a = b \/ Less(a, b) \/ Less(b, a)
<1> SUFFICES ASSUME a # b PROVE Less(a, b) \/ Less(b, a)
  OBVIOUS
<1> DEFINE T == {k \in Nat : CodeAt(a, k) # CodeAt(b, k)}
<1>1. T # {}
  BY SameCodes
<1>2. PICK n \in T : \A k \in T : n <= k
  BY <1>1, LeastNumber
<1>3. n \in Nat /\ \A k \in 0..n - 1 : CodeAt(a, k) = CodeAt(b, k)
  BY <1>2
<1>4. CodeAt(a, n) \in Nat /\ CodeAt(b, n) \in Nat /\ CodeAt(a, n) # CodeAt(b, n)
  BY <1>2, CodeFacts
<1> QED BY <1>3, <1>4 DEF Less, AgreeTo

LEMMA LessIsTransitive ==
    ASSUME NEW a \in KeySet, NEW b \in KeySet, NEW c \in KeySet, Less(a, b), Less(b, c)
    PROVE  Less(a, c)
<1>1. PICK m \in Nat : AgreeTo(a, b, m) /\ CodeAt(a, m) < CodeAt(b, m)
  BY DEF Less
<1>2. PICK n \in Nat : AgreeTo(b, c, n) /\ CodeAt(b, n) < CodeAt(c, n)
  BY DEF Less
<1>3. \A k \in Nat : CodeAt(a, k) \in Nat /\ CodeAt(b, k) \in Nat /\ CodeAt(c, k) \in Nat
  BY CodeType
<1>4. CASE m < n
  <2>1. \A k \in 0..m : k \in 0..n - 1
    BY <1>4
  <2>2. AgreeTo(a, c, m) /\ CodeAt(b, m) = CodeAt(c, m)
    BY <1>1, <1>2, <2>1 DEF AgreeTo
  <2> QED BY <2>2, <1>1 DEF Less
<1>5. CASE n <= m
  <2>1. \A k \in 0..n - 1 : k \in 0..m - 1
    BY <1>5
  <2>2. AgreeTo(a, c, n)
    BY <1>1, <1>2, <2>1 DEF AgreeTo
  <2>3. CodeAt(a, n) <= CodeAt(b, n)
    <3>1. CASE n = m
      BY <3>1, <1>1, <1>3
    <3>2. CASE n # m
      <4>1. n \in 0..m - 1
        BY <3>2, <1>5
      <4> QED BY <4>1, <1>1, <1>3 DEF AgreeTo
    <3> QED BY <3>1, <3>2
  <2>4. CodeAt(a, n) < CodeAt(c, n)
    BY <2>3, <1>2, <1>3
  <2> QED BY <2>2, <2>4 DEF Less
<1> QED BY <1>4, <1>5

\* What is not less has the smaller code at every place up to which it agrees.
LEMMA NotLess ==
    ASSUME NEW a \in KeySet, NEW b \in KeySet, a = b \/ Less(a, b), NEW n \in Nat, AgreeTo(a, b, n)
    PROVE  CodeAt(a, n) <= CodeAt(b, n) /\ ~Less(b, a)
<1>1. \A k \in Nat : CodeAt(a, k) \in Nat /\ CodeAt(b, k) \in Nat
  BY CodeType
<1>2. ~Less(a, a) /\ ~Less(b, b)
  BY <1>1 DEF Less
<1>3. ~Less(b, a)
  BY <1>2, LessIsTransitive
<1>4. CodeAt(a, n) <= CodeAt(b, n)
  <2> SUFFICES ASSUME CodeAt(b, n) < CodeAt(a, n) PROVE FALSE
    BY <1>1
  <2>1. AgreeTo(b, a, n)
    BY DEF AgreeTo
  <2> QED BY <2>1, <1>3 DEF Less
<1> QED BY <1>3, <1>4

-----------------------------------------------------------------------------
(* Sorting                                                                 *)

Element == [key : KeySet, value : 0..BaseHalf - 1]

\* The sequence has the members of a list in the order of a permutation.
IsPermuted(s, list, f) ==
    /\ f \in [1..Len(list) -> 1..Len(list)]
    /\ \A i \in 1..Len(list) : \E n \in 1..Len(list) : f[n] = i
    /\ \A n \in 1..Len(list) : s[n] = list[f[n]]

\* An element before another has the lesser key, or it has the same key and its place
\* in the list is before the other's.
IsInKeyOrder(list, f) ==
    \A m, n \in 1..Len(list) : m < n =>
        \/ Less(list[f[m]].key, list[f[n]].key)
        \/ list[f[m]].key = list[f[n]].key /\ f[m] < f[n]

LEMMA SortedProperties ==
    ASSUME NEW list \in Seq(Element)
    PROVE  /\ Sorted(list) \in Seq(Element) /\ Len(Sorted(list)) = Len(list) /\ Len(list) \in Nat
           /\ \E f : IsPermuted(Sorted(list), list, f) /\ IsInKeyOrder(list, f)
<1> DEFINE S == DOMAIN list
           Precedes(i, j) == \/ Before(list[i].key, list[j].key)
                             \/ list[i].key = list[j].key /\ i < j
           R == {p \in S \X S : Precedes(p[1], p[2])}
           f == Ranked(S, R)
<1>1. Len(list) \in Nat /\ S = 1..Len(list)
  BY LenProperties
<1>2. IsFiniteSet(S) /\ Cardinality(S) = Len(list)
  BY <1>1, FS_Interval
<1>3. \A i \in S : list[i] \in Element /\ list[i].key \in KeySet
  <2> TAKE i \in S
  <2>1. list[i] \in Element
    BY <1>1, ElementOfSeq
  <2> QED BY <2>1 DEF Element
<1>4. \A i, j \in S : <<i, j>> \in R
                         <=> \/ Less(list[i].key, list[j].key)
                             \/ list[i].key = list[j].key /\ i < j
  BY <1>3, BeforeIsLess
<1>5. \A x \in S : Below(S, R, x) = {j \in S : Precedes(j, x)}
  BY DEF Below
<1>6. Sorted(list) = [n \in S |-> list[f[n]]]
  <2> DEFINE Rank(i) == Cardinality({j \in S : Precedes(j, i)})
             Nth(n) == CHOOSE i \in S : Cardinality(Below(S, R, i)) = n - 1
  <2>1. \A n : Nth(n) = CHOOSE i \in S : Rank(i) = n - 1
    BY <1>5
  <2>2. f = [n \in S |-> Nth(n)]
    BY <1>1, <1>2 DEF Ranked
  <2>3. Sorted(list) = [n \in S |-> list[CHOOSE i \in S : Rank(i) = n - 1]]
    BY DEF Sorted
  <2> HIDE DEF Nth, Rank, f, S
  <2>4. \A n \in S : f[n] = Nth(n)
    BY <2>2
  <2> QED BY <2>1, <2>3, <2>4
<1> HIDE DEF R, Precedes
<1>7. IsTotalOrder(S, R)
  <2>1. \A x \in S : <<x, x>> \notin R
    <3> TAKE x \in S
    <3>1. ~Less(list[x].key, list[x].key)
      BY <1>3, CodeType DEF Less
    <3> QED BY <3>1, <1>4, <1>1
  <2>2. \A x, y, z \in S : <<x, y>> \in R /\ <<y, z>> \in R => <<x, z>> \in R
    <3> SUFFICES ASSUME NEW x \in S, NEW y \in S, NEW z \in S, <<x, y>> \in R, <<y, z>> \in R
                 PROVE  <<x, z>> \in R
      OBVIOUS
    <3> DEFINE a == list[x].key
               b == list[y].key
               c == list[z].key
    <3>1. /\ a \in KeySet /\ b \in KeySet /\ c \in KeySet
          /\ Less(a, b) \/ (a = b /\ x < y)
          /\ Less(b, c) \/ (b = c /\ y < z)
          /\ <<x, z>> \in R <=> Less(a, c) \/ (a = c /\ x < z)
      BY <1>3, <1>4
    <3>2. x \in Nat /\ y \in Nat /\ z \in Nat
      BY <1>1
    <3> HIDE DEF a, b, c
    <3>3. Less(a, b) /\ Less(b, c) => Less(a, c)
      BY <3>1, LessIsTransitive
    <3> QED BY <3>1, <3>2, <3>3
  <2>3. \A x, y \in S : x = y \/ <<x, y>> \in R \/ <<y, x>> \in R
    <3> SUFFICES ASSUME NEW x \in S, NEW y \in S, x # y
                 PROVE  <<x, y>> \in R \/ <<y, x>> \in R
      OBVIOUS
    <3>1. x < y \/ y < x
      BY <1>1
    <3>2. list[x].key = list[y].key \/ Less(list[x].key, list[y].key) \/ Less(list[y].key, list[x].key)
      BY <1>3, LessIsTotal
    <3> QED BY <3>1, <3>2, <1>4
  <2> QED BY <2>1, <2>2, <2>3 DEF IsTotalOrder
<1>8. IsRanking(f, S, R)
  BY <1>2, <1>7, Ranking
<1> HIDE DEF f
<1>9. f \in [S -> S] /\ (\A i \in S : \E n \in S : f[n] = i)
      /\ \A m, n \in S : m < n => <<f[m], f[n]>> \in R
  BY <1>1, <1>2, <1>8 DEF IsRanking
<1>10. \A n \in S : Sorted(list)[n] = list[f[n]] /\ list[f[n]] \in Element
  BY <1>3, <1>6, <1>9
<1>11. Sorted(list) \in [1..Len(list) -> Element]
  BY <1>1, <1>6, <1>10
<1>12. Sorted(list) \in Seq(Element) /\ Len(Sorted(list)) = Len(list)
  BY <1>1, <1>11, FunctionIsSeq
<1>13. IsPermuted(Sorted(list), list, f)
  BY <1>1, <1>9, <1>10 DEF IsPermuted
<1>14. IsInKeyOrder(list, f)
  BY <1>1, <1>4, <1>9 DEF IsInKeyOrder
<1> QED BY <1>1, <1>12, <1>13, <1>14

-----------------------------------------------------------------------------
(* Ways through an array                                                   *)

IsWay(w, array, root, key) ==
    /\ w[0] = root
    /\ \A n \in 0..Len(key) - 1 : w[n + 1] = Child(array, w[n], key[n + 1])

Leads(w, array, root, key) ==
    w = [n \in 0..Len(key) |-> IF n = 0 THEN root ELSE Child(array, w[n - 1], key[n])]

LEMMA LeadingExists ==
    ASSUME NEW array, NEW root, NEW key, Len(key) \in Nat
    PROVE  \E w : Leads(w, array, root, key)
<1> DEFINE Upto(w, n) == w = [i \in 0..n |-> IF i = 0 THEN root ELSE Child(array, w[i - 1], key[i])]
           T == {n \in Nat : \E w : Upto(w, n)}
<1>1. 0 \in T
  <2> DEFINE w == [i \in 0..0 |-> root]
  <2>1. \A i \in 0..0 : i = 0
    OBVIOUS
  <2>2. Upto(w, 0)
    BY <2>1
  <2> QED BY <2>2
<1>2. ASSUME NEW n \in Nat, n \in T PROVE n + 1 \in T
  <2>1. PICK v : Upto(v, n)
    BY <1>2
  <2> DEFINE w == [i \in 0..n + 1 |-> IF i = n + 1 THEN Child(array, v[n], key[n + 1]) ELSE v[i]]
             Next1(u, i) == IF i = 0 THEN root ELSE Child(array, u[i - 1], key[i])
  <2>2. \A i \in 0..n : v[i] = Next1(v, i)
    BY <2>1
  <2>3. ASSUME NEW i \in 0..n + 1 PROVE w[i] = Next1(w, i)
    <3>1. CASE i = n + 1
      <4>1. w[i] = Child(array, v[n], key[i]) /\ w[i - 1] = v[n] /\ i # 0
        BY <3>1
      <4> HIDE DEF w
      <4> QED BY <4>1
    <3>2. CASE i # n + 1
      <4>1. i \in 0..n /\ w[i] = v[i] /\ (i # 0 => w[i - 1] = v[i - 1])
        BY <3>2
      <4> HIDE DEF w
      <4> QED BY <4>1, <2>2
    <3> QED BY <3>1, <3>2
  <2>4. w = [i \in 0..n + 1 |-> w[i]]
    OBVIOUS
  <2> HIDE DEF w
  <2>5. w = [i \in 0..n + 1 |-> Next1(w, i)]
    BY <2>3, <2>4
  <2>6. Upto(w, n + 1)
    BY <2>5
  <2> QED BY <2>6
<1>3. Nat \subseteq T
  <2> HIDE DEF T
  <2> QED BY <1>1, <1>2, SetInduction
<1>4. \E w : Upto(w, Len(key))
  BY <1>3
<1> QED BY <1>4 DEF Leads

LEMMA WayProperties ==
    ASSUME NEW array, NEW root, NEW key, Len(key) \in Nat
    PROVE  IsWay(Way(array, root, key), array, root, key)
<1> DEFINE w == CHOOSE w : Leads(w, array, root, key)
<1>1. Leads(w, array, root, key)
  BY LeadingExists
<1>2. Way(array, root, key) = w
  BY DEF Way, Leads
<1> HIDE DEF w
<1>3. \A n \in 0..Len(key) : w[n] = IF n = 0 THEN root ELSE Child(array, w[n - 1], key[n])
  BY <1>1 DEF Leads
<1>4. w[0] = root
  BY <1>3, SMT
<1>5. ASSUME NEW n \in 0..Len(key) - 1 PROVE w[n + 1] = Child(array, w[n], key[n + 1])
  <2>1. n + 1 \in 0..Len(key) /\ n + 1 # 0 /\ (n + 1) - 1 = n
    OBVIOUS
  <2> QED BY <2>1, <1>3
<1> QED BY <1>2, <1>4, <1>5 DEF IsWay

\* Two ways are the same as far as the children on the one are those on the other.
\* The first characters of two keys lead to the same children in two arrays.
SameChildren(v, A, a, B, b, m) ==
    \A n \in 0..m - 1 : Child(B, v[n], b[n + 1]) = Child(A, v[n], a[n + 1])

SameWay(v, w, m) == \A n \in 0..m : w[n] = v[n]

LEMMA WaysAgree ==
    ASSUME NEW v, NEW w, NEW A, NEW B, NEW root, NEW a, NEW b, Len(a) \in Nat, Len(b) \in Nat,
           IsWay(v, A, root, a), IsWay(w, B, root, b),
           NEW m \in Nat, m <= Len(a), m <= Len(b), SameChildren(v, A, a, B, b, m)
    PROVE  SameWay(v, w, m)
<1> DEFINE T == {n \in Nat : n <= m => w[n] = v[n]}
<1>1. 0 \in T
  BY DEF IsWay
<1>2. ASSUME NEW n \in Nat, n \in T PROVE n + 1 \in T
  <2> SUFFICES ASSUME n + 1 <= m PROVE w[n + 1] = v[n + 1]
    OBVIOUS
  <2>1. n \in 0..m - 1 /\ n \in 0..Len(a) - 1 /\ n \in 0..Len(b) - 1 /\ w[n] = v[n]
    BY <1>2
  <2> QED BY <2>1 DEF IsWay, SameChildren
<1>3. Nat \subseteq T
  <2> HIDE DEF T
  <2> QED BY <1>1, <1>2, SetInduction
<1> QED BY <1>3 DEF SameWay

-----------------------------------------------------------------------------
(* Numbers                                                                 *)

LEMMA GreatestNumber ==
    ASSUME NEW n \in Nat, NEW T \in SUBSET (0..n), T # {}
    PROVE  \E x \in T : \A y \in T : y <= x
<1> DEFINE M == {k \in Nat : n - k \in T}
<1>1. M # {} /\ M \subseteq Nat
  <2>1. PICK x \in T : TRUE
    OBVIOUS
  <2>2. n - x \in Nat /\ n - (n - x) = x
    BY <2>1
  <2> QED BY <2>1, <2>2
<1>2. PICK k \in M : \A j \in M : k <= j
  BY <1>1, LeastNumber
<1>3. ASSUME NEW y \in T PROVE y <= n - k
  <2>1. n - y \in M /\ y \in Nat
    <3>1. n - y \in Nat /\ n - (n - y) = y /\ y \in Nat
      OBVIOUS
    <3> QED BY <3>1
  <2>2. k <= n - y /\ k \in Nat
    BY <2>1, <1>2
  <2> QED BY <2>1, <2>2
<1> QED BY <1>2, <1>3

\* Least() and Greatest() of numbers up to a bound.
LEMMA LeastAndGreatest ==
    ASSUME NEW n \in Nat, NEW T \in SUBSET (0..n), T # {}
    PROVE  /\ Least(T) \in T /\ \A y \in T : Least(T) <= y
           /\ Greatest(T) \in T /\ \A y \in T : y <= Greatest(T)
<1>1. \E x \in T : \A y \in T : x <= y
  <2>1. T \subseteq Nat
    OBVIOUS
  <2> QED BY <2>1, LeastNumber
<1>2. \E x \in T : \A y \in T : y <= x
  BY GreatestNumber
<1> QED BY <1>1, <1>2 DEF Least, Greatest

\* A base or a value that fits into its bits is stored as it is.
LEMMA StoredIs ==
    ASSUME NEW x \in -BaseHalf..BaseHalf - 1
    PROVE  Stored(x) = x
<1>1. BaseHalf \in Nat /\ BaseHalf # 0
  BY BaseAssumption, VacantAssumption
<1> DEFINE m == 2 * BaseHalf
<1>2. m \in Nat \ {0} /\ x + BaseHalf \in 0..m - 1 /\ m * 0 + (x + BaseHalf) = x + BaseHalf
  BY <1>1
<1> HIDE DEF m
<1>3. (m * 0 + (x + BaseHalf)) % m = x + BaseHalf
  BY <1>2, OneQuotient
<1>4. (x + BaseHalf) % m = x + BaseHalf
  BY <1>2, <1>3
<1>5. Stored(x) = (x + BaseHalf) - BaseHalf
  BY <1>4 DEF Stored, m
<1> QED BY <1>1, <1>5

\* The quotient is not greater than the number.
LEMMA QuotientIsLess ==
    ASSUME NEW m \in Nat \ {0}, NEW x \in Nat
    PROVE  x \div m \in Nat /\ x \div m <= x
<1> DEFINE q == x \div m
<1>1. q \in Int /\ x % m \in 0..m - 1 /\ x = m * q + (x % m)
  BY QuotientAndRemainder
<1> HIDE DEF q
<1> DEFINE r == x % m
<1>2. r \in 0..m - 1 /\ x = m * q + r
  BY <1>1
<1> HIDE DEF r
<1>3. q >= 0
  <2> SUFFICES ASSUME q <= -1 PROVE FALSE
    BY <1>1
  <2>1. m * q <= m * (-1)
    BY <1>1, SMTT(30)
  <2> QED BY <2>1, <1>1, <1>2
<1>4. q <= m * q
  BY <1>1, <1>3, SMTT(30)
<1>5. q <= x
  <2>1. m * q \in Int
    BY <1>1
  <2> QED BY <2>1, <1>1, <1>2, <1>4
<1> QED BY <1>1, <1>3, <1>5 DEF q

-----------------------------------------------------------------------------
(* The inductive invariant of the builder                                  *)

Key(i) == elements[i].key
Code(i, k) == CodeAt(Key(i), k)
Places(f) == f.first..f.last

\* The elements are in the order of their keys.
ElementsInv ==
    /\ elements \in Seq(Element) /\ factor \in Nat \ {0}
    /\ \A i, j \in DOMAIN elements : i < j => Key(i) = Key(j) \/ Less(Key(i), Key(j))

\* A frame has the elements with a prefix, and no others.
HasPrefix(f) ==
    /\ f.first \in DOMAIN elements /\ f.last \in DOMAIN elements /\ f.first <= f.last
    /\ f.offset \in Nat /\ f.offset <= Len(Key(f.first))
    /\ \A i \in DOMAIN elements : i \in Places(f) <=> AgreeTo(Key(f.first), Key(i), f.offset)

\* Its node is the root or the child of one along a character.
HasNode(f) ==
    /\ f.index \in DOMAIN cells /\ f.index \in Nat
    /\ f.index = 0 \/ cells[f.index].check \notin {Vacant, Terminator}

FramesInv ==
    /\ \E S : frames \in Seq(S)
    /\ \A n \in DOMAIN frames : HasPrefix(frames[n]) /\ HasNode(frames[n])
    /\ \A m, n \in DOMAIN frames : m # n =>
          /\ frames[m].index # frames[n].index
          /\ Places(frames[m]) \cap Places(frames[n]) = {}

\* A node has a base of its own, and a cell in use is the child of a node.
CellsInv ==
    /\ \E size \in Nat : DOMAIN cells = 0..size
    /\ \A i \in DOMAIN cells : cells[i] \in CellType
    /\ cells[0].check = Vacant
    /\ bases \subseteq -BaseHalf..BaseHalf - 1
    /\ elements # <<>> => \A p \in Inner : cells[p].base \in bases
    /\ \A p, q \in Inner : cells[p].base = cells[q].base => p = q
    /\ \A i \in DOMAIN cells :
          cells[i].check # Vacant => \E p \in Inner : cells[p].base + cells[i].check = i

\* The array has room for the children of the next node.
HasRoom ==
    frames # <<>> =>
        \E base \in BaseFirst(Head(frames))..(BaseHalf - 1) :
            Fits(base, Head(frames)) /\ base \notin bases

-----------------------------------------------------------------------------
(* What a frame has                                                        *)

LEMMA Agreement ==
    /\ \A a, b, n : AgreeTo(a, b, n) => AgreeTo(b, a, n)
    /\ \A a, b, c, n : AgreeTo(a, b, n) /\ AgreeTo(b, c, n) => AgreeTo(a, c, n)
    /\ \A a, n : AgreeTo(a, a, n)
BY DEF AgreeTo

LEMMA AgreementNext ==
    ASSUME NEW a, NEW b, NEW n \in Nat
    PROVE  AgreeTo(a, b, n + 1) <=> AgreeTo(a, b, n) /\ CodeAt(a, n) = CodeAt(b, n)
<1>1. \A k : k \in 0..(n + 1) - 1 <=> k \in 0..n - 1 \/ k = n
  OBVIOUS
<1> QED BY <1>1 DEF AgreeTo

\* A key that agrees up to a place within another key is at least as long.
LEMMA AgreementLength ==
    ASSUME NEW a \in KeySet, NEW b \in KeySet, NEW n \in Nat, n <= Len(a), AgreeTo(a, b, n)
    PROVE  n <= Len(b)
<1>1. Len(a) \in Nat /\ Len(b) \in Nat
  BY CodeFacts, 0 \in Nat
<1> SUFFICES ASSUME Len(b) < n PROVE FALSE
  BY <1>1
<1>2. Len(b) \in 0..n - 1 /\ Len(b) < Len(a) /\ Len(b) >= Len(b)
  BY <1>1
<1>3. CodeAt(b, Len(b)) = 0 /\ CodeAt(a, Len(b)) > 0
  BY <1>1, <1>2, CodeFacts
<1> QED BY <1>2, <1>3 DEF AgreeTo

LEMMA ElementFacts ==
    ASSUME ElementsInv
    PROVE  /\ Len(elements) \in Nat /\ DOMAIN elements = 1..Len(elements)
           /\ \A i \in DOMAIN elements : /\ elements[i] \in Element /\ Key(i) \in KeySet
                                         /\ elements[i].value \in 0..BaseHalf - 1
<1>1. Len(elements) \in Nat /\ DOMAIN elements = 1..Len(elements)
  BY LenProperties DEF ElementsInv
<1>2. ASSUME NEW i \in DOMAIN elements PROVE elements[i] \in Element
  BY <1>1, ElementOfSeq DEF ElementsInv
<1> QED BY <1>1, <1>2 DEF Element, Key

LEMMA PlaceFacts ==
    ASSUME ElementsInv, NEW f, HasPrefix(f)
    PROVE  /\ f.first \in Places(f) /\ f.last \in Places(f)
           /\ \A i \in Places(f) : /\ i \in DOMAIN elements /\ Key(i) \in KeySet
                                   /\ AgreeTo(Key(f.first), Key(i), f.offset)
                                   /\ f.offset <= Len(Key(i))
                                   /\ Code(i, f.offset) \in 0..Vacant - 1
                                   /\ Code(f.first, f.offset) <= Code(i, f.offset)
           /\ \A i, j \in Places(f) : i < j => Code(i, f.offset) <= Code(j, f.offset)
<1>1. /\ Len(elements) \in Nat /\ DOMAIN elements = 1..Len(elements)
      /\ \A i \in DOMAIN elements : Key(i) \in KeySet
  BY ElementFacts
<1>2. /\ f.first \in 1..Len(elements) /\ f.last \in 1..Len(elements) /\ f.first <= f.last
      /\ f.offset \in Nat /\ f.offset <= Len(Key(f.first))
  BY <1>1 DEF HasPrefix
<1>3. f.first \in Places(f) /\ f.last \in Places(f)
  BY <1>1, <1>2 DEF Places
<1>4. \A i \in Places(f) : i \in DOMAIN elements /\ i >= f.first
  BY <1>1, <1>2 DEF Places
<1>5. \A i \in Places(f) : Key(i) \in KeySet /\ AgreeTo(Key(f.first), Key(i), f.offset)
  BY <1>1, <1>4 DEF HasPrefix
<1>6. \A i \in Places(f) : f.offset <= Len(Key(i))
  BY <1>2, <1>3, <1>5, AgreementLength
<1>7. \A i \in Places(f) : Code(i, f.offset) \in 0..Vacant - 1
  BY <1>2, <1>5, CodeFacts DEF Code
<1>8. ASSUME NEW i \in Places(f), NEW j \in Places(f), i < j
      PROVE  Code(i, f.offset) <= Code(j, f.offset)
  <2>1. AgreeTo(Key(i), Key(j), f.offset)
    BY <1>5, Agreement
  <2>2. Key(i) = Key(j) \/ Less(Key(i), Key(j))
    BY <1>4, <1>8 DEF ElementsInv
  <2> QED BY <2>1, <2>2, <1>2, <1>5, NotLess DEF Code
<1>9. ASSUME NEW i \in Places(f) PROVE Code(f.first, f.offset) <= Code(i, f.offset)
  <2>1. CASE i = f.first
    <3>1. Code(i, f.offset) \in Int
      BY <1>7
    <3> QED BY <2>1, <3>1
  <2>2. CASE i # f.first
    <3>1. f.first < i
      BY <2>2, <1>1, <1>2, <1>4
    <3> QED BY <3>1, <1>3, <1>8
  <2> QED BY <2>1, <2>2
<1> QED BY <1>3, <1>4, <1>5, <1>6, <1>7, <1>8, <1>9

LEMMA CodesFacts ==
    ASSUME ElementsInv, NEW f, HasPrefix(f)
    PROVE  /\ Codes(f) \in SUBSET (0..Vacant - 1) /\ Codes(f) # {} /\ Vacant - 1 \in Nat
           /\ \A c : c \in Codes(f) <=> \E i \in Places(f) : Code(i, f.offset) = c
           /\ \A c \in Codes(f) : Code(f.first, f.offset) <= c
           /\ Greatest(Codes(f)) \in Codes(f) /\ \A c \in Codes(f) : c <= Greatest(Codes(f))
<1>1. Codes(f) = {Code(i, f.offset) : i \in Places(f)}
  BY DEF Codes, Places, Code, Key
<1>2. Codes(f) \in SUBSET (0..Vacant - 1) /\ Codes(f) # {}
  BY <1>1, PlaceFacts
<1>3. Vacant - 1 \in Nat
  BY VacantAssumption
<1>4. Greatest(Codes(f)) \in Codes(f) /\ \A c \in Codes(f) : c <= Greatest(Codes(f))
  BY <1>2, <1>3, LeastAndGreatest
<1>5. \A c \in Codes(f) : Code(f.first, f.offset) <= c
  BY <1>1, PlaceFacts
<1> QED BY <1>1, <1>2, <1>3, <1>4, <1>5

\* The elements of a frame that go on with a character are next to each other.
LEMMA GroupFacts ==
    ASSUME ElementsInv, NEW f, HasPrefix(f), NEW c \in Codes(f)
    PROVE  /\ Least(Group(f, c)) \in Group(f, c) /\ Greatest(Group(f, c)) \in Group(f, c)
           /\ \A i \in Group(f, c) : Least(Group(f, c)) <= i
           /\ Least(Group(f, c)) <= Greatest(Group(f, c))
           /\ \A i : i \in Group(f, c) <=> i \in Places(f) /\ Code(i, f.offset) = c
           /\ Least(Group(f, c))..Greatest(Group(f, c)) = Group(f, c)
<1> DEFINE G == Group(f, c)
           a == Least(G)
           z == Greatest(G)
<1>1. \A i : i \in G <=> i \in Places(f) /\ Code(i, f.offset) = c
  BY DEF Group, Places, Code, Key
<1>2. G # {}
  BY <1>1, CodesFacts
<1>3. /\ Len(elements) \in Nat
      /\ \A i \in Places(f) : i \in 1..Len(elements) /\ Code(i, f.offset) \in Int
  BY ElementFacts, PlaceFacts
<1>4. G \in SUBSET (0..Len(elements))
  BY <1>1, <1>3
<1>5. a \in G /\ (\A i \in G : a <= i) /\ z \in G /\ \A i \in G : i <= z
  BY <1>2, <1>3, <1>4, LeastAndGreatest
<1> HIDE DEF G, a, z
<1>6. ASSUME NEW i \in a..z PROVE i \in G
  <2>1. a \in Places(f) /\ z \in Places(f) /\ Code(a, f.offset) = c /\ Code(z, f.offset) = c
    BY <1>1, <1>5
  <2>2. i \in Places(f)
    <3>1. f.first \in Int /\ f.last \in Int
      BY ElementFacts DEF HasPrefix
    <3> QED BY <3>1, <2>1 DEF Places
  <2>3. Code(a, f.offset) <= Code(i, f.offset) /\ Code(i, f.offset) <= Code(z, f.offset)
    <3>1. a \in Int /\ z \in Int /\ i \in Int
      BY <2>1, <2>2, <1>3
    <3>2. CASE i = a
      BY <3>2, <2>1, <1>3
    <3>3. CASE i = z
      BY <3>3, <2>1, <1>3
    <3>4. CASE a < i /\ i < z
      BY <3>4, <2>1, <2>2, PlaceFacts
    <3> QED BY <3>1, <3>2, <3>3, <3>4
  <2>4. Code(i, f.offset) = c
    BY <2>1, <2>2, <2>3, <1>3
  <2> QED BY <1>1, <2>2, <2>4
<1>7. a..z = G
  <2>1. ASSUME NEW i \in G PROVE i \in a..z
    BY <1>3, <1>4, <1>5
  <2> QED BY <2>1, <1>6
<1>8. a <= z
  BY <1>5
<1> QED BY <1>1, <1>5, <1>7, <1>8 DEF G, a, z

-----------------------------------------------------------------------------
(* The base of a node, and the cells it takes                              *)

LEMMA BaseFacts ==
    ASSUME ElementsInv, CellsInv, NEW f, HasPrefix(f), HasNode(f),
           \E base \in BaseFirst(f)..(BaseHalf - 1) : Fits(base, f) /\ base \notin bases
    PROVE  /\ BaseOf(f) \in -BaseHalf..BaseHalf - 1
           /\ Fits(BaseOf(f), f) /\ BaseOf(f) \notin bases
           /\ \A c \in Codes(f) : BaseOf(f) + c >= 1
<1> DEFINE b0 == BaseFirst(f)
           Good(b) == Fits(b, f) /\ b \notin bases
           code == Code(f.first, f.offset)
<1>1. f.first \in Places(f) /\ code \in 0..Vacant - 1
  BY PlaceFacts
<1>2. f.index \in Nat /\ factor \in Nat \ {0}
  BY DEF HasNode, ElementsInv
<1>3. f.index \div factor \in Nat /\ f.index \div factor <= f.index
  BY <1>2, QuotientIsLess
<1>4. b0 = (f.index - f.index \div factor) - code + 1
  BY DEF BaseFirst, Code, Key
<1>5. b0 \in Int /\ b0 + code >= 1 /\ b0 >= -BaseHalf
  <2> DEFINE d == f.index - f.index \div factor
  <2>1. d \in Nat
    BY <1>2, <1>3
  <2>2. b0 = d - code + 1
    BY <1>4
  <2> HIDE DEF d, b0
  <2>3. code \in Nat /\ code <= BaseHalf /\ BaseHalf \in Nat
    BY <1>1, BaseAssumption, VacantAssumption
  <2> QED BY <2>1, <2>2, <2>3
<1> HIDE DEF b0, code
<1>6. PICK b \in b0..BaseHalf - 1 : Good(b)
  BY DEF b0
<1> HIDE DEF Good
<1> DEFINE T == {k \in Nat : Good(b0 + k)}
<1>7. BaseHalf \in Nat
  BY BaseAssumption
<1>8. b - b0 \in T
  <2>1. b - b0 \in Nat /\ b0 + (b - b0) = b
    BY <1>5, <1>6, <1>7
  <2> QED BY <2>1, <1>6
<1>9. PICK k \in T : \A j \in T : k <= j
  <2>1. T # {} /\ T \subseteq Nat
    BY <1>8
  <2> QED BY <2>1, LeastNumber
<1> DEFINE base == b0 + k
<1>10. base \in b0..BaseHalf - 1 /\ Good(base)
  <2>1. k \in Nat /\ k <= b - b0
    BY <1>8, <1>9
  <2>2. base \in b0..BaseHalf - 1
    BY <2>1, <1>5, <1>6, <1>7
  <2> QED BY <2>2, <1>9
<1>11. ASSUME NEW d \in b0..base - 1 PROVE ~Good(d)
  <2>1. d - b0 \in Nat /\ b0 + (d - b0) = d /\ d - b0 < k
    BY <1>5, <1>9
  <2>2. d - b0 \notin T
    BY <2>1, <1>9
  <2> QED BY <2>1, <2>2
<1>12. \E c \in b0..BaseHalf - 1 : /\ Fits(c, f) /\ c \notin bases
                                   /\ \A d \in b0..c - 1 : ~Fits(d, f) \/ d \in bases
  <2>1. \A d \in b0..base - 1 : ~Fits(d, f) \/ d \in bases
    BY <1>11 DEF Good
  <2>2. Fits(base, f) /\ base \notin bases
    BY <1>10 DEF Good
  <2> HIDE DEF base
  <2> QED BY <2>1, <2>2, <1>10
<1>13. BaseOf(f) \in b0..BaseHalf - 1 /\ Fits(BaseOf(f), f) /\ BaseOf(f) \notin bases
  BY <1>12 DEF BaseOf, b0
<1>14. BaseOf(f) \in -BaseHalf..BaseHalf - 1
  BY <1>13, <1>5, <1>7
<1>15. ASSUME NEW c \in Codes(f) PROVE BaseOf(f) + c >= 1
  <2>1. c \in 0..Vacant - 1 /\ code <= c /\ Vacant \in Nat
    BY CodesFacts, VacantAssumption DEF code
  <2>2. code \in Int
    BY <1>1, VacantAssumption DEF code
  <2> QED BY <2>1, <2>2, <1>13, <1>5, <1>7
<1> QED BY <1>13, <1>14, <1>15

\* The children of a node are cells that have been vacant.
HasChildren(A, B, codes, base) ==
    \A c \in codes : /\ base + c \in DOMAIN B /\ base + c >= 1 /\ B[base + c].check = c
                     /\ base + c \in DOMAIN A => A[base + c].check = Vacant

\* The array B has what the array A has, the base of a node, and its children.
IsExtended(A, B, codes, index, base, value) ==
    /\ \E size \in Nat : DOMAIN B = 0..size
    /\ DOMAIN A \subseteq DOMAIN B
    /\ \A i \in DOMAIN B : B[i] \in CellType
    /\ base \in Int
    /\ HasChildren(A, B, codes, base)
    /\ 0 \in codes => B[base].base = value
    /\ B[index].base = base /\ B[index].check = A[index].check
    /\ \A i \in DOMAIN A : i # index /\ (i = 0 \/ A[i].check # Vacant) => B[i] = A[i]
    /\ \A i \in DOMAIN B : B[i].check # Vacant =>
          \/ i \in DOMAIN A /\ A[i].check = B[i].check
          \/ /\ B[i].check \in codes /\ i = base + B[i].check
             /\ i \in DOMAIN A => A[i].check = Vacant

Added(f) == elements[Least(Group(f, Terminator))].value

\* The array B is the array A and vacant cells, up to one at least.
IsGrown(A, B, last) ==
    /\ \E n \in Nat : DOMAIN B = 0..n
    /\ DOMAIN A \subseteq DOMAIN B /\ 0..last \subseteq DOMAIN B
    /\ \A i \in DOMAIN B : B[i] \in CellType
    /\ \A i \in DOMAIN A : B[i] = A[i]
    /\ \A i \in DOMAIN B : i \notin DOMAIN A => B[i] = VacantCell

LEMMA GrownFacts ==
    ASSUME NEW A, NEW size \in Nat, DOMAIN A = 0..size, \A i \in DOMAIN A : A[i] \in CellType,
           NEW last \in Nat
    PROVE  IsGrown(A, Grown(A, last), last)
<1> DEFINE G == Grown(A, last)
<1>1. /\ DOMAIN G = 0..size \cup 0..last
      /\ \A i \in DOMAIN G : G[i] = IF i \in DOMAIN A THEN A[i] ELSE VacantCell
  BY DEF Grown
<1> HIDE DEF G
<1>2. \E n \in Nat : DOMAIN G = 0..n
  <2>1. CASE size <= last
    <3>1. DOMAIN G = 0..last
      BY <2>1, <1>1
    <3> QED BY <3>1
  <2>2. CASE last <= size
    <3>1. DOMAIN G = 0..size
      BY <2>2, <1>1
    <3> QED BY <3>1
  <2> QED BY <2>1, <2>2
<1>3. VacantCell \in CellType
  <2>1. 0 \in -BaseHalf..BaseHalf - 1 /\ Vacant \in 0..Vacant
    BY BaseAssumption, VacantAssumption
  <2> QED BY <2>1 DEF VacantCell, CellType
<1>4. /\ DOMAIN A \subseteq DOMAIN G /\ 0..last \subseteq DOMAIN G
      /\ \A i \in DOMAIN A : G[i] = A[i]
      /\ \A i \in DOMAIN G : i \notin DOMAIN A => G[i] = VacantCell
  BY <1>1
<1>5. \A i \in DOMAIN G : G[i] \in CellType
  BY <1>1, <1>3
<1>6. IsGrown(A, G, last)
  BY <1>2, <1>4, <1>5 DEF IsGrown
<1> QED BY <1>6 DEF G

LEMMA CellsExtended ==
    ASSUME ElementsInv, CellsInv, NEW f, HasPrefix(f), HasNode(f),
           \E base \in BaseFirst(f)..(BaseHalf - 1) : Fits(base, f) /\ base \notin bases
    PROVE  IsExtended(cells, WithChildren(f, BaseOf(f)), Codes(f), f.index, BaseOf(f), Added(f))
<1> DEFINE base == BaseOf(f)
           codes == Codes(f)
           top == base + Greatest(codes)
           G == Grown(cells, top)
           B == WithChildren(f, base)
           value == Added(f)
<1>1. /\ base \in -BaseHalf..BaseHalf - 1 /\ Fits(base, f)
      /\ \A c \in codes : base + c >= 1
  BY BaseFacts
<1>2. base \in Int /\ Stored(base) = base
  BY <1>1, StoredIs, BaseAssumption
<1>3. /\ codes \in SUBSET (0..Vacant - 1) /\ Vacant \in Nat
      /\ Greatest(codes) \in codes /\ \A c \in codes : c <= Greatest(codes)
  BY CodesFacts, VacantAssumption
<1>4. 0 \in codes => value \in 0..BaseHalf - 1 /\ Stored(value) = value
  <2> SUFFICES ASSUME 0 \in codes PROVE value \in 0..BaseHalf - 1 /\ Stored(value) = value
    OBVIOUS
  <2>1. Least(Group(f, Terminator)) \in DOMAIN elements
    BY GroupFacts, PlaceFacts DEF Terminator
  <2>2. value \in 0..BaseHalf - 1
    BY <2>1, ElementFacts DEF Added
  <2>3. value \in -BaseHalf..BaseHalf - 1
    BY <2>2, BaseAssumption
  <2> QED BY <2>2, <2>3, StoredIs
<1>5. PICK size \in Nat : DOMAIN cells = 0..size
  BY DEF CellsInv
<1>6. \A i \in DOMAIN cells : cells[i] \in CellType
  BY DEF CellsInv
<1> HIDE DEF base, codes
<1>7. top \in Nat /\ \A c \in codes : base + c \in 0..top
  <2> DEFINE g == Greatest(codes)
  <2>0. top = base + g
    OBVIOUS
  <2> HIDE DEF g, top
  <2>1. g \in Int /\ base + g >= 1 /\ top = base + g
    <3>1. g \in codes
      BY <1>3 DEF g
    <3> QED BY <3>1, <2>0, <1>1, <1>3
  <2>2. top \in Nat
    BY <2>1, <1>2
  <2>3. ASSUME NEW c \in codes PROVE base + c \in 0..top
    <3>1. c \in Int /\ c <= g /\ base + c >= 1
      BY <1>1, <1>3 DEF g
    <3> QED BY <3>1, <2>1, <2>2, <1>2
  <2> QED BY <2>2, <2>3
<1> HIDE DEF top
<1>8. /\ \E n \in Nat : DOMAIN G = 0..n
      /\ DOMAIN cells \subseteq DOMAIN G /\ 0..top \subseteq DOMAIN G
      /\ \A i \in DOMAIN G : G[i] \in CellType
      /\ \A i \in DOMAIN cells : G[i] = cells[i]
      /\ \A i \in DOMAIN G : i \notin DOMAIN cells => G[i] = VacantCell
  <2>1. IsGrown(cells, G, top)
    BY <1>5, <1>6, <1>7, GrownFacts
  <2> QED BY <2>1 DEF IsGrown
<1>9. B = [i \in DOMAIN G |->
             IF i = f.index THEN [G[i] EXCEPT !.base = base]
             ELSE IF i - base \notin codes THEN G[i]
             ELSE [base |-> IF i - base = 0 THEN Stored(value) ELSE G[i].base,
                   check |-> i - base]]
  BY <1>2 DEF WithChildren, G, top, base, codes, value, Added, Terminator
<1> HIDE DEF G, B, value
<1>10. DOMAIN B = DOMAIN G
  BY <1>9
<1>11. f.index \in DOMAIN cells /\ f.index \in Nat
       /\ (f.index # 0 => cells[f.index].check # Vacant)
  BY DEF HasNode
<1>12. \A c \in codes : /\ base + c \in DOMAIN G /\ base + c >= 1 /\ (base + c) - base = c /\ base + c # f.index
                        /\ base + c \in DOMAIN cells => cells[base + c].check = Vacant
  <2> TAKE c \in codes
  <2>1. base + c \in DOMAIN G /\ (base + c) - base = c /\ base + c >= 1
    BY <1>1, <1>2, <1>3, <1>7, <1>8
  <2>2. base + c \in DOMAIN cells => cells[base + c].check = Vacant
    BY <1>1 DEF Fits, CheckAt, codes
  <2>3. base + c # f.index
    BY <2>1, <2>2, <1>11
  <2> QED BY <2>1, <2>2, <2>3
<1>13. ASSUME NEW c \in codes
       PROVE  /\ B[base + c] = [base |-> IF c = 0 THEN Stored(value) ELSE G[base + c].base, check |-> c]
              /\ B[base + c] \in CellType
  <2>1. B[base + c] = [base |-> IF c = 0 THEN Stored(value) ELSE G[base + c].base, check |-> c]
    BY <1>9, <1>12
  <2>2. c \in 0..Vacant
    BY <1>3
  <2>3. G[base + c].base \in -BaseHalf..BaseHalf - 1
    BY <1>8, <1>12 DEF CellType
  <2>4. c = 0 => Stored(value) \in -BaseHalf..BaseHalf - 1
    BY <1>4, BaseAssumption
  <2> QED BY <2>1, <2>2, <2>3, <2>4 DEF CellType
<1>14. B[f.index] = [base |-> base, check |-> cells[f.index].check] /\ B[f.index] \in CellType
  <2>1. f.index \in DOMAIN G /\ G[f.index] = cells[f.index] /\ G[f.index] \in CellType
    BY <1>8, <1>11
  <2>2. B[f.index] = [G[f.index] EXCEPT !.base = base]
    BY <2>1, <1>9
  <2> QED BY <2>1, <2>2, <1>1 DEF CellType
<1>15. \A i \in DOMAIN G : i # f.index /\ i - base \notin codes => B[i] = G[i]
  BY <1>9
<1>16. ASSUME NEW i \in DOMAIN G, i - base \in codes PROVE \E c \in codes : i = base + c /\ i - base = c
  <2>1. i \in Int
    BY <1>8
  <2>2. i = base + (i - base)
    BY <2>1, <1>2
  <2> QED BY <2>2, <1>16
<1>17. ASSUME NEW i \in DOMAIN B PROVE B[i] \in CellType
  <2>1. CASE i = f.index
    BY <2>1, <1>14
  <2>2. CASE i # f.index /\ i - base \in codes
    BY <2>2, <1>10, <1>13, <1>16
  <2>3. CASE i # f.index /\ i - base \notin codes
    BY <2>3, <1>8, <1>10, <1>15
  <2> QED BY <2>1, <2>2, <2>3
<1>18. 0 \in codes => B[base].base = value
  <2> SUFFICES ASSUME 0 \in codes PROVE B[base].base = value
    OBVIOUS
  <2>1. base + 0 = base
    BY <1>2
  <2>2. B[base + 0] = [base |-> Stored(value), check |-> 0]
    BY <1>13
  <2> QED BY <2>1, <2>2, <1>4
<1>19. ASSUME NEW i \in DOMAIN cells, i # f.index, i = 0 \/ cells[i].check # Vacant
       PROVE  B[i] = cells[i]
  <2>1. i \in DOMAIN G /\ G[i] = cells[i]
    BY <1>8
  <2>2. i - base \notin codes
    <3> SUFFICES ASSUME i - base \in codes PROVE FALSE
      OBVIOUS
    <3>1. PICK c \in codes : i = base + c
      BY <2>1, <1>16
    <3>2. i >= 1 /\ cells[i].check = Vacant
      BY <3>1, <1>12
    <3> QED BY <3>2, <1>19
  <2> QED BY <2>1, <2>2, <1>15, <1>19
<1>20. ASSUME NEW i \in DOMAIN B, B[i].check # Vacant
       PROVE  \/ i \in DOMAIN cells /\ cells[i].check = B[i].check
              \/ /\ B[i].check \in codes /\ i = base + B[i].check
                 /\ i \in DOMAIN cells => cells[i].check = Vacant
  <2>1. CASE i = f.index
    BY <2>1, <1>11, <1>14
  <2>2. CASE i # f.index /\ i - base \in codes
    <3>1. PICK c \in codes : i = base + c
      BY <2>2, <1>10, <1>16
    <3>2. B[i].check = c
      <4>1. B[base + c] = [base |-> IF c = 0 THEN Stored(value) ELSE G[base + c].base, check |-> c]
        BY <1>13
      <4> QED BY <3>1, <4>1
    <3> QED BY <3>1, <3>2, <1>12
  <2>3. CASE i # f.index /\ i - base \notin codes
    <3>1. B[i] = G[i]
      BY <2>3, <1>10, <1>15
    <3>2. i \in DOMAIN cells
      BY <3>1, <1>8, <1>10, <1>20 DEF VacantCell
    <3> QED BY <3>1, <3>2, <1>8
  <2> QED BY <2>1, <2>2, <2>3
<1>21. IsExtended(cells, B, codes, f.index, base, value)
  <2>1. (\E n \in Nat : DOMAIN B = 0..n) /\ DOMAIN cells \subseteq DOMAIN B
    BY <1>8, <1>10
  <2>2. \A c \in codes : /\ base + c \in DOMAIN B /\ base + c >= 1 /\ B[base + c].check = c
                         /\ base + c \in DOMAIN cells => cells[base + c].check = Vacant
    <3> TAKE c \in codes
    <3>1. B[base + c] = [base |-> IF c = 0 THEN Stored(value) ELSE G[base + c].base, check |-> c]
      BY <1>13
    <3> QED BY <3>1, <1>10, <1>12
  <2>3. B[f.index].base = base /\ B[f.index].check = cells[f.index].check
    BY <1>14
  <2>4. HasChildren(cells, B, codes, base)
    BY <2>2 DEF HasChildren
  <2> QED BY <2>1, <2>3, <2>4, <1>2, <1>17, <1>18, <1>19, <1>20 DEF IsExtended
<1> QED BY <1>21 DEF B, codes, base, value

-----------------------------------------------------------------------------
(* The calls that are left                                                 *)

ChildFrame(f, base, c) ==
    Frame(Least(Group(f, c)), Greatest(Group(f, c)), f.offset + 1, base + c)

LEMMA ChildHasPrefix ==
    ASSUME ElementsInv, NEW f, HasPrefix(f), NEW c \in Codes(f) \ {Terminator}, NEW base
    PROVE  /\ HasPrefix(ChildFrame(f, base, c))
           /\ \A i : i \in Places(ChildFrame(f, base, c)) <=> i \in Places(f) /\ Code(i, f.offset) = c
<1> DEFINE g == ChildFrame(f, base, c)
           a == Least(Group(f, c))
<1>1. g.first = a /\ g.last = Greatest(Group(f, c)) /\ g.offset = f.offset + 1
  BY DEF ChildFrame, Frame
<1>2. \A i : i \in Places(g) <=> i \in Places(f) /\ Code(i, f.offset) = c
  BY <1>1, GroupFacts DEF Places
<1>3. a \in Places(f) /\ Code(a, f.offset) = c /\ g.last \in Places(f) /\ g.first <= g.last
  BY <1>1, GroupFacts
<1> HIDE DEF g, a
<1>4. f.offset \in Nat /\ Key(a) \in KeySet /\ f.offset <= Len(Key(a)) /\ Len(Key(a)) \in Nat
  BY <1>3, PlaceFacts, CodeFacts DEF HasPrefix
<1>5. g.offset \in Nat /\ g.offset <= Len(Key(a))
  <2>1. f.offset < Len(Key(a))
    <3> SUFFICES ASSUME f.offset >= Len(Key(a)) PROVE FALSE
      BY <1>4
    <3>1. Code(a, f.offset) = 0
      BY <1>4, CodeFacts DEF Code
    <3> QED BY <3>1, <1>3 DEF Terminator
  <2> QED BY <2>1, <1>1, <1>4
<1>6. ASSUME NEW i \in DOMAIN elements
      PROVE  i \in Places(g) <=> AgreeTo(Key(a), Key(i), f.offset + 1)
  <2>1. AgreeTo(Key(f.first), Key(a), f.offset)
    BY <1>3, PlaceFacts
  <2>2. i \in Places(f) <=> AgreeTo(Key(f.first), Key(i), f.offset)
    BY DEF HasPrefix
  <2>3. AgreeTo(Key(f.first), Key(i), f.offset) <=> AgreeTo(Key(a), Key(i), f.offset)
    BY <2>1, Agreement
  <2>4. AgreeTo(Key(a), Key(i), f.offset + 1)
        <=> AgreeTo(Key(a), Key(i), f.offset) /\ Code(a, f.offset) = Code(i, f.offset)
    BY <1>4, AgreementNext DEF Code
  <2> QED BY <2>2, <2>3, <2>4, <1>2, <1>3
<1>7. HasPrefix(g)
  BY <1>1, <1>3, <1>5, <1>6, PlaceFacts DEF HasPrefix
<1> QED BY <1>2, <1>7 DEF g

LEMMA SeqOfMore ==
    ASSUME NEW S, NEW T, S \subseteq T, NEW s \in Seq(S)
    PROVE  s \in Seq(T)
<1>1. Len(s) \in Nat /\ s \in [1..Len(s) -> S]
  BY LenProperties
<1>2. s \in [1..Len(s) -> T]
  BY <1>1
<1> QED BY <1>1, <1>2, FunctionIsSeq

\* Of the calls that are left after one the first ones are for its children, each
\* along another character, and the others have been there before.
IsCalled(fs, gs, f, base, k, codes) ==
    /\ \E S : fs \in Seq(S)
    /\ k \in Nat
    /\ \A n \in DOMAIN fs : n \in Nat /\ n >= 1
    /\ \A n \in DOMAIN fs : n <= k =>
          codes[n] \in Codes(f) \ {Terminator} /\ fs[n] = ChildFrame(f, base, codes[n])
    /\ \A m, n \in DOMAIN fs : m <= k /\ n <= k /\ m # n => codes[m] # codes[n]
    /\ \A c \in Codes(f) \ {Terminator} : \E n \in DOMAIN fs : n <= k /\ codes[n] = c
    /\ \A n \in DOMAIN fs : n > k =>
          (n - k) + 1 \in DOMAIN gs /\ (n - k) + 1 # 1 /\ fs[n] = gs[(n - k) + 1]
    /\ \A m \in DOMAIN gs : m # 1 => \E n \in DOMAIN fs : n > k /\ fs[n] = gs[m]

LEMMA FramesCalled ==
    ASSUME ElementsInv, NEW S, NEW gs \in Seq(S), gs # <<>>, NEW base, HasPrefix(Head(gs))
    PROVE  \E k, codes : IsCalled(FramesBelow(Head(gs), base) \o Tail(gs), gs, Head(gs), base, k, codes)
<1> DEFINE f == Head(gs)
           T == Codes(f) \ {Terminator}
           codes == InOrder(T)
           k == Cardinality(T)
           below == FramesBelow(f, base)
           fs == below \o Tail(gs)
<1>1. T \in SUBSET Int /\ IsFiniteSet(T)
  <2>1. T \in SUBSET (0..Vacant - 1)
    BY CodesFacts
  <2>2. IsFiniteSet(0..Vacant - 1)
    <3>1. Vacant - 1 \in Int
      BY VacantAssumption
    <3> QED BY <3>1, FS_Interval
  <2>3. 0..Vacant - 1 \in SUBSET Int
    BY VacantAssumption
  <2> HIDE DEF T
  <2>4. IsFiniteSet(T)
    BY <2>1, <2>2, FS_Subset
  <2>5. T \in SUBSET Int
    BY <2>1, <2>3
  <2> QED BY <2>4, <2>5
<1>2. k \in Nat /\ IsInOrder(codes, T)
  BY <1>1, InOrderProperties
<1>3. below = [n \in DOMAIN codes |-> ChildFrame(f, base, codes[n])]
  BY DEF FramesBelow, ChildFrame
<1> HIDE DEF codes, k, T, below, f
<1>4. /\ DOMAIN codes = 1..k /\ \A n \in 1..k : codes[n] \in T
      /\ \A c \in T : \E n \in 1..k : codes[n] = c
      /\ \A m, n \in 1..k : m < n => codes[m] < codes[n]
  BY <1>2 DEF IsInOrder, k
<1>5. /\ Tail(gs) \in Seq(S) /\ Len(gs) \in Nat /\ DOMAIN gs = 1..Len(gs)
      /\ Len(Tail(gs)) = Len(gs) - 1 /\ \A i \in 1..Len(Tail(gs)) : Tail(gs)[i] = gs[i + 1]
  BY HeadTailProperties, LenProperties
<1> DEFINE Made == {ChildFrame(f, base, c) : c \in T}
           All == S \cup Made
<1>6. below \in Seq(Made) /\ Len(below) = k
  <2>1. below \in [1..k -> Made]
    BY <1>3, <1>4
  <2> QED BY <2>1, <1>2, FunctionIsSeq
<1>7. below \in Seq(All) /\ Tail(gs) \in Seq(All)
  <2>1. S \subseteq All /\ Made \subseteq All
    OBVIOUS
  <2> HIDE DEF All, Made
  <2> QED BY <2>1, <1>5, <1>6, SeqOfMore
<1>8. fs \in Seq(All) /\ IsJoin(fs, below, Tail(gs))
  BY <1>7, JoinProperties
<1>9. DOMAIN fs = 1..Len(fs) /\ Len(fs) \in Nat
  BY <1>8, LenProperties
<1> HIDE DEF fs, Made, All
<1> DEFINE rest == Tail(gs)
<1> HIDE DEF rest
<1>10. /\ Len(rest) \in Nat /\ Len(rest) = Len(gs) - 1 /\ Len(fs) = k + Len(rest)
       /\ \A i \in 1..k : fs[i] = below[i]
       /\ \A i \in 1..Len(rest) : fs[k + i] = rest[i] /\ rest[i] = gs[i + 1]
  BY <1>5, <1>6, <1>8, LenProperties DEF IsJoin, rest
<1>11. \A n \in DOMAIN fs : n \in Nat /\ n >= 1
  BY <1>9
<1>12. \A n \in DOMAIN fs : n <= k => n \in 1..k
  BY <1>2, <1>9
<1>13. \A n \in 1..k : n \in DOMAIN fs /\ n <= k
  BY <1>2, <1>9, <1>10
<1>14. ASSUME NEW n \in DOMAIN fs, n <= k
       PROVE  codes[n] \in T /\ fs[n] = ChildFrame(f, base, codes[n])
  BY <1>3, <1>4, <1>10, <1>12, <1>14
<1>15. ASSUME NEW m \in DOMAIN fs, NEW n \in DOMAIN fs, m <= k, n <= k, m # n
       PROVE  codes[m] # codes[n]
  <2>1. m \in 1..k /\ n \in 1..k /\ (m < n \/ n < m)
    BY <1>11, <1>12, <1>15
  <2>2. codes[m] \in Int /\ codes[n] \in Int
    BY <2>1, <1>1, <1>4
  <2> QED BY <2>1, <2>2, <1>4
<1>16. \A c \in T : \E n \in DOMAIN fs : n <= k /\ codes[n] = c
  BY <1>4, <1>13
<1>17. ASSUME NEW n \in DOMAIN fs, n > k
       PROVE  (n - k) + 1 \in DOMAIN gs /\ (n - k) + 1 # 1 /\ fs[n] = gs[(n - k) + 1]
  <2> DEFINE i == n - k
  <2>1. i \in 1..Len(rest) /\ k + i = n
    BY <1>2, <1>9, <1>10, <1>17
  <2>2. i + 1 \in DOMAIN gs /\ i + 1 # 1
    BY <2>1, <1>5, <1>10
  <2> HIDE DEF i
  <2>3. fs[n] = gs[i + 1]
    BY <2>1, <1>10
  <2> QED BY <2>2, <2>3 DEF i
<1>18. ASSUME NEW m \in DOMAIN gs, m # 1 PROVE \E n \in DOMAIN fs : n > k /\ fs[n] = gs[m]
  <2> DEFINE i == m - 1
  <2>1. i \in 1..Len(rest) /\ i + 1 = m /\ k + i > k /\ k + i \in 1..Len(fs)
    BY <1>2, <1>5, <1>9, <1>10, <1>18
  <2> HIDE DEF i
  <2>2. fs[k + i] = gs[m]
    BY <2>1, <1>10
  <2> QED BY <2>1, <2>2, <1>9
<1>19. \E X : fs \in Seq(X)
  BY <1>8
<1>20. IsCalled(fs, gs, f, base, k, codes)
  BY <1>2, <1>11, <1>14, <1>15, <1>16, <1>17, <1>18, <1>19 DEF IsCalled, T
<1> QED BY <1>20 DEF fs, f, below

-----------------------------------------------------------------------------
(* One call of build_iter()                                                *)

\* What a call does.
IsStep ==
    LET f == Head(frames)
        base == BaseOf(f)
    IN  /\ frames # <<>> /\ f = frames[1] /\ 1 \in DOMAIN frames
        /\ HasPrefix(f) /\ HasNode(f)
        /\ base \in -BaseHalf..BaseHalf - 1 /\ base \notin bases
        /\ IsExtended(cells, cells', Codes(f), f.index, base, Added(f))
        /\ \E k, codes : IsCalled(frames', frames, f, base, k, codes)
        /\ bases' = bases \cup {base}
        /\ elements' = elements /\ factor' = factor

LEMMA BuildIterIsStep ==
    ASSUME ElementsInv, FramesInv, CellsInv, HasRoom, BuildIter
    PROVE  IsStep
<1> DEFINE f == Head(frames)
           base == BaseOf(f)
<1>1. /\ frames # <<>> /\ elements' = elements /\ factor' = factor /\ bases' = bases \cup {base}
      /\ cells' = WithChildren(f, base) /\ frames' = FramesBelow(f, base) \o Tail(frames)
  BY DEF BuildIter
<1>2. PICK S : frames \in Seq(S)
  BY DEF FramesInv
<1>3. f = frames[1] /\ 1 \in DOMAIN frames
  <2>1. Len(frames) \in Nat /\ Len(frames) # 0 /\ DOMAIN frames = 1..Len(frames)
    BY <1>1, <1>2, EmptySeq, LenProperties
  <2> QED BY <2>1
<1>4. HasPrefix(f) /\ HasNode(f)
  BY <1>3 DEF FramesInv
<1>5. \E b \in BaseFirst(f)..(BaseHalf - 1) : Fits(b, f) /\ b \notin bases
  BY <1>1 DEF HasRoom
<1>6. base \in -BaseHalf..BaseHalf - 1 /\ base \notin bases
  BY <1>4, <1>5, BaseFacts
<1>7. IsExtended(cells, WithChildren(f, base), Codes(f), f.index, base, Added(f))
  BY <1>4, <1>5, CellsExtended
<1>8. \E k, codes : IsCalled(FramesBelow(f, base) \o Tail(frames), frames, f, base, k, codes)
  BY <1>1, <1>2, <1>4, FramesCalled
<1> QED BY <1>1, <1>3, <1>4, <1>6, <1>7, <1>8 DEF IsStep

\* The node of the call has got its base, and no other node is new.
LEMMA InnerGrows ==
    ASSUME ElementsInv, FramesInv, CellsInv, IsStep
    PROVE  \A i : i \in Inner' <=> i \in Inner \/ i = Head(frames).index
<1> DEFINE f == Head(frames)
           base == BaseOf(f)
           A == cells
           B == cells'
<1>1. /\ f = frames[1] /\ 1 \in DOMAIN frames /\ HasNode(f)
      /\ IsExtended(A, B, Codes(f), f.index, base, Added(f))
  BY DEF IsStep
<1>2. PICK k, codes : IsCalled(frames', frames, f, base, k, codes)
  BY DEF IsStep
<1>3. /\ \A i \in DOMAIN A : i \in Int /\ i >= 0
      /\ A[0].check = Vacant /\ 0 \in DOMAIN A
  BY DEF CellsInv
<1>4. ASSUME NEW n \in DOMAIN frames'
      PROVE  \/ \E c \in Codes(f) \ {Terminator} : frames'[n].index = base + c
             \/ \E m \in DOMAIN frames : m # 1 /\ frames'[n] = frames[m]
  <2>1. k \in Nat /\ n \in Nat
    BY <1>2 DEF IsCalled
  <2>2. CASE n <= k
    <3>1. codes[n] \in Codes(f) \ {Terminator} /\ frames'[n] = ChildFrame(f, base, codes[n])
      BY <1>2, <2>2 DEF IsCalled
    <3> QED BY <3>1 DEF ChildFrame, Frame
  <2>3. CASE n > k
    BY <1>2, <2>3 DEF IsCalled
  <2> QED BY <2>1, <2>2, <2>3
<1>5. \A c \in Codes(f) \ {Terminator} : \E n \in DOMAIN frames' : frames'[n].index = base + c
  <2> TAKE c \in Codes(f) \ {Terminator}
  <2>1. PICK n \in DOMAIN frames' : n <= k /\ codes[n] = c
    BY <1>2 DEF IsCalled
  <2>2. frames'[n] = ChildFrame(f, base, c)
    BY <1>2, <2>1 DEF IsCalled
  <2> QED BY <2>2 DEF ChildFrame, Frame
<1>6. \A m \in DOMAIN frames : m # 1 => \E n \in DOMAIN frames' : frames'[n] = frames[m]
  BY <1>2 DEF IsCalled
<1>7. \A m \in DOMAIN frames : m # 1 => frames[m].index # f.index
  BY <1>1 DEF FramesInv
<1>8. \A c \in Codes(f) : base + c >= 1 /\ (base + c \in DOMAIN A => A[base + c].check = Vacant)
  <2>1. \A c \in Codes(f) : c \in Int
    BY CodesFacts DEF IsStep
  <2>2. base \in Int /\ HasChildren(A, B, Codes(f), base)
    BY <1>1 DEF IsExtended
  <2> HIDE DEF f, base, A, B
  <2> QED BY <2>1, <2>2 DEF HasChildren
<1>9. f.index \in DOMAIN A /\ (f.index = 0 \/ A[f.index].check \notin {Vacant, Terminator})
  BY <1>1 DEF HasNode
<1>10. \A i \in DOMAIN A : i = 0 \/ A[i].check # Vacant => \A c \in Codes(f) : i # base + c
  BY <1>3, <1>8
<1>11. /\ DOMAIN A \subseteq DOMAIN B /\ B[f.index].check = A[f.index].check
       /\ \A i \in DOMAIN A : i # f.index /\ (i = 0 \/ A[i].check # Vacant) => B[i] = A[i]
       /\ \A i \in DOMAIN B : B[i].check # Vacant =>
             \/ i \in DOMAIN A /\ A[i].check = B[i].check
             \/ B[i].check \in Codes(f) /\ i = base + B[i].check
  BY <1>1 DEF IsExtended
<1> DEFINE OldNode(i) == i \in DOMAIN A /\ (i = 0 \/ A[i].check \notin {Vacant, Terminator})
           NewNode(i) == i \in DOMAIN B /\ (i = 0 \/ B[i].check \notin {Vacant, Terminator})
           OldCall(i) == \E n \in DOMAIN frames : frames[n].index = i
           NewCall(i) == \E n \in DOMAIN frames' : frames'[n].index = i
<1>12. \A i : /\ i \in Inner <=> OldNode(i) /\ ~OldCall(i)
              /\ i \in Inner' <=> NewNode(i) /\ ~NewCall(i)
  BY DEF Inner
<1> HIDE DEF f, base, A, B
<1>13. ASSUME NEW i, OldNode(i) PROVE NewNode(i)
  BY <1>11, <1>13
<1>14. ASSUME NEW i, OldNode(i), ~OldCall(i) \/ i = f.index PROVE ~NewCall(i)
  <2> SUFFICES ASSUME NEW n \in DOMAIN frames', frames'[n].index = i PROVE FALSE
    OBVIOUS
  <2>1. CASE \E c \in Codes(f) \ {Terminator} : frames'[n].index = base + c
    BY <2>1, <1>10, <1>14
  <2>2. CASE \E m \in DOMAIN frames : m # 1 /\ frames'[n] = frames[m]
    BY <2>2, <1>7, <1>14
  <2> QED BY <2>1, <2>2, <1>4
<1>15. ASSUME NEW i, NewNode(i), ~NewCall(i) PROVE OldNode(i) /\ (~OldCall(i) \/ i = f.index)
  <2>1. OldNode(i)
    <3>1. CASE i = 0
      BY <3>1, <1>3
    <3>2. CASE i # 0
      <4>1. B[i].check # Vacant /\ B[i].check # Terminator /\ i \in DOMAIN B
        BY <3>2, <1>15
      <4>2. ~(B[i].check \in Codes(f) /\ i = base + B[i].check)
        BY <4>1, <1>5, <1>15
      <4> QED BY <4>1, <4>2, <1>11
    <3> QED BY <3>1, <3>2
  <2>2. ASSUME NEW m \in DOMAIN frames, frames[m].index = i, i # f.index PROVE FALSE
    <3>1. m # 1
      BY <2>2, <1>1 DEF f
    <3> QED BY <3>1, <2>2, <1>6, <1>15
  <2> QED BY <2>1, <2>2
<1>16. OldNode(f.index)
  BY <1>9
<1> HIDE DEF OldNode, NewNode, OldCall, NewCall
<1>17. \A i : i \in Inner' <=> i \in Inner \/ i = f.index
  BY <1>12, <1>13, <1>14, <1>15, <1>16
<1> QED BY <1>17 DEF f

LEMMA FramesKept ==
    ASSUME ElementsInv, FramesInv, CellsInv, IsStep
    PROVE  FramesInv'
<1> DEFINE f == Head(frames)
           base == BaseOf(f)
           A == cells
           B == cells'
           Child0(c) == ChildFrame(f, base, c)
<1>1. /\ f = frames[1] /\ 1 \in DOMAIN frames /\ HasPrefix(f) /\ elements' = elements
      /\ IsExtended(A, B, Codes(f), f.index, base, Added(f))
  BY DEF IsStep
<1>2. PICK k, codes : IsCalled(frames', frames, f, base, k, codes)
  BY DEF IsStep
<1>3. /\ \A i \in DOMAIN A : i \in Int
      /\ A[0].check = Vacant
  BY DEF CellsInv
<1>4. /\ \A n \in DOMAIN frames : HasPrefix(frames[n]) /\ HasNode(frames[n])
      /\ \A m, n \in DOMAIN frames : m # n =>
            frames[m].index # frames[n].index /\ Places(frames[m]) \cap Places(frames[n]) = {}
  BY DEF FramesInv
<1>5. \A n \in DOMAIN frames' :
         \/ /\ n <= k /\ codes[n] \in Codes(f) \ {Terminator} /\ frames'[n] = Child0(codes[n])
         \/ /\ ~(n <= k) /\ (n - k) + 1 \in DOMAIN frames /\ (n - k) + 1 # 1
            /\ frames'[n] = frames[(n - k) + 1]
  <2> TAKE n \in DOMAIN frames'
  <2>1. k \in Nat /\ n \in Nat
    BY <1>2 DEF IsCalled
  <2>2. n <= k \/ (n > k /\ ~(n <= k))
    BY <2>1
  <2> HIDE DEF f, base
  <2> QED BY <2>2, <1>2 DEF IsCalled
<1>6. \A m, n \in DOMAIN frames' : m # n /\ ~(m <= k) /\ ~(n <= k) => (m - k) + 1 # (n - k) + 1
  <2>1. k \in Nat /\ \A n \in DOMAIN frames' : n \in Nat
    BY <1>2 DEF IsCalled
  <2> QED BY <2>1
<1>7. \A m, n \in DOMAIN frames' : m <= k /\ n <= k /\ m # n => codes[m] # codes[n]
  BY <1>2 DEF IsCalled
<1> HIDE DEF f, base, A, B
<1>0. \A c \in Codes(f) : /\ base + c \in DOMAIN B /\ base + c >= 1 /\ B[base + c].check = c
                          /\ base + c \in DOMAIN A => A[base + c].check = Vacant
  <2>1. \A c \in Codes(f) : c \in Int
    BY <1>1, CodesFacts
  <2>2. base \in Int /\ HasChildren(A, B, Codes(f), base)
    BY <1>1 DEF IsExtended
  <2> QED BY <2>1, <2>2 DEF HasChildren
<1>8. /\ base \in Int
      /\ DOMAIN A \subseteq DOMAIN B /\ B[f.index].check = A[f.index].check
      /\ \A i \in DOMAIN A : i # f.index /\ (i = 0 \/ A[i].check # Vacant) => B[i] = A[i]
  BY <1>1 DEF IsExtended
<1>9. \A c \in Codes(f) : c \in 0..Vacant - 1
  BY <1>1, CodesFacts
<1>10. ASSUME NEW c \in Codes(f) \ {Terminator}
       PROVE  /\ HasPrefix(Child0(c)) /\ Child0(c).index = base + c
              /\ base + c \in DOMAIN B /\ base + c \in Nat /\ B[base + c].check \notin {Vacant, Terminator}
              /\ \A i : i \in Places(Child0(c)) <=> i \in Places(f) /\ Code(i, f.offset) = c
  <2>1. HasPrefix(Child0(c)) /\ \A i : i \in Places(Child0(c)) <=> i \in Places(f) /\ Code(i, f.offset) = c
    BY <1>1, ChildHasPrefix
  <2>2. Child0(c).index = base + c
    BY DEF ChildFrame, Frame
  <2>3. base + c \in DOMAIN B /\ base + c \in Nat /\ B[base + c].check = c
    BY <1>0, <1>8, <1>9
  <2>4. c # Vacant
    BY <1>9, VacantAssumption
  <2> QED BY <2>1, <2>2, <2>3, <2>4
<1> HIDE DEF Child0
<1>11. ASSUME NEW m \in DOMAIN frames, m # 1
       PROVE  /\ frames[m].index \in DOMAIN B /\ frames[m].index \in Nat
              /\ frames[m].index = 0 \/ B[frames[m].index].check \notin {Vacant, Terminator}
              /\ \A c \in Codes(f) : frames[m].index # base + c
              /\ Places(frames[m]) \cap Places(f) = {}
  <2> DEFINE i == frames[m].index
  <2>1. i \in DOMAIN A /\ i \in Nat /\ (i = 0 \/ A[i].check \notin {Vacant, Terminator})
    BY <1>4 DEF HasNode, A
  <2>2. i # f.index /\ Places(frames[m]) \cap Places(f) = {}
    BY <1>1, <1>4, <1>11
  <2> HIDE DEF i
  <2>3. i \in DOMAIN B /\ B[i] = A[i]
    BY <2>1, <2>2, <1>8
  <2>4. \A c \in Codes(f) : i # base + c
    BY <2>1, <1>0, <1>8
  <2> QED BY <2>1, <2>2, <2>3, <2>4 DEF i
<1>12. ASSUME NEW n \in DOMAIN frames'
       PROVE  /\ HasPrefix(frames'[n])
              /\ frames'[n].index \in DOMAIN B /\ frames'[n].index \in Nat
              /\ frames'[n].index = 0 \/ B[frames'[n].index].check \notin {Vacant, Terminator}
  <2>1. CASE n <= k
    BY <2>1, <1>5, <1>10
  <2>2. CASE ~(n <= k)
    BY <2>2, <1>4, <1>5, <1>11
  <2> QED BY <2>1, <2>2
<1>13. ASSUME NEW m \in DOMAIN frames', NEW n \in DOMAIN frames', m # n
       PROVE  /\ frames'[m].index # frames'[n].index
              /\ Places(frames'[m]) \cap Places(frames'[n]) = {}
  <2>1. CASE m <= k /\ n <= k
    <3>1. codes[m] \in Int /\ codes[n] \in Int /\ base + codes[m] # base + codes[n]
      BY <2>1, <1>5, <1>7, <1>8, <1>9, <1>13
    <3>2. /\ codes[m] \in Codes(f) \ {Terminator} /\ frames'[m] = Child0(codes[m])
          /\ codes[n] \in Codes(f) \ {Terminator} /\ frames'[n] = Child0(codes[n])
          /\ codes[m] # codes[n]
      BY <2>1, <1>5, <1>7, <1>13
    <3> QED BY <3>1, <3>2, <1>10
  <2>2. CASE m <= k /\ ~(n <= k)
    BY <2>2, <1>5, <1>10, <1>11
  <2>3. CASE ~(m <= k) /\ n <= k
    BY <2>3, <1>5, <1>10, <1>11
  <2>4. CASE ~(m <= k) /\ ~(n <= k)
    <3>1. (m - k) + 1 # (n - k) + 1
      BY <2>4, <1>6, <1>13
    <3> QED BY <2>4, <3>1, <1>4, <1>5
  <2> QED BY <2>1, <2>2, <2>3, <2>4
<1>14. \E S : frames' \in Seq(S)
  BY <1>2 DEF IsCalled
<1>15. \A g : HasPrefix(g) => HasPrefix(g)'
  BY <1>1 DEF HasPrefix, Places, Key
<1>16. \A n \in DOMAIN frames' : HasNode(frames[n])'
  BY <1>12 DEF HasNode, B
<1>17. \A n \in DOMAIN frames' : HasPrefix(frames[n])'
  BY <1>12, <1>1 DEF HasPrefix, Places, Key
<1> QED BY <1>13, <1>14, <1>16, <1>17 DEF FramesInv, Places

LEMMA CellsKept ==
    ASSUME ElementsInv, FramesInv, CellsInv, IsStep
    PROVE  CellsInv'
<1> DEFINE f == Head(frames)
           base == BaseOf(f)
           A == cells
           B == cells'
<1>1. /\ HasPrefix(f) /\ HasNode(f) /\ elements' = elements
      /\ base \in -BaseHalf..BaseHalf - 1 /\ base \notin bases /\ bases' = bases \cup {base}
      /\ IsExtended(A, B, Codes(f), f.index, base, Added(f))
  BY DEF IsStep
<1>2. \A i : i \in Inner' <=> i \in Inner \/ i = f.index
  BY InnerGrows
<1>3. /\ \A i \in DOMAIN A : A[i] \in CellType
      /\ 0 \in DOMAIN A /\ A[0].check = Vacant
      /\ bases \subseteq -BaseHalf..BaseHalf - 1
      /\ \A p, q \in Inner : A[p].base = A[q].base => p = q
      /\ \A i \in DOMAIN A : A[i].check # Vacant => \E p \in Inner : A[p].base + A[i].check = i
  BY DEF CellsInv
<1>4. elements # <<>> /\ \A p \in Inner : A[p].base \in bases
  <2>1. elements # <<>>
    <3>1. f.first \in DOMAIN elements
      BY <1>1 DEF HasPrefix
    <3> QED BY <3>1, ElementFacts, EmptySeq
  <2> QED BY <2>1 DEF CellsInv
<1>5. \A i \in Inner : i \in DOMAIN A /\ i # f.index /\ (i = 0 \/ A[i].check # Vacant)
  <2>1. 1 \in DOMAIN frames /\ f = frames[1]
    BY DEF IsStep
  <2> QED BY <2>1 DEF Inner
<1> HIDE DEF f, base, A, B
<1>6. /\ \E size \in Nat : DOMAIN B = 0..size
      /\ DOMAIN A \subseteq DOMAIN B /\ (\A i \in DOMAIN B : B[i] \in CellType)
      /\ B[f.index].base = base /\ B[f.index].check = A[f.index].check
      /\ \A i \in DOMAIN A : i # f.index /\ (i = 0 \/ A[i].check # Vacant) => B[i] = A[i]
      /\ \A i \in DOMAIN B : B[i].check # Vacant =>
            \/ i \in DOMAIN A /\ A[i].check = B[i].check
            \/ B[i].check \in Codes(f) /\ i = base + B[i].check
  BY <1>1 DEF IsExtended
<1>7. \A p \in Inner : B[p] = A[p]
  BY <1>5, <1>6
<1>8. B[0].check = Vacant
  <2>1. CASE f.index = 0
    BY <2>1, <1>3, <1>6
  <2>2. CASE f.index # 0
    BY <2>2, <1>3, <1>6
  <2> QED BY <2>1, <2>2
<1>9. \A p \in Inner' : B[p].base \in bases'
  BY <1>1, <1>2, <1>4, <1>6, <1>7
<1>10. ASSUME NEW p \in Inner', NEW q \in Inner', B[p].base = B[q].base PROVE p = q
  <2>1. CASE p \in Inner /\ q \in Inner
    BY <2>1, <1>3, <1>7, <1>10
  <2>2. CASE p = f.index /\ q \in Inner
    BY <2>2, <1>1, <1>4, <1>6, <1>7, <1>10
  <2>3. CASE p \in Inner /\ q = f.index
    BY <2>3, <1>1, <1>4, <1>6, <1>7, <1>10
  <2>4. CASE p = f.index /\ q = f.index
    BY <2>4
  <2> QED BY <2>1, <2>2, <2>3, <2>4, <1>2
<1>11. ASSUME NEW i \in DOMAIN B, B[i].check # Vacant
       PROVE  \E p \in Inner' : B[p].base + B[i].check = i
  <2>1. CASE i \in DOMAIN A /\ A[i].check = B[i].check
    <3>1. PICK p \in Inner : A[p].base + A[i].check = i
      BY <2>1, <1>3, <1>11
    <3>2. p \in Inner' /\ B[p].base = A[p].base
      BY <1>2, <1>7
    <3> QED BY <2>1, <3>1, <3>2
  <2>2. CASE B[i].check \in Codes(f) /\ i = base + B[i].check
    BY <2>2, <1>2, <1>6
  <2> QED BY <2>1, <2>2, <1>6, <1>11
<1>12. bases' \subseteq -BaseHalf..BaseHalf - 1
  BY <1>1, <1>3
<1> QED BY <1>6, <1>8, <1>9, <1>10, <1>11, <1>12 DEF CellsInv, B

-----------------------------------------------------------------------------
(* The ways of the keys                                                    *)

WayOf(e) == Way(cells, 0, Append(Key(e), Terminator))

\* The way of an element leads to the node of its call, over nodes that have got
\* their bases, and after the last call to a leaf that has its value.
KeysInv ==
    \A e \in DOMAIN elements :
        /\ \A n \in DOMAIN frames : e \in Places(frames[n]) =>
              /\ WayOf(e)[frames[n].offset] = frames[n].index
              /\ \A k \in 0..frames[n].offset - 1 : WayOf(e)[k] \in Inner
        /\ Pending(e) = {} =>
              /\ \A k \in 0..Len(Key(e)) : WayOf(e)[k] \in Inner
              /\ WayOf(e)[Len(Key(e)) + 1] \in DOMAIN cells
              /\ cells[WayOf(e)[Len(Key(e)) + 1]].check = Terminator
              /\ <<cells[WayOf(e)[Len(Key(e)) + 1]].base>> = Expected(Key(e))

\* Every cell in use is on the way of an element, behind nodes that have got their bases.
NodesInv ==
    \A i \in DOMAIN cells : cells[i].check # Vacant =>
        \E e \in DOMAIN elements : \E k \in 1..Len(Key(e)) + 1 :
            WayOf(e)[k] = i /\ \A j \in 0..k - 1 : WayOf(e)[j] \in Inner

\* What is in use in the array A is in the array B, but for one base.
IsKept(A, B, index) ==
    /\ DOMAIN A \subseteq DOMAIN B
    /\ \A i \in DOMAIN A : A[i].check # Vacant => B[i].check = A[i].check
    /\ \A i \in DOMAIN A : i # index /\ (i = 0 \/ A[i].check # Vacant) => B[i] = A[i]

InUse(A, i) == i \in DOMAIN A /\ (i = 0 \/ A[i].check # Vacant)

LEMMA ChildStays ==
    ASSUME NEW A, NEW B, NEW index, IsKept(A, B, index), None \notin DOMAIN A,
           NEW p, InUse(A, p), p # index, NEW c, c # Vacant, Child(A, p, c) \in DOMAIN A
    PROVE  Child(B, p, c) = Child(A, p, c) /\ InUse(A, Child(A, p, c))
<1> DEFINE i == A[p].base + c
<1>1. B[p] = A[p] /\ p # None
  BY DEF IsKept, InUse
<1>2. Child(A, p, c) # None
  OBVIOUS
<1>3. Child(A, p, c) = i /\ i \in DOMAIN A /\ A[i].check = c
  BY <1>1, <1>2 DEF Child
<1> HIDE DEF i
<1>4. i \in DOMAIN B /\ B[i].check = c
  BY <1>3 DEF IsKept
<1>5. B[p].base + c = i
  BY <1>1 DEF i
<1>6. Child(B, p, c) = i
  BY <1>1, <1>4, <1>5 DEF Child
<1> QED BY <1>3, <1>6 DEF InUse

LEMMA WayFacts ==
    ASSUME ElementsInv, NEW e \in DOMAIN elements, NEW array
    PROVE  /\ Len(Key(e)) \in Nat /\ Len(Append(Key(e), Terminator)) = Len(Key(e)) + 1
           /\ IsWay(Way(array, 0, Append(Key(e), Terminator)), array, 0, Append(Key(e), Terminator))
           /\ \A n \in 0..Len(Key(e)) : Append(Key(e), Terminator)[n + 1] = Code(e, n)
           /\ \A n \in Nat : Code(e, n) \in 0..Vacant - 1 /\ Code(e, n) # Vacant
<1> DEFINE a == Key(e)
           b == Append(a, Terminator)
<1>1. a \in KeySet
  BY ElementFacts
<1>2. a \in Seq(Nat) /\ Len(a) \in Nat
  <2>1. 1..Vacant - 1 \subseteq Nat
    BY VacantAssumption
  <2>2. a \in Seq(Nat)
    BY <1>1, <2>1, SeqOfMore DEF KeySet
  <2> QED BY <2>2, LenProperties
<1> HIDE DEF a
<1>3. Len(b) = Len(a) + 1 /\ (\A i \in 1..Len(a) : b[i] = a[i]) /\ b[Len(a) + 1] = Terminator
  <2>1. Terminator \in Nat
    BY DEF Terminator
  <2> QED BY <1>2, <2>1, AppendProperties
<1> HIDE DEF b
<1>4. ASSUME NEW n \in 0..Len(a) PROVE b[n + 1] = CodeAt(a, n)
  <2>1. CASE n = Len(a)
    BY <2>1, <1>2, <1>3 DEF CodeAt
  <2>2. CASE n # Len(a)
    <3>1. n + 1 \in 1..Len(a) /\ n < Len(a)
      BY <2>2, <1>2
    <3> QED BY <3>1, <1>3 DEF CodeAt
  <2> QED BY <2>1, <2>2
<1>5. Len(b) \in Nat
  BY <1>2, <1>3
<1>6. IsWay(Way(array, 0, b), array, 0, b)
  BY <1>5, WayProperties
<1>7. ASSUME NEW n \in Nat PROVE CodeAt(a, n) \in 0..Vacant - 1 /\ CodeAt(a, n) # Vacant
  <2>1. CodeAt(a, n) \in 0..Vacant - 1
    BY <1>1, CodeFacts DEF a
  <2> QED BY <2>1, VacantAssumption
<1> QED BY <1>2, <1>3, <1>4, <1>6, <1>7 DEF a, b, Code

\* What is kept of an array keeps a way through it.
LEMMA WayStays ==
    ASSUME ElementsInv, NEW e \in DOMAIN elements,
           NEW A, NEW B, NEW index, IsKept(A, B, index), None \notin DOMAIN A,
           NEW w, w = Way(A, 0, Append(Key(e), Terminator)),
           NEW m \in Nat, m <= Len(Key(e)) + 1,
           \A k \in 0..m - 1 : InUse(A, w[k]) /\ w[k] # index,
           w[m] \in DOMAIN A
    PROVE  \A k \in 0..m : Way(B, 0, Append(Key(e), Terminator))[k] = w[k]
<1> DEFINE b == Append(Key(e), Terminator)
           v == Way(B, 0, b)
<1>1. /\ Len(Key(e)) \in Nat /\ Len(b) = Len(Key(e)) + 1
      /\ IsWay(w, A, 0, b) /\ IsWay(v, B, 0, b)
      /\ \A n \in 0..Len(Key(e)) : b[n + 1] = Code(e, n)
      /\ \A n \in Nat : Code(e, n) # Vacant
  BY WayFacts
<1> HIDE DEF b, v
<1>2. ASSUME NEW n \in 0..m - 1 PROVE Child(B, w[n], b[n + 1]) = Child(A, w[n], b[n + 1])
  <2>1. n \in Nat /\ n \in 0..Len(Key(e)) /\ n \in 0..Len(b) - 1
    BY <1>1
  <2>2. b[n + 1] # Vacant /\ w[n + 1] = Child(A, w[n], b[n + 1])
    BY <2>1, <1>1 DEF IsWay
  <2>3. w[n + 1] \in DOMAIN A
    <3>1. CASE n + 1 = m
      BY <3>1
    <3>2. CASE n + 1 # m
      <4>1. n + 1 \in 0..m - 1
        BY <3>2
      <4> QED BY <4>1 DEF InUse
    <3> QED BY <3>1, <3>2
  <2> DEFINE c == b[n + 1]
             p == w[n]
  <2>4. InUse(A, p) /\ p # index /\ c # Vacant /\ Child(A, p, c) \in DOMAIN A
    BY <2>2, <2>3
  <2> HIDE DEF c, p
  <2>5. Child(B, p, c) = Child(A, p, c)
    BY <2>4, ChildStays
  <2> QED BY <2>5 DEF c, p
<1>3. \A n \in 0..m : v[n] = w[n]
  <2>1. Len(b) \in Nat /\ m <= Len(b)
    BY <1>1
  <2>2. IsWay(w, A, 0, b) /\ IsWay(v, B, 0, b)
    BY <1>1
  <2>3. SameChildren(w, A, b, B, b, m)
    BY <1>2 DEF SameChildren
  <2>4. SameWay(w, v, m)
    BY <2>1, <2>2, <2>3, WaysAgree
  <2> QED BY <2>4 DEF SameWay
<1> QED BY <1>3 DEF v, b

\* Where a key ends the elements with the prefix of the call have this key, and the
\* first of them is the first with this key at all.
LEMMA ExpectedIsAdded ==
    ASSUME ElementsInv, NEW f, HasPrefix(f), NEW e \in Places(f), Code(e, f.offset) = Terminator
    PROVE  /\ Expected(Key(e)) = <<Added(f)>> /\ f.offset = Len(Key(e))
<1> DEFINE a == Least(Group(f, Terminator))
           off == f.offset
           found == {i \in DOMAIN elements : First(i) /\ elements[i].key = Key(e)}
<1>1. Terminator \in Codes(f)
  BY CodesFacts
<1>2. /\ a \in Places(f) /\ Code(a, off) = Terminator
      /\ \A i : i \in Places(f) /\ Code(i, off) = Terminator => a <= i
  BY <1>1, GroupFacts
<1>3. off \in Nat /\ \A i \in Places(f) : /\ i \in DOMAIN elements /\ Key(i) \in KeySet /\ off <= Len(Key(i))
                                          /\ AgreeTo(Key(f.first), Key(i), off)
  BY PlaceFacts DEF HasPrefix
<1>4. Len(elements) \in Nat /\ DOMAIN elements = 1..Len(elements)
  BY ElementFacts
<1> HIDE DEF a, off
<1>5. ASSUME NEW i \in Places(f), Code(i, off) = Terminator PROVE Len(Key(i)) = off
  <2>1. Len(Key(i)) \in Nat /\ off <= Len(Key(i))
    BY <1>3, CodeFacts
  <2>2. ~(off < Len(Key(i)))
    BY <1>3, <1>5, CodeFacts DEF Code, Terminator
  <2> QED BY <2>1, <2>2, <1>3
<1>6. Key(a) = Key(e)
  <2>1. AgreeTo(Key(a), Key(e), off)
    BY <1>2, <1>3, Agreement
  <2>2. ASSUME NEW k \in Nat PROVE CodeAt(Key(a), k) = CodeAt(Key(e), k)
    <3>1. CASE k \in 0..off - 1
      BY <3>1, <2>1 DEF AgreeTo
    <3>2. CASE k >= off
      <4>1. Len(Key(a)) = off /\ Len(Key(e)) = off
        BY <1>2, <1>5 DEF off
      <4> QED BY <4>1, <3>2, <1>2, <1>3, CodeFacts
    <3> QED BY <3>1, <3>2, <1>3
  <2> QED BY <2>2, <1>2, <1>3, SameCodes
<1>7. ASSUME NEW i \in DOMAIN elements, Key(i) = Key(e) PROVE a <= i
  <2>1. Code(i, off) = Terminator
    BY <1>7 DEF Code, off
  <2>2. AgreeTo(Key(f.first), Key(i), off)
    BY <1>3, <1>7
  <2>3. i \in Places(f)
    BY <2>2 DEF HasPrefix, off
  <2> QED BY <2>1, <2>3, <1>2
<1>8. a \in 1..Len(elements)
  BY <1>2, <1>3, <1>4
<1>9. First(a)
  <2> SUFFICES ASSUME NEW j \in 1..(a - 1), elements[j].key = elements[a].key PROVE FALSE
    BY DEF First
  <2>1. j \in DOMAIN elements /\ ~(a <= j)
    BY <1>4, <1>8
  <2> QED BY <2>1, <1>6, <1>7 DEF Key
<1>10. a \in found
  BY <1>4, <1>6, <1>8, <1>9 DEF Key
<1>11. ASSUME NEW i \in found PROVE i = a
  <2>1. i \in 1..Len(elements) /\ First(i) /\ Key(i) = Key(e) /\ a <= i
    BY <1>4, <1>7 DEF Key
  <2>2. ~(a \in 1..(i - 1))
    BY <2>1, <1>6 DEF First, Key
  <2> QED BY <2>1, <2>2, <1>8
<1>12. Expected(Key(e)) = IF found = {} THEN NoValue ELSE <<elements[CHOOSE i \in found : TRUE].value>>
  BY DEF Expected
<1> HIDE DEF found
<1>13. (CHOOSE i \in found : TRUE) = a
  BY <1>10, <1>11
<1>14. Expected(Key(e)) = <<elements[a].value>>
  BY <1>10, <1>12, <1>13
<1>15. Len(Key(e)) = off
  BY <1>5 DEF off
<1> QED BY <1>14, <1>15 DEF Added, a, off

LEMMA KeysKept ==
    ASSUME ElementsInv, FramesInv, CellsInv, KeysInv, NodesInv, IsStep
    PROVE  KeysInv' /\ NodesInv'
<1> DEFINE f == Head(frames)
           base == BaseOf(f)
           A == cells
           B == cells'
           W(e) == WayOf(e)
           V(e) == Way(B, 0, Append(Key(e), Terminator))
<1>1. /\ f = frames[1] /\ 1 \in DOMAIN frames /\ HasPrefix(f) /\ HasNode(f) /\ elements' = elements
      /\ IsExtended(A, B, Codes(f), f.index, base, Added(f))
  BY DEF IsStep
<1>2. PICK k, codes : IsCalled(frames', frames, f, base, k, codes)
  BY DEF IsStep
<1>3. \A i : i \in Inner' <=> i \in Inner \/ i = f.index
  BY InnerGrows
<1>4. /\ \A m \in DOMAIN frames : HasPrefix(frames[m]) /\ HasNode(frames[m])
      /\ \A m, n \in DOMAIN frames : m # n => Places(frames[m]) \cap Places(frames[n]) = {}
  BY DEF FramesInv
<1>5. None \notin DOMAIN A /\ A[0].check = Vacant
  BY DEF CellsInv, None
<1>6. \A n \in DOMAIN frames' :
         \/ /\ n <= k /\ codes[n] \in Codes(f) \ {Terminator}
            /\ frames'[n] = ChildFrame(f, base, codes[n])
         \/ \E m \in DOMAIN frames : m # 1 /\ frames'[n] = frames[m]
  <2> TAKE n \in DOMAIN frames'
  <2>1. k \in Nat /\ n \in Nat
    BY <1>2 DEF IsCalled
  <2>2. n <= k \/ n > k
    BY <2>1
  <2> HIDE DEF f, base
  <2> QED BY <2>2, <1>2 DEF IsCalled
<1>7. \A m \in DOMAIN frames : m # 1 => \E n \in DOMAIN frames' : frames'[n] = frames[m]
  BY <1>2 DEF IsCalled
<1>8. \A c \in Codes(f) \ {Terminator} : \E n \in DOMAIN frames' : frames'[n] = ChildFrame(f, base, c)
  <2> TAKE c \in Codes(f) \ {Terminator}
  <2>1. PICK n \in DOMAIN frames' : n <= k /\ codes[n] = c
    BY <1>2 DEF IsCalled
  <2> QED BY <2>1, <1>2 DEF IsCalled
<1>9. \A i \in Inner : InUse(A, i) /\ i # f.index
  BY <1>1 DEF Inner, InUse
<1>10. \A e \in DOMAIN elements :
          /\ \A m \in DOMAIN frames : e \in Places(frames[m]) =>
                /\ W(e)[frames[m].offset] = frames[m].index
                /\ \A j \in 0..frames[m].offset - 1 : W(e)[j] \in Inner
          /\ Pending(e) = {} =>
                /\ \A j \in 0..Len(Key(e)) : W(e)[j] \in Inner
                /\ W(e)[Len(Key(e)) + 1] \in DOMAIN A
                /\ A[W(e)[Len(Key(e)) + 1]].check = Terminator
                /\ <<A[W(e)[Len(Key(e)) + 1]].base>> = Expected(Key(e))
  BY DEF KeysInv
<1>24. \A i \in DOMAIN A : A[i].check # Vacant =>
          \E e \in DOMAIN elements : \E j \in 1..Len(Key(e)) + 1 :
              W(e)[j] = i /\ \A l \in 0..j - 1 : W(e)[l] \in Inner
  BY DEF NodesInv
<1>25. \A i \in DOMAIN B : B[i].check # Vacant =>
          \/ i \in DOMAIN A /\ A[i].check = B[i].check
          \/ B[i].check \in Codes(f) /\ i = base + B[i].check
  BY <1>1 DEF IsExtended
<1> HIDE DEF f, base, A, B
<1>11. /\ base \in Int /\ HasChildren(A, B, Codes(f), base)
       /\ Terminator \in Codes(f) => B[base].base = Added(f)
       /\ DOMAIN A \subseteq DOMAIN B /\ B[f.index].base = base /\ B[f.index].check = A[f.index].check
       /\ \A i \in DOMAIN A : i # f.index /\ (i = 0 \/ A[i].check # Vacant) => B[i] = A[i]
  BY <1>1 DEF IsExtended, Terminator
<1>12. IsKept(A, B, f.index)
  <2>1. \A i \in DOMAIN A : A[i].check # Vacant => B[i].check = A[i].check
    BY <1>11
  <2> QED BY <2>1, <1>11 DEF IsKept
<1>13. \A c \in Codes(f) : c \in Int
  BY <1>1, CodesFacts
<1>14. f.index \in DOMAIN A
  BY <1>1 DEF HasNode, A
<1>15. ASSUME NEW c \in Codes(f)
       PROVE  Child(B, f.index, c) = base + c /\ base + c \in DOMAIN B /\ B[base + c].check = c
  <2>1. base + c \in DOMAIN B /\ B[base + c].check = c
    BY <1>11, <1>13 DEF HasChildren
  <2>2. f.index # None
    BY <1>5, <1>14
  <2> QED BY <2>1, <2>2, <1>11 DEF Child
<1>16. ASSUME NEW e \in DOMAIN elements, NEW m \in Nat, m <= Len(Key(e)) + 1,
              \A j \in 0..m - 1 : W(e)[j] \in Inner, W(e)[m] \in DOMAIN A
       PROVE  \A j \in 0..m : V(e)[j] = W(e)[j]
  <2> DEFINE w == W(e)
  <2>1. \A j \in 0..m - 1 : InUse(A, w[j]) /\ w[j] # f.index
    BY <1>9, <1>16
  <2>2. w = Way(A, 0, Append(Key(e), Terminator))
    BY DEF WayOf, A
  <2>3. w[m] \in DOMAIN A
    BY <1>16
  <2> HIDE DEF w
  <2>4. \A j \in 0..m : Way(B, 0, Append(Key(e), Terminator))[j] = w[j]
    BY <2>1, <2>2, <2>3, <1>5, <1>12, <1>16, WayStays
  <2> QED BY <2>4 DEF w
<1>17. \A e \in DOMAIN elements : /\ Len(Key(e)) \in Nat
                                  /\ IsWay(V(e), B, 0, Append(Key(e), Terminator))
                                  /\ Len(Append(Key(e), Terminator)) = Len(Key(e)) + 1
                                  /\ \A n \in 0..Len(Key(e)) : Append(Key(e), Terminator)[n + 1] = Code(e, n)
  BY WayFacts
<1> HIDE DEF W, V
\* The elements of the call go on along their characters.
<1>18. ASSUME NEW e \in Places(f)
       PROVE  /\ e \in DOMAIN elements /\ Code(e, f.offset) \in Codes(f)
              /\ f.offset \in Nat /\ f.offset <= Len(Key(e))
              /\ \A j \in 0..f.offset : V(e)[j] \in Inner'
              /\ V(e)[f.offset + 1] = base + Code(e, f.offset)
  <2> DEFINE off == f.offset
             c == Code(e, f.offset)
  <2>1. e \in DOMAIN elements /\ c \in Codes(f) /\ off \in Nat /\ off <= Len(Key(e))
    BY <1>1, PlaceFacts, CodesFacts DEF HasPrefix
  <2>2. W(e)[off] = f.index /\ \A j \in 0..off - 1 : W(e)[j] \in Inner
    BY <2>1, <1>1, <1>10
  <2>3. Len(Key(e)) \in Nat
    BY <2>1, <1>17
  <2> HIDE DEF off, c
  <2>4. \A j \in 0..off : V(e)[j] = W(e)[j]
    <3>1. off <= Len(Key(e)) + 1
      BY <2>1, <2>3
    <3> QED BY <3>1, <2>1, <2>2, <1>14, <1>16
  <2>5. V(e)[off] = f.index
    BY <2>1, <2>2, <2>4
  <2>6. V(e)[off + 1] = base + c
    <3>1. off \in 0..Len(Append(Key(e), Terminator)) - 1 /\ off \in 0..Len(Key(e))
      BY <2>1, <2>3, <1>17
    <3>2. V(e)[off + 1] = Child(B, V(e)[off], Append(Key(e), Terminator)[off + 1])
      BY <3>1, <2>1, <1>17 DEF IsWay
    <3>3. Append(Key(e), Terminator)[off + 1] = c
      BY <3>1, <2>1, <1>17 DEF c, off
    <3> QED BY <3>2, <3>3, <2>1, <2>5, <1>15
  <2>7. ASSUME NEW j \in 0..off PROVE V(e)[j] \in Inner'
    <3>1. CASE j = off
      BY <3>1, <2>5, <1>3
    <3>2. CASE j # off
      <4>1. j \in 0..off - 1
        BY <3>2, <2>1
      <4> QED BY <4>1, <2>2, <2>4, <1>3
    <3> QED BY <3>1, <3>2
  <2> QED BY <2>1, <2>6, <2>7 DEF off, c
\* The calls that are left after it.
<1>19. ASSUME NEW e \in DOMAIN elements, NEW n \in DOMAIN frames', e \in Places(frames'[n])
       PROVE  /\ V(e)[frames'[n].offset] = frames'[n].index
              /\ \A j \in 0..frames'[n].offset - 1 : V(e)[j] \in Inner'
  <2>1. CASE codes[n] \in Codes(f) \ {Terminator} /\ frames'[n] = ChildFrame(f, base, codes[n])
    <3> DEFINE c == codes[n]
    <3>1. e \in Places(f) /\ Code(e, f.offset) = c
      BY <2>1, <1>1, <1>19, ChildHasPrefix
    <3>2. frames'[n].offset = f.offset + 1 /\ frames'[n].index = base + c
      BY <2>1 DEF ChildFrame, Frame
    <3>3. 0..(f.offset + 1) - 1 = 0..f.offset
      BY <3>1, <1>18
    <3> QED BY <3>1, <3>2, <3>3, <1>18
  <2>2. CASE \E m \in DOMAIN frames : m # 1 /\ frames'[n] = frames[m]
    <3>1. PICK m \in DOMAIN frames : m # 1 /\ frames'[n] = frames[m]
      BY <2>2
    <3> DEFINE g == frames[m]
               off == g.offset
    <3>2. HasPrefix(g) /\ HasNode(g) /\ e \in Places(g)
      BY <3>1, <1>4, <1>19
    <3>3. W(e)[off] = g.index /\ \A j \in 0..off - 1 : W(e)[j] \in Inner
      BY <3>2, <1>10
    <3>4. g.index \in DOMAIN A
      BY <3>2 DEF HasNode, A
    <3>5. off \in Nat /\ off <= Len(Key(e)) /\ Len(Key(e)) \in Nat
      BY <3>2, <1>17, PlaceFacts DEF HasPrefix
    <3>6. frames'[n] = g
      BY <3>1
    <3> HIDE DEF g
    <3> HIDE DEF off
    <3>7. \A j \in 0..off : V(e)[j] = W(e)[j]
      <4>1. off <= Len(Key(e)) + 1
        BY <3>5
      <4> QED BY <4>1, <3>3, <3>4, <3>5, <1>16
    <3>8. V(e)[off] = g.index
      BY <3>3, <3>5, <3>7
    <3>9. \A j \in 0..off - 1 : V(e)[j] \in Inner'
      <4>1. \A j \in 0..off - 1 : j \in 0..off
        BY <3>5
      <4> QED BY <4>1, <3>3, <3>7, <1>3
    <3> QED BY <3>6, <3>8, <3>9 DEF off
  <2> QED BY <2>1, <2>2, <1>6
\* The elements that are in none of them.
<1>20. ASSUME NEW e \in DOMAIN elements, \A n \in DOMAIN frames' : e \notin Places(frames'[n])
       PROVE  /\ \A j \in 0..Len(Key(e)) : V(e)[j] \in Inner'
              /\ V(e)[Len(Key(e)) + 1] \in DOMAIN B
              /\ B[V(e)[Len(Key(e)) + 1]].check = Terminator
              /\ <<B[V(e)[Len(Key(e)) + 1]].base>> = Expected(Key(e))
  <2>1. CASE e \in Places(f)
    <3>1. Code(e, f.offset) = Terminator
      <4> SUFFICES ASSUME Code(e, f.offset) # Terminator PROVE FALSE
        OBVIOUS
      <4>1. Code(e, f.offset) \in Codes(f) \ {Terminator}
        BY <2>1, <1>18
      <4>2. e \in Places(ChildFrame(f, base, Code(e, f.offset)))
        BY <4>1, <2>1, <1>1, ChildHasPrefix
      <4> QED BY <4>1, <4>2, <1>8, <1>20
    <3>2. Expected(Key(e)) = <<Added(f)>> /\ f.offset = Len(Key(e))
      BY <2>1, <3>1, <1>1, ExpectedIsAdded
    <3>3. /\ Terminator \in Codes(f) /\ V(e)[Len(Key(e)) + 1] = base + Terminator
          /\ \A j \in 0..Len(Key(e)) : V(e)[j] \in Inner'
      BY <2>1, <3>1, <3>2, <1>18
    <3>4. base + Terminator = base
      BY <1>11 DEF Terminator
    <3>5. base \in DOMAIN B /\ B[base].check = Terminator /\ B[base].base = Added(f)
      BY <3>3, <3>4, <1>11, <1>15
    <3> QED BY <3>2, <3>3, <3>4, <3>5
  <2>2. CASE e \notin Places(f)
    <3> DEFINE last == Len(Key(e)) + 1
    <3>1. Pending(e) = {}
      <4>1. \A m \in DOMAIN frames : e \notin Places(frames[m])
        BY <2>2, <1>1, <1>7, <1>20
      <4> QED BY <4>1 DEF Pending, Places
    <3>2. /\ \A j \in 0..Len(Key(e)) : W(e)[j] \in Inner
          /\ W(e)[last] \in DOMAIN A /\ A[W(e)[last]].check = Terminator
          /\ <<A[W(e)[last]].base>> = Expected(Key(e))
      BY <3>1, <1>10
    <3>3. Len(Key(e)) \in Nat
      BY <1>17
    <3>4. last \in Nat /\ last <= Len(Key(e)) + 1 /\ 0..last - 1 = 0..Len(Key(e))
      BY <3>3
    <3> HIDE DEF last
    <3>5. \A j \in 0..last : V(e)[j] = W(e)[j]
      BY <3>2, <3>4, <1>16
    <3>6. V(e)[last] = W(e)[last] /\ \A j \in 0..Len(Key(e)) : V(e)[j] \in Inner'
      <4>1. last \in 0..last /\ \A j \in 0..Len(Key(e)) : j \in 0..last
        BY <3>3, <3>4
      <4> QED BY <4>1, <3>2, <3>5, <1>3
    <3> DEFINE i == W(e)[last]
    <3>7. i # f.index
      <4>1. A[f.index].check # Terminator
        <5>1. Terminator # Vacant
          BY VacantAssumption DEF Terminator
        <5> QED BY <5>1, <1>1, <1>5 DEF HasNode, A
      <4> QED BY <4>1, <3>2
    <3>8. i \in DOMAIN A /\ A[i].check # Vacant
      <4>1. Terminator # Vacant
        BY VacantAssumption DEF Terminator
      <4> QED BY <4>1, <3>2
    <3>9. i \in DOMAIN B /\ B[i] = A[i]
      BY <3>7, <3>8, <1>11
    <3> QED BY <3>2, <3>6, <3>9 DEF last
  <2> QED BY <2>1, <2>2
<1>21. \A e : WayOf(e)' = V(e)
  BY <1>1 DEF WayOf, V, B, Key
<1>22. \A e \in DOMAIN elements : Expected(Key(e))' = Expected(Key(e)) /\ Key(e)' = Key(e)
  BY <1>1 DEF Expected, Key, First
<1>23. \A e \in DOMAIN elements : Pending(e)' = {} => \A n \in DOMAIN frames' : e \notin Places(frames'[n])
  BY DEF Pending, Places
<1>26. KeysInv'
  BY <1>1, <1>19, <1>20, <1>21, <1>22, <1>23 DEF KeysInv, Places, B
\* The cells that were in use, and those of the children.
<1>27. ASSUME NEW i \in DOMAIN B, B[i].check # Vacant
       PROVE  \E e \in DOMAIN elements : \E j \in 1..Len(Key(e)) + 1 :
                  V(e)[j] = i /\ \A l \in 0..j - 1 : V(e)[l] \in Inner'
  <2>1. CASE i \in DOMAIN A /\ A[i].check = B[i].check
    <3>0. PICK e \in DOMAIN elements : \E j \in 1..Len(Key(e)) + 1 :
             W(e)[j] = i /\ \A l \in 0..j - 1 : W(e)[l] \in Inner
      BY <2>1, <1>24, <1>27
    <3>1. PICK j \in 1..Len(Key(e)) + 1 : W(e)[j] = i /\ \A l \in 0..j - 1 : W(e)[l] \in Inner
      BY <3>0
    <3>2. Len(Key(e)) \in Nat
      BY <1>17
    <3>3. j \in Nat /\ j <= Len(Key(e)) + 1 /\ j \in 0..j /\ \A l \in 0..j - 1 : l \in 0..j
      BY <3>2
    <3>4. \A l \in 0..j : V(e)[l] = W(e)[l]
      BY <3>1, <3>3, <2>1, <1>16
    <3>5. V(e)[j] = i /\ \A l \in 0..j - 1 : V(e)[l] \in Inner'
      BY <3>1, <3>3, <3>4, <1>3
    <3> QED BY <3>5
  <2>2. CASE B[i].check \in Codes(f) /\ i = base + B[i].check
    <3>1. PICK e \in Places(f) : Code(e, f.offset) = B[i].check
      BY <2>2, <1>1, CodesFacts
    <3> DEFINE off == f.offset
    <3>2. /\ e \in DOMAIN elements /\ off \in Nat /\ off <= Len(Key(e))
          /\ V(e)[off + 1] = i /\ \A l \in 0..off : V(e)[l] \in Inner'
      BY <3>1, <2>2, <1>18
    <3>3. Len(Key(e)) \in Nat
      BY <3>2, <1>17
    <3> HIDE DEF off
    <3>4. off + 1 \in 1..Len(Key(e)) + 1 /\ 0..(off + 1) - 1 = 0..off
      BY <3>2, <3>3
    <3>5. V(e)[off + 1] = i /\ \A l \in 0..(off + 1) - 1 : V(e)[l] \in Inner'
      BY <3>2, <3>4
    <3> QED BY <3>2, <3>4, <3>5
  <2> QED BY <2>1, <2>2, <1>25, <1>27
<1>28. NodesInv'
  BY <1>1, <1>21, <1>22, <1>27 DEF NodesInv, B
<1> QED BY <1>26, <1>28

-----------------------------------------------------------------------------
(* The client                                                              *)

ClientInv ==
    /\ typed \in Tries
    /\ medium \in {"memory", "file"}
    /\ iterator \in {"none", "advancing", "ready", "failed"}
    /\ \E S : stack \in Seq(S) /\ \A s \in S : s >= 0

IInv == KeysFit /\ ElementsInv /\ FramesInv /\ CellsInv /\ KeysInv /\ NodesInv /\ ClientInv

\* Vacant cells behind the others change nothing.
LEMMA GrownKeeps ==
    ASSUME ElementsInv, FramesInv, CellsInv, KeysInv, NodesInv,
           \E last : IsGrown(cells, cells', last), UNCHANGED <<elements, factor, bases, frames>>
    PROVE  (ElementsInv /\ FramesInv /\ CellsInv /\ KeysInv /\ NodesInv)'
<1> DEFINE A == cells
           B == cells'
<1>1. /\ \E n \in Nat : DOMAIN B = 0..n
      /\ DOMAIN A \subseteq DOMAIN B /\ (\A i \in DOMAIN B : B[i] \in CellType)
      /\ \A i \in DOMAIN A : B[i] = A[i]
      /\ \A i \in DOMAIN B : i \notin DOMAIN A => B[i].check = Vacant
  BY DEF IsGrown, VacantCell
<1>2. /\ 0 \in DOMAIN A /\ A[0].check = Vacant /\ None \notin DOMAIN A
      /\ bases \subseteq -BaseHalf..BaseHalf - 1
      /\ elements # <<>> => \A p \in Inner : A[p].base \in bases
      /\ \A p, q \in Inner : A[p].base = A[q].base => p = q
      /\ \A i \in DOMAIN A : A[i].check # Vacant => \E p \in Inner : A[p].base + A[i].check = i
  BY DEF CellsInv, None
<1>3. elements' = elements /\ factor' = factor /\ bases' = bases /\ frames' = frames
  OBVIOUS
<1>4. \A i \in Inner : i \in DOMAIN A /\ (i = 0 \/ A[i].check # Vacant)
  BY DEF Inner
<1>5. \A i : i \in Inner' <=> i \in Inner
  <2>1. ASSUME NEW i PROVE i \in DOMAIN B /\ (i = 0 \/ B[i].check \notin {Vacant, Terminator})
                           <=> i \in DOMAIN A /\ (i = 0 \/ A[i].check \notin {Vacant, Terminator})
    BY <1>1, <1>2
  <2> QED BY <2>1, <1>3 DEF Inner
<1>6. ElementsInv'
  BY <1>3 DEF ElementsInv, Key
<1>7. FramesInv'
  <2>1. \A n \in DOMAIN frames : HasPrefix(frames[n]) /\ HasNode(frames[n])
    BY DEF FramesInv
  <2>2. \A n \in DOMAIN frames : HasPrefix(frames[n])'
    BY <2>1, <1>3 DEF HasPrefix, Places, Key
  <2>3. \A n \in DOMAIN frames : HasNode(frames[n])'
    BY <2>1, <1>1, <1>3 DEF HasNode
  <2>4. /\ \E S : frames \in Seq(S)
        /\ \A m, n \in DOMAIN frames : m # n =>
              /\ frames[m].index # frames[n].index
              /\ Places(frames[m]) \cap Places(frames[n]) = {}
    BY DEF FramesInv
  <2> QED BY <2>2, <2>3, <2>4, <1>3 DEF FramesInv, Places
<1>8. CellsInv'
  <2>1. \A p \in Inner : B[p] = A[p]
    BY <1>1, <1>4
  <2>2. B[0].check = Vacant
    BY <1>1, <1>2
  <2>3. elements # <<>> => \A p \in Inner' : B[p].base \in bases
    BY <2>1, <1>2, <1>5
  <2>4. \A p, q \in Inner' : B[p].base = B[q].base => p = q
    BY <2>1, <1>2, <1>5
  <2>5. ASSUME NEW i \in DOMAIN B, B[i].check # Vacant PROVE \E p \in Inner' : B[p].base + B[i].check = i
    <3>1. i \in DOMAIN A /\ B[i] = A[i]
      BY <2>5, <1>1
    <3>2. PICK p \in Inner : A[p].base + A[i].check = i
      BY <2>5, <3>1, <1>2
    <3>3. p \in Inner' /\ B[p] = A[p]
      BY <2>1, <1>5
    <3> QED BY <3>1, <3>2, <3>3
  <2> QED BY <2>2, <2>3, <2>4, <2>5, <1>1, <1>2, <1>3 DEF CellsInv
<1>9. KeysInv' /\ NodesInv'
  <2> DEFINE W(e) == WayOf(e)
             V(e) == Way(B, 0, Append(Key(e), Terminator))
  <2>1. \A e : WayOf(e)' = V(e)
    BY <1>3 DEF WayOf, Key
  <2>2. \A e : Expected(Key(e))' = Expected(Key(e)) /\ Key(e)' = Key(e) /\ Pending(e)' = Pending(e)
    BY <1>3 DEF Expected, Key, First, Pending
  <2>3. IsKept(A, B, None)
    BY <1>1 DEF IsKept
  <2> HIDE DEF A, B
  <2>4. ASSUME NEW e \in DOMAIN elements, NEW m \in Nat, m <= Len(Key(e)) + 1,
               \A j \in 0..m - 1 : W(e)[j] \in Inner, W(e)[m] \in DOMAIN A
        PROVE  \A j \in 0..m : V(e)[j] = W(e)[j]
    <3> DEFINE w == W(e)
    <3>1. \A j \in 0..m - 1 : InUse(A, w[j]) /\ w[j] # None
      BY <2>4, <1>2, <1>4 DEF InUse
    <3>2. w = Way(A, 0, Append(Key(e), Terminator))
      BY DEF WayOf, A
    <3>3. w[m] \in DOMAIN A
      BY <2>4
    <3> HIDE DEF w
    <3>4. \A j \in 0..m : Way(B, 0, Append(Key(e), Terminator))[j] = w[j]
      BY <3>1, <3>2, <3>3, <2>3, <2>4, <1>2, WayStays
    <3> QED BY <3>4 DEF w
  <2> HIDE DEF W, V
  <2>5. \A e \in DOMAIN elements :
           /\ \A n \in DOMAIN frames : e \in Places(frames[n]) =>
                 /\ W(e)[frames[n].offset] = frames[n].index
                 /\ \A j \in 0..frames[n].offset - 1 : W(e)[j] \in Inner
           /\ Pending(e) = {} =>
                 /\ \A j \in 0..Len(Key(e)) : W(e)[j] \in Inner
                 /\ W(e)[Len(Key(e)) + 1] \in DOMAIN A
                 /\ A[W(e)[Len(Key(e)) + 1]].check = Terminator
                 /\ <<A[W(e)[Len(Key(e)) + 1]].base>> = Expected(Key(e))
    BY DEF KeysInv, W, A
  <2>6. ASSUME NEW e \in DOMAIN elements, NEW n \in DOMAIN frames, e \in Places(frames[n])
        PROVE  /\ V(e)[frames[n].offset] = frames[n].index
               /\ \A j \in 0..frames[n].offset - 1 : V(e)[j] \in Inner'
    <3> DEFINE g == frames[n]
               off == g.offset
    <3>1. HasPrefix(g) /\ HasNode(g)
      BY DEF FramesInv
    <3>2. W(e)[off] = g.index /\ \A j \in 0..off - 1 : W(e)[j] \in Inner
      BY <2>5, <2>6
    <3>3. g.index \in DOMAIN A
      BY <3>1 DEF HasNode, A
    <3>4. off \in Nat /\ off <= Len(Key(e)) /\ Len(Key(e)) \in Nat
      BY <2>6, <3>1, WayFacts, PlaceFacts DEF HasPrefix
    <3> HIDE DEF g
    <3> HIDE DEF off
    <3>5. \A j \in 0..off : V(e)[j] = W(e)[j]
      <4>1. off <= Len(Key(e)) + 1
        BY <3>4
      <4> QED BY <4>1, <3>2, <3>3, <3>4, <2>4
    <3>6. V(e)[off] = g.index /\ \A j \in 0..off - 1 : V(e)[j] \in Inner'
      <4>1. off \in 0..off /\ \A j \in 0..off - 1 : j \in 0..off
        BY <3>4
      <4> QED BY <4>1, <3>2, <3>5, <1>5
    <3> QED BY <3>6 DEF off, g
  <2>7. ASSUME NEW e \in DOMAIN elements, Pending(e) = {}
        PROVE  /\ \A j \in 0..Len(Key(e)) : V(e)[j] \in Inner'
               /\ V(e)[Len(Key(e)) + 1] \in DOMAIN B
               /\ B[V(e)[Len(Key(e)) + 1]].check = Terminator
               /\ <<B[V(e)[Len(Key(e)) + 1]].base>> = Expected(Key(e))
    <3> DEFINE last == Len(Key(e)) + 1
    <3>1. /\ \A j \in 0..Len(Key(e)) : W(e)[j] \in Inner
          /\ W(e)[last] \in DOMAIN A /\ A[W(e)[last]].check = Terminator
          /\ <<A[W(e)[last]].base>> = Expected(Key(e))
      BY <2>5, <2>7
    <3>2. Len(Key(e)) \in Nat
      BY WayFacts
    <3>3. /\ last \in Nat /\ last <= Len(Key(e)) + 1 /\ 0..last - 1 = 0..Len(Key(e))
          /\ last \in 0..last /\ \A j \in 0..Len(Key(e)) : j \in 0..last
      BY <3>2
    <3> HIDE DEF last
    <3>4. \A j \in 0..last : V(e)[j] = W(e)[j]
      BY <3>1, <3>3, <2>4
    <3>5. V(e)[last] = W(e)[last] /\ \A j \in 0..Len(Key(e)) : V(e)[j] \in Inner'
      BY <3>1, <3>3, <3>4, <1>5
    <3>6. W(e)[last] \in DOMAIN B /\ B[W(e)[last]] = A[W(e)[last]]
      BY <3>1, <1>1 DEF A, B
    <3> QED BY <3>1, <3>5, <3>6 DEF last
  <2>8. KeysInv'
    BY <2>1, <2>2, <2>6, <2>7, <1>3 DEF KeysInv, Places, B
  <2>9. \A i \in DOMAIN A : A[i].check # Vacant =>
           \E e \in DOMAIN elements : \E j \in 1..Len(Key(e)) + 1 :
               W(e)[j] = i /\ \A l \in 0..j - 1 : W(e)[l] \in Inner
    BY DEF NodesInv, W, A
  <2>10. ASSUME NEW i \in DOMAIN B, B[i].check # Vacant
         PROVE  \E e \in DOMAIN elements : \E j \in 1..Len(Key(e)) + 1 :
                    V(e)[j] = i /\ \A l \in 0..j - 1 : V(e)[l] \in Inner'
    <3>1. i \in DOMAIN A /\ A[i].check # Vacant
      BY <2>10, <1>1 DEF A, B
    <3>0. PICK e \in DOMAIN elements : \E j \in 1..Len(Key(e)) + 1 :
             W(e)[j] = i /\ \A l \in 0..j - 1 : W(e)[l] \in Inner
      BY <3>1, <2>9
    <3>2. PICK j \in 1..Len(Key(e)) + 1 : W(e)[j] = i /\ \A l \in 0..j - 1 : W(e)[l] \in Inner
      BY <3>0
    <3>3. Len(Key(e)) \in Nat
      BY WayFacts
    <3>4. j \in Nat /\ j <= Len(Key(e)) + 1 /\ j \in 0..j /\ \A l \in 0..j - 1 : l \in 0..j
      BY <3>3
    <3>5. \A l \in 0..j : V(e)[l] = W(e)[l]
      BY <3>1, <3>2, <3>4, <2>4
    <3>6. V(e)[j] = i /\ \A l \in 0..j - 1 : V(e)[l] \in Inner'
      BY <3>2, <3>4, <3>5, <1>5
    <3> QED BY <3>6
  <2>11. NodesInv'
    BY <2>1, <2>2, <2>10, <1>3 DEF NodesInv, B
  <2> QED BY <2>8, <2>11
<1> QED BY <1>6, <1>7, <1>8, <1>9

\* A way that goes astray has no node.
LEMMA WayIsInside ==
    ASSUME NEW A, 0 \in DOMAIN A, NEW key, Len(key) \in Nat
    PROVE  Way(A, 0, key)[Len(key)] = None \/ Way(A, 0, key)[Len(key)] \in DOMAIN A
<1> DEFINE w == Way(A, 0, key)
           T == {n \in Nat : n <= Len(key) => w[n] = None \/ w[n] \in DOMAIN A}
<1>1. IsWay(w, A, 0, key)
  BY WayProperties
<1> HIDE DEF w
<1>2. 0 \in T
  BY <1>1 DEF IsWay
<1>3. ASSUME NEW n \in Nat, n \in T PROVE n + 1 \in T
  <2> SUFFICES ASSUME n + 1 <= Len(key) PROVE w[n + 1] = None \/ w[n + 1] \in DOMAIN A
    OBVIOUS
  <2>1. w[n + 1] = Child(A, w[n], key[n + 1])
    BY <1>1 DEF IsWay
  <2> QED BY <2>1 DEF Child
<1>4. Nat \subseteq T
  <2> HIDE DEF T
  <2> QED BY <1>2, <1>3, SetInduction
<1> QED BY <1>4 DEF w

LEMMA InitIsInv ==
    ASSUME KeysFit, Init
    PROVE  IInv
<1> DEFINE list == Contents(typed)
<1>1. /\ typed \in Tries /\ list \in Seq(Element)
  BY DEF Init, KeysFit, Element, KeySet
<1>2. /\ elements = Sorted(list) /\ factor \in Factors /\ bases = {}
      /\ frames = IF list = <<>> THEN <<>> ELSE <<Frame(1, Len(list), 0, 0)>>
      /\ cells = [i \in {0} |-> VacantCell]
      /\ medium = "memory" /\ iterator = "none" /\ stack = <<>>
  BY DEF Init, BuildInit, NoIterator
<1> HIDE DEF list
<1>3. /\ elements \in Seq(Element) /\ Len(elements) = Len(list) /\ Len(list) \in Nat
      /\ DOMAIN elements = 1..Len(list)
  BY <1>1, <1>2, SortedProperties, LenProperties
<1>4. ElementsInv
  <2>1. PICK g : IsPermuted(elements, list, g) /\ IsInKeyOrder(list, g)
    BY <1>1, <1>2, SortedProperties
  <2>2. ASSUME NEW m \in DOMAIN elements, NEW n \in DOMAIN elements, m < n
        PROVE  Key(m) = Key(n) \/ Less(Key(m), Key(n))
    <3>1. elements[m] = list[g[m]] /\ elements[n] = list[g[n]]
      BY <2>1, <1>3 DEF IsPermuted
    <3>2. \/ Less(list[g[m]].key, list[g[n]].key)
          \/ list[g[m]].key = list[g[n]].key
      BY <2>1, <2>2, <1>3 DEF IsInKeyOrder
    <3> QED BY <3>1, <3>2 DEF Key
  <2>3. factor \in Nat \ {0}
    BY <1>2, FactorAssumption
  <2> QED BY <2>2, <2>3, <1>3 DEF ElementsInv
<1>5. DOMAIN cells = 0..0 /\ cells[0] = VacantCell
  <2>1. 0..0 = {0}
    OBVIOUS
  <2> QED BY <2>1, <1>2
<1>6. ASSUME list = <<>> PROVE FramesInv /\ CellsInv /\ KeysInv
  <2>1. frames = <<>> /\ Len(list) = 0 /\ DOMAIN elements = {} /\ elements = <<>>
    BY <1>2, <1>3, <1>6, EmptySeq
  <2>2. FramesInv
    <3>1. \E S : frames \in Seq(S)
      BY <2>1, EmptySeq
    <3> QED BY <2>1, <3>1 DEF FramesInv
  <2>3. KeysInv
    BY <2>1 DEF KeysInv
  <2>4. \A p \in Inner : p = 0
    BY <1>5 DEF Inner
  <2>5. CellsInv
    <3>1. VacantCell \in CellType /\ VacantCell.check = Vacant
      <4>1. 0 \in -BaseHalf..BaseHalf - 1 /\ Vacant \in 0..Vacant
        BY BaseAssumption, VacantAssumption
      <4> QED BY <4>1 DEF VacantCell, CellType
    <3> QED BY <3>1, <2>1, <2>4, <1>2, <1>5 DEF CellsInv
  <2> QED BY <2>2, <2>3, <2>5
<1>7. ASSUME list # <<>> PROVE FramesInv /\ CellsInv /\ KeysInv
  <2> DEFINE f == Frame(1, Len(list), 0, 0)
  <2>1. frames = <<f>> /\ f.first = 1 /\ f.last = Len(list) /\ f.offset = 0 /\ f.index = 0
    BY <1>2, <1>7 DEF Frame
  <2>2. Len(list) >= 1
    <3>1. Len(list) # 0
      BY <1>1, <1>7, EmptySeq
    <3> QED BY <3>1, <1>3
  <2>3. DOMAIN frames = {1} /\ frames[1] = f /\ \E S : frames \in Seq(S)
    <3>1. <<f>> \in Seq({f})
      OBVIOUS
    <3> HIDE DEF f
    <3>2. DOMAIN <<f>> = {1} /\ <<f>>[1] = f
      OBVIOUS
    <3> QED BY <2>1, <3>1, <3>2
  <2>4. Places(f) = DOMAIN elements
    BY <2>1, <1>3 DEF Places
  <2>5. HasPrefix(f)
    <3>1. \A a, b : AgreeTo(a, b, 0)
      BY DEF AgreeTo
    <3>2. f.first \in DOMAIN elements /\ f.last \in DOMAIN elements /\ f.first <= f.last
      BY <2>1, <2>2, <1>3
    <3>3. Len(Key(f.first)) \in Nat
      BY <3>2, <1>4, ElementFacts, CodeFacts, 0 \in Nat
    <3>4. f.offset \in Nat /\ f.offset <= Len(Key(f.first))
      BY <2>1, <3>3
    <3> QED BY <3>1, <3>2, <3>4, <2>1, <2>4 DEF HasPrefix
  <2>6. HasNode(f)
    BY <2>1, <1>5 DEF HasNode
  <2> HIDE DEF f
  <2>7. FramesInv
    BY <2>3, <2>5, <2>6 DEF FramesInv
  <2>8. Inner = {}
    BY <2>1, <2>3, <1>5 DEF Inner
  <2>9. CellsInv
    <3>1. VacantCell \in CellType /\ VacantCell.check = Vacant
      <4>1. 0 \in -BaseHalf..BaseHalf - 1 /\ Vacant \in 0..Vacant
        BY BaseAssumption, VacantAssumption
      <4> QED BY <4>1 DEF VacantCell, CellType
    <3> QED BY <3>1, <2>8, <1>2, <1>5 DEF CellsInv
  <2>10. KeysInv
    <3> SUFFICES ASSUME NEW e \in DOMAIN elements
                 PROVE  /\ WayOf(e)[0] = 0
                        /\ Pending(e) # {}
      BY <2>1, <2>3 DEF KeysInv
    <3>1. IsWay(WayOf(e), cells, 0, Append(Key(e), Terminator))
      BY <1>4, WayFacts DEF WayOf
    <3>2. 1 \in Pending(e)
      BY <2>3, <2>4 DEF Pending, Places
    <3> QED BY <3>1, <3>2 DEF IsWay
  <2> QED BY <2>7, <2>9, <2>10
<1>8. ClientInv
  <2>1. stack \in Seq({}) /\ \A s \in {} : s >= 0
    BY <1>2, EmptySeq
  <2>2. \E S : stack \in Seq(S) /\ \A s \in S : s >= 0
    BY <2>1
  <2> QED BY <2>2, <1>1, <1>2 DEF ClientInv
<1>9. NodesInv
  <2>1. \A i \in DOMAIN cells : cells[i].check = Vacant
    BY <1>5 DEF VacantCell
  <2> QED BY <2>1 DEF NodesInv
<1> QED BY <1>4, <1>6, <1>7, <1>8, <1>9 DEF IInv

\* The places that next() pushes.
LEMMA ChildrenFacts ==
    ASSUME NEW base
    PROVE  \E S : Children(base) \in Seq(S) /\ \A s \in S : s >= 0
<1> DEFINE T == {c \in CodesBelow(base) : CellAt(base + c).check = c}
           S == {base + c : c \in CodesBelow(base)}
           order == InOrder(T)
<1>1. T \in SUBSET (0..Vacant - 1)
  BY DEF CodesBelow
<1>2. T \in SUBSET Int /\ IsFiniteSet(T)
  <2>1. Vacant - 1 \in Int /\ 0 \in Int /\ 0..Vacant - 1 \in SUBSET Int
    BY VacantAssumption
  <2>2. IsFiniteSet(0..Vacant - 1)
    BY <2>1, FS_Interval
  <2> HIDE DEF T
  <2>3. IsFiniteSet(T)
    BY <2>2, <1>1, FS_Subset
  <2> QED BY <2>1, <2>3, <1>1
<1>3. Cardinality(T) \in Nat /\ IsInOrder(order, T)
  BY <1>2, InOrderProperties
<1> HIDE DEF order
<1>4. DOMAIN order = 1..Cardinality(T) /\ \A n \in DOMAIN order : order[n] \in CodesBelow(base)
  BY <1>3 DEF IsInOrder
<1>5. Children(base) = [n \in DOMAIN order |-> base + order[n]]
  BY DEF Children, order
<1>6. Children(base) \in [1..Cardinality(T) -> S]
  BY <1>4, <1>5
<1>7. \A s \in S : s >= 0
  BY DEF CodesBelow
<1> HIDE DEF S, T
<1>8. Children(base) \in Seq(S)
  BY <1>3, <1>6, FunctionIsSeq
<1> QED BY <1>7, <1>8

LEMMA TailFacts ==
    ASSUME NEW s, s # <<>>, \E S : s \in Seq(S) /\ \A x \in S : x >= 0
    PROVE  \E S : Tail(s) \in Seq(S) /\ \A x \in S : x >= 0
BY HeadTailProperties

\* The storage grows while it is looked at.
LEMMA LookedAtIsGrown ==
    ASSUME CellsInv, ClientInv, Visit
    PROVE  \E last : IsGrown(cells, cells', last)
<1> DEFINE base == Popped.base
           S == CodesBelow(base)
<1>1. cells' = LookedAt(base)
  BY DEF Visit
<1>2. PICK size \in Nat : DOMAIN cells = 0..size
  BY DEF CellsInv
<1>3. \A i \in DOMAIN cells : cells[i] \in CellType
  BY DEF CellsInv
<1>4. CASE medium = "file" \/ S = {}
  <2>1. cells' = cells
    BY <1>1, <1>4 DEF LookedAt
  <2>2. 0..0 \subseteq DOMAIN cells
    BY <1>2
  <2> QED BY <2>1, <2>2, <1>2, <1>3 DEF IsGrown
<1>5. CASE medium # "file" /\ S # {}
  <2>1. base \in Int
    <3>1. medium = "memory"
      BY <1>5 DEF ClientInv
    <3>2. Popped = IF Head(stack) \in DOMAIN cells THEN cells[Head(stack)] ELSE VacantCell
      BY <3>1 DEF Popped, CellAt
    <3>3. -BaseHalf..BaseHalf - 1 \subseteq Int
      BY BaseAssumption
    <3>4. \A c \in CellType : c.base \in Int
      BY <3>3 DEF CellType
    <3> QED BY <3>2, <3>4, <1>3 DEF VacantCell
  <2>2. S \in SUBSET (0..Vacant - 1) /\ \A c \in S : base + c >= 0
    BY DEF CodesBelow
  <2> HIDE DEF base, S
  <2>3. Vacant - 1 \in Nat
    BY VacantAssumption
  <2> DEFINE g == Greatest(S)
  <2>4. g \in S
    BY <2>2, <2>3, <1>5, LeastAndGreatest
  <2> HIDE DEF g
  <2>5. base + g \in Nat
    BY <2>1, <2>2, <2>4
  <2>6. cells' = Grown(cells, base + g)
    BY <1>1, <1>5 DEF LookedAt, S, g
  <2> QED BY <2>5, <2>6, <1>2, <1>3, GrownFacts
<1> QED BY <1>4, <1>5

\* A client's step leaves the array as it is, but for vacant cells.
ClientStep ==
    \/ \E p \in Asked[typed.escape] : Begin(p)
    \/ PassTheEnd \/ Yield \/ Visit \/ Increment \/ Destroy \/ Serialize

LEMMA ClientStepGrows ==
    ASSUME CellsInv, ClientInv, ClientStep \/ UNCHANGED vars
    PROVE  (\E last : IsGrown(cells, cells', last)) /\ UNCHANGED <<elements, factor, bases, frames>>
<1>1. CASE Visit
  BY <1>1, LookedAtIsGrown DEF Visit
<1>2. CASE UNCHANGED buildVars
  <2>1. cells' = cells /\ UNCHANGED <<elements, factor, bases, frames>>
    BY <1>2 DEF buildVars
  <2>2. PICK size \in Nat : DOMAIN cells = 0..size
    BY DEF CellsInv
  <2>3. 0..0 \subseteq DOMAIN cells
    BY <2>2
  <2>4. \A i \in DOMAIN cells : cells[i] \in CellType
    BY DEF CellsInv
  <2>5. IsGrown(cells, cells', 0)
    BY <2>1, <2>2, <2>3, <2>4 DEF IsGrown
  <2> QED BY <2>1, <2>5
<1>3. CASE UNCHANGED vars
  BY <1>2, <1>3 DEF vars, buildVars
<1>4. (\E p \in Asked[typed.escape] : Begin(p)) => UNCHANGED buildVars
  BY DEF Begin
<1>5. PassTheEnd \/ Yield \/ Increment \/ Destroy \/ Serialize => UNCHANGED buildVars
  BY DEF PassTheEnd, Yield, Increment, Destroy, Serialize
<1> QED BY <1>1, <1>2, <1>3, <1>4, <1>5 DEF ClientStep

LEMMA ClientKept ==
    ASSUME KeysFit, CellsInv, ClientInv, (BuildIter /\ UNCHANGED clientVars) \/ ClientStep \/ UNCHANGED vars
    PROVE  ClientInv'
<1> USE DEF ClientInv
<1>1. CASE UNCHANGED clientVars
  BY <1>1 DEF clientVars
<1>2. CASE UNCHANGED vars
  BY <1>2 DEF vars
<1>3. ASSUME NEW p \in Asked[typed.escape], Begin(p) PROVE ClientInv'
  <2> DEFINE root == Traverse(0, Form(p))
  <2>1. Len(Form(p)) \in Nat
    BY LenProperties DEF KeysFit, Form
  <2>2. 0 \in DOMAIN cells /\ \A i \in DOMAIN cells : i >= 0
    BY DEF CellsInv
  <2>3. root = None \/ root \in DOMAIN cells
    BY <2>1, <2>2, WayIsInside DEF Traverse
  <2>4. root >= 0 /\ stack' = <<root>>
    BY <2>2, <2>3, <1>3 DEF Begin
  <2> HIDE DEF root
  <2>5. stack' \in Seq({root})
    BY <2>4
  <2> QED BY <2>4, <2>5, <1>3 DEF Begin
<1>4. CASE PassTheEnd
  BY <1>4 DEF PassTheEnd
<1>5. CASE Yield
  BY <1>5, TailFacts DEF Yield
<1>6. CASE Visit
  <2> DEFINE below == Children(Popped.base)
  <2>1. PICK S : Tail(stack) \in Seq(S) /\ \A s \in S : s >= 0
    BY <1>6, TailFacts DEF Visit
  <2>2. PICK T : below \in Seq(T) /\ \A s \in T : s >= 0
    BY ChildrenFacts
  <2> HIDE DEF below
  <2>3. below \o Tail(stack) \in Seq(S \cup T) /\ \A s \in S \cup T : s >= 0
    <3>1. S \subseteq S \cup T /\ T \subseteq S \cup T
      OBVIOUS
    <3>2. below \in Seq(S \cup T) /\ Tail(stack) \in Seq(S \cup T)
      BY <3>1, <2>1, <2>2, SeqOfMore
    <3> QED BY <3>2, <2>1, <2>2, JoinProperties
  <2>4. stack' = below \o Tail(stack) \/ stack' = stack
    BY <1>6 DEF Visit, below
  <2>5. typed' = typed /\ medium' = medium /\ iterator' \in {iterator, "failed"}
    BY <1>6 DEF Visit
  <2> QED BY <2>3, <2>4, <2>5
<1>7. CASE Increment
  BY <1>7 DEF Increment
<1>8. CASE Destroy
  <2>1. <<>> \in Seq({})
    BY EmptySeq
  <2> QED BY <2>1, <1>8 DEF Destroy
<1>9. CASE Serialize
  BY <1>9 DEF Serialize
<1> QED BY <1>1, <1>2, <1>3, <1>4, <1>5, <1>6, <1>7, <1>8, <1>9 DEF ClientStep

LEMMA NextKeepsInv ==
    ASSUME IInv, HasRoom, [Next]_vars
    PROVE  IInv'
<1> USE DEF IInv
<1>1. (BuildIter /\ UNCHANGED clientVars) \/ ClientStep \/ UNCHANGED vars
  BY DEF Next, ClientStep, Advance
<1>2. ClientInv' /\ KeysFit'
  BY <1>1, ClientKept DEF KeysFit
<1>3. CASE BuildIter
  <2>1. IsStep
    BY <1>3, BuildIterIsStep
  <2>2. ElementsInv'
    BY <2>1 DEF IsStep, ElementsInv, Key
  <2> QED BY <2>1, <2>2, <1>2, FramesKept, CellsKept, KeysKept
<1>4. CASE ClientStep \/ UNCHANGED vars
  BY <1>2, <1>4, ClientStepGrows, GrownKeeps
<1> QED BY <1>1, <1>3, <1>4

-----------------------------------------------------------------------------
(* The theorems                                                            *)

\* The inductive invariant holds as long as there is room in the array.
THEOREM Invariance ==
    ASSUME KeysFit
    PROVE  Spec /\ []HasRoom => []IInv
<1>1. Init => IInv
  BY InitIsInv
<1>2. IInv /\ HasRoom /\ [Next]_vars => IInv'
  BY NextKeepsInv
<1> QED BY <1>1, <1>2, PTL DEF Spec

LEMMA InvHasType == IInv => TypeOK
<1> SUFFICES ASSUME IInv PROVE TypeOK
  OBVIOUS
<1> USE DEF IInv
<1>1. PICK size \in Nat : DOMAIN cells = 0..size
  BY DEF CellsInv
<1>2. DOMAIN cells = 0..(Size - 1)
  <2>1. Cardinality(0..size) = size + 1
    <3>1. Cardinality(0..size) = IF 0 > size THEN 0 ELSE size - 0 + 1
      BY FS_Interval
    <3> QED BY <3>1
  <2>2. Size = size + 1
    BY <1>1, <2>1 DEF Size
  <2>3. Size - 1 = size
    BY <2>2
  <2> QED BY <1>1, <2>3
<1>3. /\ \A i \in DOMAIN cells : cells[i] \in CellType
      /\ bases \subseteq (-BaseHalf)..(BaseHalf - 1)
  BY DEF CellsInv
<1>4. ASSUME NEW n \in DOMAIN frames
      PROVE  /\ frames[n].index \in DOMAIN cells
             /\ frames[n].first \in 1..frames[n].last
             /\ frames[n].last \in DOMAIN elements
  <2>1. /\ frames[n].index \in DOMAIN cells /\ frames[n].first \in DOMAIN elements
        /\ frames[n].last \in DOMAIN elements /\ frames[n].first <= frames[n].last
    BY DEF FramesInv, HasPrefix, HasNode
  <2> QED BY <2>1, ElementFacts
<1>5. /\ medium \in {"memory", "file"}
      /\ iterator \in {"none", "advancing", "ready", "failed"}
      /\ \A n \in DOMAIN stack : stack[n] >= 0
  <2>1. PICK S : stack \in Seq(S) /\ \A s \in S : s >= 0
    BY DEF ClientInv
  <2>2. \A n \in DOMAIN stack : stack[n] \in S
    BY <2>1, LenProperties, ElementOfSeq
  <2> QED BY <2>1, <2>2 DEF ClientInv
<1> QED BY <1>2, <1>3, <1>4, <1>5 DEF TypeOK

LEMMA InvHasOneParent == IInv => EveryCellHasOneParent
<1> SUFFICES ASSUME IInv, NEW i \in DOMAIN cells, cells[i].check # Vacant
             PROVE  i # 0 /\ Cardinality({p \in Inner : cells[p].base + cells[i].check = i}) = 1
  BY DEF EveryCellHasOneParent
<1>1. CellsInv
  BY DEF IInv
<1>2. i # 0
  BY <1>1 DEF CellsInv
<1>3. PICK p \in Inner : cells[p].base + cells[i].check = i
  BY <1>1 DEF CellsInv
<1>4. ASSUME NEW q \in Inner, cells[q].base + cells[i].check = i PROVE q = p
  <2>1. p \in DOMAIN cells /\ q \in DOMAIN cells
    BY DEF Inner
  <2>2. cells[p] \in CellType /\ cells[q] \in CellType /\ cells[i] \in CellType
    BY <2>1, <1>1 DEF CellsInv
  <2>3. \A c \in CellType : c.base \in Int /\ c.check \in Int
    <3>1. -BaseHalf..BaseHalf - 1 \subseteq Int /\ 0..Vacant \subseteq Int
      BY BaseAssumption, VacantAssumption
    <3> QED BY <3>1 DEF CellType
  <2>4. cells[p].base \in Int /\ cells[q].base \in Int /\ cells[i].check \in Int
    BY <2>2, <2>3
  <2>5. cells[p].base = cells[q].base
    BY <2>4, <1>3, <1>4
  <2> QED BY <2>5, <1>1 DEF CellsInv
<1>5. {q \in Inner : cells[q].base + cells[i].check = i} = {p}
  BY <1>3, <1>4
<1>6. Cardinality({p}) = 1
  BY FS_Singleton
<1> QED BY <1>2, <1>5, <1>6

\* The beginning of a key leads where the way of the key passes by.
LEMMA BeginningLeads ==
    ASSUME ElementsInv, NEW e \in DOMAIN elements, NEW n \in Nat, n <= Len(Key(e))
    PROVE  Traverse(0, SubSeq(Key(e), 1, n)) = WayOf(e)[n]
<1> DEFINE a == Append(Key(e), Terminator)
           b == SubSeq(Key(e), 1, n)
           v == WayOf(e)
           w == Way(cells, 0, b)
<1>1. Key(e) \in KeySet /\ Len(Key(e)) \in Nat
  BY ElementFacts, WayFacts
<1>2. Len(b) = n /\ \A i \in 1..n : b[i] = Key(e)[i]
  <2>1. b \in Seq(1..Vacant - 1) /\ IsPart(b, Key(e), 0, n)
    BY <1>1, Beginning DEF KeySet
  <2>2. n - 0 = n /\ \A i \in 1..n : 0 + i = i
    OBVIOUS
  <2> QED BY <2>1, <2>2 DEF IsPart
<1>3. /\ Len(a) = Len(Key(e)) + 1 /\ IsWay(v, cells, 0, a)
      /\ \A i \in 0..Len(Key(e)) : a[i + 1] = Code(e, i)
  BY WayFacts DEF WayOf
<1>4. IsWay(w, cells, 0, b)
  BY <1>2, WayProperties
<1>5. Traverse(0, b) = w[n]
  BY <1>2 DEF Traverse
<1> HIDE DEF a, b, v, w
<1>6. SameChildren(v, cells, a, cells, b, n)
  <2> SUFFICES ASSUME NEW i \in 0..n - 1 PROVE b[i + 1] = a[i + 1]
    BY DEF SameChildren
  <2>1. i \in 0..Len(Key(e)) /\ i < Len(Key(e)) /\ i + 1 \in 1..n
    BY <1>1
  <2>2. Code(e, i) = Key(e)[i + 1]
    BY <2>1 DEF Code, CodeAt
  <2> QED BY <2>1, <2>2, <1>2, <1>3
<1>7. SameWay(v, w, n)
  <2>1. Len(a) \in Nat /\ n <= Len(a) /\ Len(b) \in Nat /\ n <= Len(b)
    BY <1>1, <1>2, <1>3
  <2> QED BY <2>1, <1>3, <1>4, <1>6, WaysAgree
<1>8. w[n] = v[n]
  <2>1. n \in 0..n
    OBVIOUS
  <2> QED BY <2>1, <1>7 DEF SameWay
<1> QED BY <1>5, <1>8 DEF b, v

LEMMA InvLosesNoKey == IInv => NoKeyIsLost
<1> SUFFICES ASSUME IInv, NEW i \in DOMAIN elements
             PROVE  /\ \A n \in Pending(i) :
                          /\ frames[n].offset <= Len(elements[i].key)
                          /\ Traverse(0, SubSeq(elements[i].key, 1, frames[n].offset)) = frames[n].index
                    /\ Pending(i) = {} => Find(0, elements[i].key) = Expected(elements[i].key)
  BY DEF NoKeyIsLost
<1>1. ElementsInv /\ FramesInv /\ CellsInv /\ KeysInv
  BY DEF IInv
<1>2. ASSUME NEW n \in Pending(i)
      PROVE  /\ frames[n].offset <= Len(Key(i))
             /\ Traverse(0, SubSeq(Key(i), 1, frames[n].offset)) = frames[n].index
  <2> DEFINE off == frames[n].offset
  <2>1. n \in DOMAIN frames /\ i \in Places(frames[n])
    BY DEF Pending, Places
  <2>2. HasPrefix(frames[n])
    BY <2>1, <1>1 DEF FramesInv
  <2>3. off \in Nat /\ off <= Len(Key(i))
    BY <2>1, <2>2, <1>1, PlaceFacts DEF HasPrefix
  <2>4. WayOf(i)[off] = frames[n].index
    BY <2>1, <1>1 DEF KeysInv
  <2> QED BY <2>3, <2>4, <1>1, BeginningLeads
<1>3. ASSUME Pending(i) = {} PROVE Find(0, Key(i)) = Expected(Key(i))
  <2> DEFINE leaf == WayOf(i)[Len(Key(i)) + 1]
  <2>1. leaf \in DOMAIN cells /\ <<cells[leaf].base>> = Expected(Key(i))
    BY <1>1, <1>3 DEF KeysInv
  <2>2. Traverse(0, Append(Key(i), Terminator)) = leaf
    BY <1>1, WayFacts DEF Traverse, WayOf
  <2>3. leaf # None
    BY <2>1, <1>1 DEF CellsInv, None
  <2> HIDE DEF leaf
  <2> QED BY <2>1, <2>2, <2>3 DEF Find
<1> QED BY <1>2, <1>3 DEF Key

\* The types, in particular that bases and values fit into their bits.
THEOREM TypeCorrect ==
    ASSUME KeysFit
    PROVE  Spec /\ []HasRoom => []TypeOK
BY Invariance, InvHasType, PTL

\* However the children of the nodes interleave in the array, every cell in use is the
\* child of exactly one node.
THEOREM OneParent ==
    ASSUME KeysFit
    PROVE  Spec /\ []HasRoom => []EveryCellHasOneParent
BY Invariance, InvHasOneParent, PTL

\* No call of build_iter(), and nothing a client does with the trie, loses a key.
THEOREM KeysStay ==
    ASSUME KeysFit
    PROVE  Spec /\ []HasRoom => []NoKeyIsLost
BY Invariance, InvLosesNoKey, PTL
-----------------------------------------------------------------------------
(* Room for the nodes                                                      *)

\* The elements are those of the keys, in order.
ContentsInv ==
    /\ Len(elements) = Len(Contents(typed))
    /\ \E f : IsPermuted(elements, Contents(typed), f) /\ IsInKeyOrder(Contents(typed), f)

\* Every node takes a base, and no base is far behind the others.
IsNear(last) ==
    /\ DOMAIN cells = 0..last
    /\ last <= Vacant * Cardinality(bases)
    /\ \A b \in bases : b <= last

BasesInv ==
    /\ \A b \in bases : \E p \in Inner : cells[p].base = b
    /\ frames # <<>> => \E last \in Nat : IsNear(last)

\* There is no iterator before the trie is built.
IteratorInv == iterator = "none" \/ frames = <<>>

RoomInv == ContentsInv /\ BasesInv /\ IteratorInv

LEMMA BasesAreFinite ==
    ASSUME CellsInv
    PROVE  IsFiniteSet(bases) /\ Cardinality(bases) \in Nat
<1>1. IsFiniteSet(-BaseHalf..BaseHalf - 1)
  <2>1. -BaseHalf \in Int /\ BaseHalf - 1 \in Int
    BY BaseAssumption
  <2> QED BY <2>1, FS_Interval
<1>2. IsFiniteSet(bases)
  BY <1>1, FS_Subset DEF CellsInv
<1> QED BY <1>2, FS_CardinalityType

\* Behind the last cell there is always room.
LEMMA RoomBehind ==
    ASSUME ElementsInv, CellsInv, NEW f, HasPrefix(f), HasNode(f),
           NEW last \in Nat, IsNear(last)
    PROVE  /\ last + 1 >= BaseFirst(f) /\ Fits(last + 1, f) /\ last + 1 \notin bases
           /\ BaseFirst(f) \in Int
<1> DEFINE code == Code(f.first, f.offset)
<1>1. f.first \in Places(f) /\ code \in 0..Vacant - 1
  BY PlaceFacts
<1>2. f.index \in 0..last /\ factor \in Nat \ {0}
  BY DEF HasNode, ElementsInv, IsNear
<1>3. f.index \div factor \in Nat /\ f.index \div factor <= f.index
  BY <1>2, QuotientIsLess
<1>4. BaseFirst(f) = (f.index - f.index \div factor) - code + 1
  BY DEF BaseFirst, Code, Key
<1>5. BaseFirst(f) \in Int /\ BaseFirst(f) <= last + 1
  <2> DEFINE q == f.index \div factor
  <2>1. q \in Nat /\ BaseFirst(f) = (f.index - q) - code + 1
    BY <1>3, <1>4
  <2>2. code \in Nat
    BY <1>1, VacantAssumption
  <2> HIDE DEF q, code
  <2> QED BY <2>1, <2>2, <1>2
<1>6. \A c \in Codes(f) : c \in Nat
  BY CodesFacts, VacantAssumption
<1>7. Fits(last + 1, f)
  <2>1. \A c \in Codes(f) : last + 1 + c \notin DOMAIN cells
    BY <1>6 DEF IsNear
  <2> QED BY <2>1 DEF Fits, CheckAt
<1>8. last + 1 \notin bases
  BY DEF IsNear
<1> QED BY <1>5, <1>7, <1>8

\* The base of a node is not behind the first place where there is room.
LEMMA BaseIsNear ==
    ASSUME ElementsInv, CellsInv, NEW f, HasPrefix(f), HasNode(f),
           \E base \in BaseFirst(f)..(BaseHalf - 1) : Fits(base, f) /\ base \notin bases,
           NEW last \in Nat, IsNear(last)
    PROVE  BaseOf(f) \in Int /\ BaseOf(f) <= last + 1
<1> DEFINE b0 == BaseFirst(f)
           Good(b) == Fits(b, f) /\ b \notin bases
           IsBase(b) == Good(b) /\ \A a \in b0..(b - 1) : ~Good(a)
<1>1. b0 \in Int /\ last + 1 >= b0 /\ Good(last + 1)
  BY RoomBehind
<1>2. BaseHalf \in Nat
  BY BaseAssumption
<1>3. \E b \in b0..BaseHalf - 1 : IsBase(b)
  <2> DEFINE T == {x \in Nat : Good(b0 + x) /\ b0 + x <= BaseHalf - 1}
  <2>1. PICK b \in b0..BaseHalf - 1 : Good(b)
    OBVIOUS
  <2>2. b - b0 \in Nat /\ b0 + (b - b0) = b /\ b <= BaseHalf - 1
    BY <2>1, <1>1, <1>2
  <2> HIDE DEF Good, b0
  <2>3. T # {} /\ T \subseteq Nat
    BY <2>1, <2>2
  <2>4. PICK x \in T : \A y \in T : x <= y
    BY <2>3, LeastNumber
  <2>5. x \in Nat /\ Good(b0 + x) /\ b0 + x \in b0..BaseHalf - 1
    BY <2>4, <1>1, <1>2
  <2>6. ASSUME NEW a \in b0..(b0 + x) - 1 PROVE ~Good(a)
    <3>1. a - b0 \in Nat /\ b0 + (a - b0) = a /\ ~(x <= a - b0) /\ a <= BaseHalf - 1
      BY <2>5, <1>1, <1>2
    <3> QED BY <3>1, <2>4
  <2> QED BY <2>5, <2>6
<1>4. BaseOf(f) = CHOOSE b \in b0..(BaseHalf - 1) : IsBase(b)
  BY DEF BaseOf
<1>5. BaseOf(f) \in b0..BaseHalf - 1 /\ IsBase(BaseOf(f))
  <2> HIDE DEF IsBase, b0
  <2> QED BY <1>3, <1>4
<1>6. ~(BaseOf(f) > last + 1)
  <2> SUFFICES ASSUME BaseOf(f) > last + 1 PROVE FALSE
    OBVIOUS
  <2> DEFINE base == BaseOf(f)
  <2>1. base \in Int /\ base > last + 1 /\ \A a \in b0..(base - 1) : ~Good(a)
    BY <1>1, <1>2, <1>5
  <2> HIDE DEF base, Good, b0
  <2>2. last + 1 \in b0..(base - 1)
    BY <2>1, <1>1
  <2> QED BY <2>1, <2>2, <1>1
<1>7. BaseOf(f) \in Int
  BY <1>1, <1>2, <1>5
<1> QED BY <1>6, <1>7

LEMMA BuildKeepsBases ==
    ASSUME ElementsInv, FramesInv, CellsInv, HasRoom, BuildIter, BasesInv
    PROVE  BasesInv'
<1> DEFINE f == Head(frames)
           base == BaseOf(f)
           top == Greatest(Codes(f))
<1>1. /\ frames # <<>> /\ bases' = bases \cup {base} /\ cells' = WithChildren(f, base)
  BY DEF BuildIter
<1>2. IsStep
  BY BuildIterIsStep
<1>3. /\ HasPrefix(f) /\ HasNode(f) /\ base \in -BaseHalf..BaseHalf - 1 /\ base \notin bases
      /\ IsExtended(cells, cells', Codes(f), f.index, base, Added(f))
  BY <1>2 DEF IsStep
<1>4. PICK last \in Nat : IsNear(last)
  BY <1>1 DEF BasesInv
<1>5. base \in Int /\ base <= last + 1
  BY <1>1, <1>3, <1>4, BaseIsNear DEF HasRoom
<1>6. top \in 0..Vacant - 1 /\ Vacant \in Nat /\ Vacant >= 1
  BY <1>3, CodesFacts, VacantAssumption
<1>7. base + top >= 1 /\ base + top \in DOMAIN cells'
  BY <1>3, CodesFacts DEF IsExtended, HasChildren
<1>8. DOMAIN cells' = 0..last \cup 0..(base + top)
  BY <1>1, <1>4 DEF IsNear, WithChildren, Grown
<1>9. \A i : i \in Inner' <=> i \in Inner \/ i = f.index
  BY <1>2, InnerGrows
<1>10. IsFiniteSet(bases) /\ Cardinality(bases) \in Nat /\ Cardinality(bases') = Cardinality(bases) + 1
  BY <1>1, <1>3, BasesAreFinite, FS_AddElement
<1>11. ASSUME NEW b \in bases' PROVE \E p \in Inner' : cells'[p].base = b
  <2>1. CASE b = base
    <3>1. cells'[f.index].base = base
      BY <1>3 DEF IsExtended
    <3> QED BY <3>1, <2>1, <1>9
  <2>2. CASE b \in bases
    <3>1. PICK p \in Inner : cells[p].base = b
      BY <2>2 DEF BasesInv
    <3>2. p \in DOMAIN cells /\ p # f.index /\ (p = 0 \/ cells[p].check # Vacant)
      BY <1>2 DEF Inner, IsStep
    <3>3. cells'[p] = cells[p]
      BY <3>2, <1>3 DEF IsExtended
    <3> QED BY <3>1, <3>3, <1>9
  <2> QED BY <2>1, <2>2, <1>1
<1> HIDE DEF f, base, top
<1>12. \E m \in Nat : IsNear(m)'
  <2> DEFINE k == Cardinality(bases)
  <2>0. PICK m \in Nat : m = IF last <= base + top THEN base + top ELSE last
    BY <1>5, <1>6, <1>7
  <2>1. last <= m /\ base + top <= m
    BY <2>0, <1>5, <1>6, <1>7
  <2>2. DOMAIN cells' = 0..m
    BY <2>0, <1>8, <1>5, <1>6
  <2>3. m <= Vacant * (k + 1)
    <3>1. last <= Vacant * k /\ k \in Nat
      BY <1>4, <1>10 DEF IsNear
    <3>2. Vacant * (k + 1) = Vacant * k + Vacant /\ Vacant * k \in Int
      BY <3>1, <1>6
    <3>3. m <= last + Vacant
      BY <2>0, <1>5, <1>6
    <3> HIDE DEF k
    <3> QED BY <3>1, <3>2, <3>3, <2>1, <1>6
  <2>4. ASSUME NEW b \in bases' PROVE b <= m
    <3>1. CASE b = base
      BY <3>1, <2>1, <1>5, <1>6
    <3>2. CASE b \in bases
      <4>1. b <= last /\ b \in Int
        BY <3>2, <1>4, BaseAssumption DEF IsNear, CellsInv
      <4> QED BY <4>1, <2>1
    <3> QED BY <3>1, <3>2, <1>1
  <2>5. IsNear(m)'
    BY <2>2, <2>3, <2>4, <1>10 DEF IsNear
  <2> QED BY <2>1, <2>5
<1> QED BY <1>11, <1>12 DEF BasesInv

\* There are not more bases than beginnings of keys.
LEMMA BasesAreFew ==
    ASSUME IInv, ContentsInv, BasesInv, frames # <<>>
    PROVE  Cardinality(bases) <= Cardinality(Beginnings(typed)) /\ Cardinality(Beginnings(typed)) \in Nat
<1> DEFINE list == Contents(typed)
           N == Beginnings(typed)
           F == [x \in N |-> cells[Way(cells, 0, Append(list[x[1]].key, Terminator))[x[2]]].base]
           T == {F[x] : x \in N}
<1>1. KeysFit /\ ElementsInv /\ FramesInv /\ CellsInv /\ NodesInv /\ typed \in Tries
  BY DEF IInv, ClientInv
<1>2. /\ Len(elements) = Len(list) /\ Len(elements) \in Nat /\ DOMAIN elements = 1..Len(elements)
      /\ \A i \in DOMAIN elements : Key(i) \in KeySet
  BY <1>1, ElementFacts DEF ContentsInv
<1>3. PICK g : IsPermuted(elements, list, g)
  BY DEF ContentsInv
<1>4. DOMAIN typed.keys = DOMAIN list
  BY DEF Contents
<1>5. /\ list \in Seq(Element) /\ Len(list) \in Nat /\ DOMAIN list = 1..Len(list)
  <2>1. list \in Seq(Element)
    BY <1>1 DEF KeysFit, Element, KeySet
  <2> QED BY <2>1, LenProperties
<1>6. IsFiniteSet(N)
  <2> DEFINE Of(n) == {n} \X (0..Len(list[n].key))
             D == DOMAIN list
             C == {Of(n) : n \in D}
             G == [n \in D |-> Of(n)]
  <2>1. N = UNION C
    BY <1>4 DEF Beginnings
  <2>2. ASSUME NEW n \in D PROVE IsFiniteSet(Of(n))
    <3>1. list[n] \in Element
      BY <1>5, ElementOfSeq
    <3>2. Len(list[n].key) \in Nat
      BY <3>1, CodeFacts, 0 \in Nat DEF Element
    <3>3. IsFiniteSet(0..Len(list[n].key))
      BY <3>2, FS_Interval
    <3>4. IsFiniteSet({n})
      BY FS_Singleton
    <3> QED BY <3>3, <3>4, FS_Product
  <2>3. IsFiniteSet(D)
    BY <1>5, FS_Interval
  <2>4. IsFiniteSet(C)
    <3>1. G \in Surjection(D, C)
      BY DEF Surjection
    <3> QED BY <3>1, <2>3, FS_Surjection
  <2>5. \A t \in C : IsFiniteSet(t)
    BY <2>2
  <2> HIDE DEF C
  <2> QED BY <2>1, <2>4, <2>5, FS_UNION
<1>7. ASSUME NEW p \in Inner PROVE \E x \in N : F[x] = cells[p].base
  <2>1. \E e \in DOMAIN elements : \E k \in 0..Len(Key(e)) : WayOf(e)[k] = p
    <3>1. CASE p = 0
      <4>1. 1 \in DOMAIN frames
        <5>1. PICK S : frames \in Seq(S)
          BY <1>1 DEF FramesInv
        <5>2. Len(frames) \in Nat /\ Len(frames) # 0 /\ DOMAIN frames = 1..Len(frames)
          BY <5>1, EmptySeq, LenProperties
        <5> QED BY <5>2
      <4>2. HasPrefix(frames[1])
        BY <4>1, <1>1 DEF FramesInv
      <4>3. PICK e \in DOMAIN elements : TRUE
        BY <4>2 DEF HasPrefix
      <4>4. Len(Key(e)) \in Nat /\ IsWay(WayOf(e), cells, 0, Append(Key(e), Terminator))
        BY <1>1, WayFacts DEF WayOf
      <4>5. WayOf(e)[0] = 0 /\ 0 \in 0..Len(Key(e))
        BY <4>4 DEF IsWay
      <4> QED BY <4>5, <3>1
    <3>2. CASE p # 0
      <4>1. p \in DOMAIN cells /\ cells[p].check # Vacant /\ cells[p].check # Terminator
        BY <3>2 DEF Inner
      <4>2. PICK e \in DOMAIN elements : \E k \in 1..Len(Key(e)) + 1 : WayOf(e)[k] = p
        BY <4>1, <1>1 DEF NodesInv
      <4>3. PICK k \in 1..Len(Key(e)) + 1 : WayOf(e)[k] = p
        BY <4>2
      <4> DEFINE w == WayOf(e)
                 b == Append(Key(e), Terminator)
                 m == Len(Key(e))
      <4>4. /\ m \in Nat /\ Len(b) = m + 1 /\ IsWay(w, cells, 0, b)
            /\ \A n \in 0..m : b[n + 1] = Code(e, n)
        BY <1>1, WayFacts DEF WayOf
      <4>5. k # m + 1
        <5> SUFFICES ASSUME k = m + 1 PROVE FALSE
          OBVIOUS
        <5>1. m \in 0..m /\ m \in 0..Len(b) - 1
          BY <4>4
        <5>2. b[m + 1] = Terminator
          BY <5>1, <4>4 DEF Code, CodeAt
        <5>3. p = Child(cells, w[m], Terminator)
          BY <5>1, <5>2, <4>3, <4>4 DEF IsWay
        <5>4. p # None
          BY <4>1, <1>1 DEF CellsInv, None
        <5> QED BY <5>3, <5>4, <4>1 DEF Child
      <4>6. k \in 0..Len(Key(e))
        BY <4>4, <4>5
      <4> QED BY <4>3, <4>6
    <3> QED BY <3>1, <3>2
  <2>2. PICK e \in DOMAIN elements : \E k \in 0..Len(Key(e)) : WayOf(e)[k] = p
    BY <2>1
  <2>3. PICK k \in 0..Len(Key(e)) : WayOf(e)[k] = p
    BY <2>2
  <2> DEFINE x == <<g[e], k>>
  <2>4. g[e] \in DOMAIN list /\ elements[e] = list[g[e]]
    BY <1>2, <1>3, <1>5 DEF IsPermuted
  <2>5. list[g[e]].key = Key(e)
    BY <2>4 DEF Key
  <2>6. x \in N
    <3>1. x \in {g[e]} \X (0..Len(list[g[e]].key))
      BY <2>5
    <3> QED BY <3>1, <2>4, <1>4 DEF Beginnings
  <2>7. F[x] = cells[WayOf(e)[k]].base
    BY <2>5, <2>6 DEF WayOf
  <2> QED BY <2>3, <2>6, <2>7
<1>8. bases \subseteq T
  BY <1>7 DEF BasesInv
<1>9. F \in Surjection(N, T)
  BY DEF Surjection
<1> HIDE DEF F, T, N
<1>10. IsFiniteSet(T) /\ Cardinality(T) <= Cardinality(N)
  BY <1>6, <1>9, FS_Surjection
<1>11. /\ Cardinality(bases) <= Cardinality(T)
       /\ Cardinality(bases) \in Nat /\ Cardinality(T) \in Nat /\ Cardinality(N) \in Nat
  BY <1>1, <1>6, <1>8, <1>10, BasesAreFinite, FS_Subset, FS_CardinalityType
<1> QED BY <1>10, <1>11 DEF N

LEMMA FewKeysHaveRoom ==
    ASSUME IInv, RoomInv, KeysAreFew
    PROVE  HasRoom
<1> SUFFICES ASSUME frames # <<>>
             PROVE  \E base \in BaseFirst(Head(frames))..(BaseHalf - 1) :
                        Fits(base, Head(frames)) /\ base \notin bases
  BY DEF HasRoom
<1> DEFINE f == Head(frames)
           k == Cardinality(bases)
           m == Cardinality(Beginnings(typed))
<1>1. ElementsInv /\ FramesInv /\ CellsInv /\ typed \in Tries
  BY DEF IInv, ClientInv
<1>2. HasPrefix(f) /\ HasNode(f)
  <2>1. PICK S : frames \in Seq(S)
    BY <1>1 DEF FramesInv
  <2>2. Len(frames) \in Nat /\ Len(frames) # 0 /\ DOMAIN frames = 1..Len(frames)
    BY <2>1, EmptySeq, LenProperties
  <2>3. f = frames[1] /\ 1 \in DOMAIN frames
    BY <2>1, <2>2
  <2> QED BY <2>3, <1>1 DEF FramesInv
<1>3. PICK last \in Nat : IsNear(last)
  BY DEF RoomInv, BasesInv
<1>4. k <= m /\ k \in Nat /\ m \in Nat
  BY <1>1, BasesAreFew, BasesAreFinite DEF RoomInv
<1>5. last <= Vacant * k /\ Vacant * m + 2 <= BaseHalf
  BY <1>1, <1>3 DEF IsNear, KeysAreFew
<1> HIDE DEF f, k, m
<1>6. Vacant * k <= Vacant * m /\ Vacant * k \in Nat /\ Vacant * m \in Nat /\ BaseHalf \in Nat
  <2>1. Vacant \in Nat /\ BaseHalf \in Nat
    BY VacantAssumption, BaseAssumption
  <2> QED BY <2>1, <1>4
<1>7. last + 1 <= BaseHalf - 1
  BY <1>5, <1>6
<1>8. last + 1 >= BaseFirst(f) /\ Fits(last + 1, f) /\ last + 1 \notin bases /\ BaseFirst(f) \in Int
  BY <1>1, <1>2, <1>3, RoomBehind
<1>9. last + 1 \in BaseFirst(f)..(BaseHalf - 1)
  BY <1>6, <1>7, <1>8
<1> QED BY <1>8, <1>9 DEF f

LEMMA InitHasRoomInv ==
    ASSUME KeysFit, Init
    PROVE  RoomInv
<1> DEFINE list == Contents(typed)
<1>1. /\ list \in Seq(Element) /\ elements = Sorted(list) /\ bases = {} /\ iterator = "none"
      /\ cells = [i \in {0} |-> VacantCell]
  BY DEF Init, BuildInit, NoIterator, KeysFit, Element, KeySet
<1>2. ContentsInv
  BY <1>1, SortedProperties DEF ContentsInv
<1>3. IsNear(0)
  <2>1. Cardinality(bases) = 0
    BY <1>1, FS_EmptySet
  <2>2. 0 <= Vacant * 0 /\ 0..0 = {0}
    BY VacantAssumption
  <2> QED BY <1>1, <2>1, <2>2 DEF IsNear
<1> QED BY <1>1, <1>2, <1>3 DEF RoomInv, BasesInv, IteratorInv

LEMMA NextKeepsRoomInv ==
    ASSUME IInv, HasRoom, RoomInv, [Next]_vars
    PROVE  RoomInv'
<1>1. ElementsInv /\ FramesInv /\ CellsInv /\ ClientInv
  BY DEF IInv
<1>2. (BuildIter /\ UNCHANGED clientVars) \/ ClientStep \/ UNCHANGED vars
  BY DEF Next, ClientStep, Advance
<1>3. typed' = typed /\ elements' = elements
  BY <1>2 DEF BuildIter, clientVars, ClientStep, Begin, PassTheEnd, Yield, Visit, Increment, Destroy,
              Serialize, vars, buildVars
<1>4. ContentsInv'
  <2> DEFINE list == Contents(typed)
  <2>1. Contents(typed)' = list
    BY <1>3 DEF Contents
  <2>2. PICK f : IsPermuted(elements, list, f) /\ IsInKeyOrder(list, f)
    BY DEF RoomInv, ContentsInv
  <2>3. Len(elements) = Len(list)
    BY DEF RoomInv, ContentsInv
  <2> HIDE DEF list
  <2>4. IsPermuted(elements, list, f)' /\ IsInKeyOrder(list, f)'
    BY <2>1, <2>2, <1>3 DEF list, IsPermuted, IsInKeyOrder
  <2> QED BY <2>1, <2>3, <2>4, <1>3 DEF ContentsInv, list
<1>5. CASE BuildIter /\ UNCHANGED clientVars
  <2>1. BasesInv'
    BY <1>1, <1>5, BuildKeepsBases DEF RoomInv
  <2>2. iterator' = "none"
    BY <1>5 DEF RoomInv, IteratorInv, BuildIter, clientVars
  <2> QED BY <2>1, <2>2, <1>4 DEF RoomInv, IteratorInv
<1>6. CASE ClientStep \/ UNCHANGED vars
  <2>1. (\E last : IsGrown(cells, cells', last)) /\ UNCHANGED <<elements, factor, bases, frames>>
    BY <1>1, <1>6, ClientStepGrows
  <2>2. IteratorInv'
    <3>1. iterator' = "none" \/ frames = <<>>
      BY <1>6 DEF RoomInv, IteratorInv, ClientStep, Begin, PassTheEnd, Yield, Visit, Increment,
                  Destroy, Serialize, vars, Built
    <3> QED BY <3>1, <2>1 DEF IteratorInv
  <2>3. \A p \in Inner : p \in Inner' /\ cells'[p] = cells[p]
    BY <2>1 DEF IsGrown, Inner
  <2>4. frames # <<>> => cells' = cells
    <3> SUFFICES ASSUME frames # <<>> PROVE cells' = cells
      OBVIOUS
    <3>1. iterator = "none"
      BY DEF RoomInv, IteratorInv
    <3> QED BY <3>1, <1>6 DEF ClientStep, Begin, PassTheEnd, Yield, Visit, Increment, Destroy,
                              Serialize, vars, buildVars, Built
  <2>5. BasesInv'
    <3>1. \A b \in bases' : \E p \in Inner' : cells'[p].base = b
      BY <2>1, <2>3 DEF RoomInv, BasesInv
    <3>2. frames' # <<>> => \E last \in Nat : IsNear(last)'
      <4> SUFFICES ASSUME frames # <<>> PROVE \E last \in Nat : IsNear(last)'
        BY <2>1
      <4>1. PICK last \in Nat : IsNear(last)
        BY DEF RoomInv, BasesInv
      <4>2. IsNear(last)'
        BY <4>1, <2>1, <2>4 DEF IsNear
      <4> QED BY <4>2
    <3> QED BY <3>1, <3>2 DEF BasesInv
  <2> QED BY <1>4, <2>2, <2>5 DEF RoomInv
<1> QED BY <1>2, <1>5, <1>6

\* If the keys are few calc_base() finds a base whenever it looks for one.
THEOREM RoomForFewKeys ==
    ASSUME KeysFit, KeysAreFew
    PROVE  Spec => []HasRoom
<1> DEFINE R == IInv /\ RoomInv /\ KeysAreFew
<1>1. Init => R
  BY InitIsInv, InitHasRoomInv
<1>2. R /\ [Next]_vars => R'
  BY FewKeysHaveRoom, NextKeepsInv, NextKeepsRoomInv DEF KeysAreFew
<1>3. R => HasRoom
  BY FewKeysHaveRoom
<1> QED BY <1>1, <1>2, <1>3, PTL DEF Spec
-----------------------------------------------------------------------------
(* What is found                                                           *)

\* The way of an element has come to a cell behind nodes that have got their bases.
OnWay(e, k) ==
    /\ k \in Nat /\ k <= Len(Key(e)) + 1
    /\ WayOf(e)[k] \in DOMAIN cells
    /\ \A j \in 0..k - 1 : WayOf(e)[j] \in Inner

LEMMA OnWayNext ==
    ASSUME ElementsInv, CellsInv, NEW e \in DOMAIN elements, NEW k \in Nat, OnWay(e, k + 1)
    PROVE  /\ OnWay(e, k) /\ WayOf(e)[k] \in Inner /\ k <= Len(Key(e))
           /\ WayOf(e)[k + 1] = cells[WayOf(e)[k]].base + Code(e, k)
           /\ cells[WayOf(e)[k + 1]].check = Code(e, k) /\ Code(e, k) # Vacant
           /\ WayOf(e)[k + 1] # 0
<1> DEFINE w == WayOf(e)
           b == Append(Key(e), Terminator)
           m == Len(Key(e))
<1>1. /\ m \in Nat /\ Len(b) = m + 1 /\ IsWay(w, cells, 0, b)
      /\ \A n \in 0..m : b[n + 1] = Code(e, n)
      /\ Code(e, k) # Vacant
  BY WayFacts DEF WayOf
<1>2. /\ k + 1 <= m + 1 /\ w[k + 1] \in DOMAIN cells
      /\ \A j \in 0..(k + 1) - 1 : w[j] \in Inner
  BY DEF OnWay
<1>3. k \in 0..m /\ k \in 0..Len(b) - 1 /\ k \in 0..(k + 1) - 1
  BY <1>1, <1>2
<1>4. w[k] \in Inner /\ w[k] \in DOMAIN cells
  BY <1>2, <1>3 DEF Inner
<1>5. w[k + 1] = Child(cells, w[k], Code(e, k))
  BY <1>1, <1>3 DEF IsWay
<1>6. w[k + 1] # None /\ cells[0].check = Vacant
  BY <1>2 DEF CellsInv, None
<1> HIDE DEF w, b, m
<1>7. w[k + 1] = cells[w[k]].base + Code(e, k) /\ cells[w[k + 1]].check = Code(e, k)
  BY <1>5, <1>6 DEF Child
<1>8. \A j \in 0..k - 1 : j \in 0..(k + 1) - 1
  OBVIOUS
<1>9. OnWay(e, k)
  BY <1>2, <1>3, <1>4, <1>8 DEF OnWay, w, m
<1> QED BY <1>1, <1>3, <1>4, <1>6, <1>7, <1>9 DEF w, m

\* A node with its base has one parent, so two ways that meet have been the same.
LEMMA WaysMeet ==
    ASSUME ElementsInv, CellsInv, NEW e \in DOMAIN elements, NEW d \in DOMAIN elements,
           NEW k, OnWay(e, k), NEW m, OnWay(d, m), WayOf(e)[k] = WayOf(d)[m]
    PROVE  k = m /\ AgreeTo(Key(e), Key(d), k)
<1> DEFINE P(n) == \A l \in Nat : OnWay(e, n) /\ OnWay(d, l) /\ WayOf(e)[n] = WayOf(d)[l]
                                     => n = l /\ AgreeTo(Key(e), Key(d), n)
           T == {n \in Nat : P(n)}
<1>0. WayOf(e)[0] = 0 /\ WayOf(d)[0] = 0
  BY WayFacts DEF WayOf, IsWay
<1>1. P(0)
  <2> SUFFICES ASSUME NEW l \in Nat, OnWay(d, l), WayOf(d)[l] = 0
               PROVE  0 = l /\ AgreeTo(Key(e), Key(d), 0)
    BY <1>0
  <2>1. l = 0
    <3> SUFFICES ASSUME l # 0 PROVE FALSE
      OBVIOUS
    <3>1. l - 1 \in Nat /\ (l - 1) + 1 = l
      OBVIOUS
    <3> DEFINE n == l - 1
    <3>2. n \in Nat /\ n + 1 = l
      BY <3>1
    <3> HIDE DEF n
    <3>3. WayOf(d)[n + 1] # 0
      BY <3>2, OnWayNext
    <3> QED BY <3>2, <3>3
  <2> QED BY <2>1 DEF AgreeTo
<1>2. ASSUME NEW n \in Nat, P(n) PROVE P(n + 1)
  <2> SUFFICES ASSUME NEW l \in Nat, OnWay(e, n + 1), OnWay(d, l), WayOf(e)[n + 1] = WayOf(d)[l]
               PROVE  n + 1 = l /\ AgreeTo(Key(e), Key(d), n + 1)
    OBVIOUS
  <2>1. /\ OnWay(e, n) /\ WayOf(e)[n] \in Inner /\ WayOf(e)[n + 1] # 0
        /\ WayOf(e)[n + 1] = cells[WayOf(e)[n]].base + Code(e, n)
        /\ cells[WayOf(e)[n + 1]].check = Code(e, n)
    BY OnWayNext
  <2>2. PICK h \in Nat : h + 1 = l
    <3>1. l # 0
      BY <2>1, <1>0
    <3>2. l - 1 \in Nat /\ (l - 1) + 1 = l
      BY <3>1
    <3> QED BY <3>2
  <2>3. /\ OnWay(d, h) /\ WayOf(d)[h] \in Inner
        /\ WayOf(d)[h + 1] = cells[WayOf(d)[h]].base + Code(d, h)
        /\ cells[WayOf(d)[h + 1]].check = Code(d, h)
    BY <2>2, OnWayNext
  <2> DEFINE p == WayOf(e)[n]
             q == WayOf(d)[h]
             c == Code(e, n)
  <2>4. Code(d, h) = c /\ cells[p].base + c = cells[q].base + c
    BY <2>1, <2>2, <2>3
  <2>5. cells[p].base \in Int /\ cells[q].base \in Int /\ c \in Int
    <3>1. \A i \in Inner : cells[i] \in CellType
      BY DEF CellsInv, Inner
    <3>2. -BaseHalf..BaseHalf - 1 \subseteq Int
      BY BaseAssumption
    <3>3. \A i \in Inner : cells[i].base \in Int
      BY <3>1, <3>2 DEF CellType
    <3>4. c \in Int
      <4>1. Key(e) \in KeySet
        BY ElementFacts
      <4> QED BY <4>1, CodeType DEF Code
    <3> QED BY <3>3, <3>4, <2>1, <2>3
  <2> HIDE DEF p, q, c
  <2>6. cells[p].base = cells[q].base
    <3>1. \A x, y, z \in Int : x + z = y + z => x = y
      OBVIOUS
    <3>2. cells[p].base + c = cells[q].base + c
      BY <2>4
    <3> QED BY <2>5, <3>1, <3>2, Zenon
  <2>7. p = q
    BY <2>1, <2>3, <2>6 DEF CellsInv, p, q
  <2>8. n = h /\ AgreeTo(Key(e), Key(d), n)
    BY <2>1, <2>3, <2>7, <1>2 DEF p, q
  <2>9. CodeAt(Key(e), n) = CodeAt(Key(d), n)
    BY <2>4, <2>8 DEF c, Code
  <2> QED BY <2>2, <2>8, <2>9, AgreementNext
<1>3. Nat \subseteq T
  <2> HIDE DEF P
  <2>1. 0 \in T
    BY <1>1
  <2>2. ASSUME NEW n \in Nat, n \in T PROVE n + 1 \in T
    BY <2>2, <1>2
  <2> HIDE DEF T
  <2> QED BY <2>1, <2>2, SetInduction
<1>4. k \in Nat /\ m \in Nat
  BY DEF OnWay
<1>5. P(k)
  <2> HIDE DEF P
  <2> QED BY <1>3, <1>4
<1> QED BY <1>4, <1>5
-----------------------------------------------------------------------------
(* What is found in a trie that is built                                   *)

TextWay(b) == Way(cells, 0, Append(b, Terminator))

LEMMA TextWayFacts ==
    ASSUME NEW b \in KeySet
    PROVE  /\ Len(b) \in Nat /\ Len(Append(b, Terminator)) = Len(b) + 1
           /\ TextWay(b)[0] = 0
           /\ \A n \in 0..Len(b) : /\ Append(b, Terminator)[n + 1] = CodeAt(b, n)
                                   /\ TextWay(b)[n + 1] = Child(cells, TextWay(b)[n], CodeAt(b, n))
           /\ \A root : /\ Way(cells, root, Append(b, Terminator))[0] = root
                        /\ \A n \in 0..Len(b) :
                              Way(cells, root, Append(b, Terminator))[n + 1] =
                                  Child(cells, Way(cells, root, Append(b, Terminator))[n], CodeAt(b, n))
<1> DEFINE c == Append(b, Terminator)
<1>1. b \in Seq(Nat) /\ Len(b) \in Nat
  <2>1. 1..Vacant - 1 \subseteq Nat
    BY VacantAssumption
  <2>2. b \in Seq(Nat)
    BY <2>1, SeqOfMore DEF KeySet
  <2> QED BY <2>2, LenProperties
<1>2. Len(c) = Len(b) + 1 /\ (\A i \in 1..Len(b) : c[i] = b[i]) /\ c[Len(b) + 1] = Terminator
  <2>1. Terminator \in Nat
    BY DEF Terminator
  <2> QED BY <1>1, <2>1, AppendProperties
<1> HIDE DEF c
<1>3. ASSUME NEW n \in 0..Len(b) PROVE c[n + 1] = CodeAt(b, n)
  <2>1. CASE n = Len(b)
    BY <2>1, <1>1, <1>2 DEF CodeAt
  <2>2. CASE n # Len(b)
    <3>1. n + 1 \in 1..Len(b) /\ n < Len(b)
      BY <2>2, <1>1
    <3> QED BY <3>1, <1>2 DEF CodeAt
  <2> QED BY <2>1, <2>2
<1>4. \A root : IsWay(Way(cells, root, c), cells, root, c)
  BY <1>1, <1>2, WayProperties
<1>5. \A n \in 0..Len(b) : n \in 0..Len(c) - 1
  BY <1>1, <1>2
<1>6. \A root : /\ Way(cells, root, c)[0] = root
                /\ \A n \in 0..Len(b) : Way(cells, root, c)[n + 1] = Child(cells, Way(cells, root, c)[n], CodeAt(b, n))
  BY <1>3, <1>4, <1>5 DEF IsWay
<1> QED BY <1>1, <1>2, <1>3, <1>6 DEF c, TextWay

\* A text has gone on with an element.
GoesWith(b, n, e) ==
    OnWay(e, n) /\ TextWay(b)[n] = WayOf(e)[n] /\ AgreeTo(b, Key(e), n)

IsKnown(b, n) ==
    TextWay(b)[n] # None => n = 0 \/ \E e \in DOMAIN elements : GoesWith(b, n, e)

\* The node a text has come to, if it has a base.
LEMMA KnownNode ==
    ASSUME ElementsInv, CellsInv, frames = <<>>, NEW b \in KeySet, NEW n \in Nat, n <= Len(b),
           IsKnown(b, n), TextWay(b)[n] # None
    PROVE  TextWay(b)[n] \in Inner
<1>0. 0 \in Inner
  BY DEF Inner, CellsInv
<1>1. CASE n = 0
  BY <1>0, <1>1, TextWayFacts
<1>2. CASE n # 0
  <2>1. PICK e \in DOMAIN elements : GoesWith(b, n, e)
    BY <1>2 DEF IsKnown
  <2>2. PICK k \in Nat : k + 1 = n
    <3>1. n - 1 \in Nat /\ (n - 1) + 1 = n
      BY <1>2
    <3> QED BY <3>1
  <2>3. OnWay(e, k + 1)
    BY <2>1, <2>2 DEF GoesWith
  <2>4. cells[WayOf(e)[n]].check = Code(e, k) /\ Code(e, k) # Vacant
    BY <2>2, <2>3, OnWayNext
  <2>5. Code(e, k) = CodeAt(b, k)
    <3>1. k \in 0..n - 1
      BY <2>2
    <3> QED BY <3>1, <2>1 DEF GoesWith, AgreeTo, Code
  <2>6. CodeAt(b, k) > 0
    <3>1. k < Len(b)
      BY <2>2, TextWayFacts
    <3> QED BY <3>1, CodeFacts
  <2>7. Code(e, k) # Terminator
    BY <2>5, <2>6 DEF Terminator
  <2>8. TextWay(b)[n] = WayOf(e)[n] /\ WayOf(e)[n] \in DOMAIN cells
    BY <2>1 DEF GoesWith, OnWay
  <2> QED BY <2>4, <2>7, <2>8 DEF Inner
<1> QED BY <1>1, <1>2

LEMMA KnownNext ==
    ASSUME ElementsInv, CellsInv, NodesInv, frames = <<>>, NEW b \in KeySet,
           NEW n \in Nat, n <= Len(b), IsKnown(b, n)
    PROVE  IsKnown(b, n + 1)
<1> SUFFICES ASSUME TextWay(b)[n + 1] # None
             PROVE  \E e \in DOMAIN elements : GoesWith(b, n + 1, e)
  BY DEF IsKnown
<1> DEFINE i == TextWay(b)[n + 1]
           p == TextWay(b)[n]
           c == CodeAt(b, n)
<1>1. i = Child(cells, p, c)
  <2>1. n \in 0..Len(b)
    BY TextWayFacts
  <2> QED BY <2>1, TextWayFacts
<1>2. p # None /\ i \in DOMAIN cells /\ i = cells[p].base + c /\ cells[i].check = c
  BY <1>1 DEF Child
<1>3. p \in Inner
  BY <1>2, KnownNode
<1>4. c \in Nat /\ c # Vacant
  <2>1. c \in 0..Vacant - 1
    BY CodeFacts
  <2> QED BY <2>1, VacantAssumption
<1> HIDE DEF i, p, c
<1>5. PICK d \in DOMAIN elements : \E k \in 1..Len(Key(d)) + 1 :
          WayOf(d)[k] = i /\ \A j \in 0..k - 1 : WayOf(d)[j] \in Inner
  BY <1>2, <1>4 DEF NodesInv
<1>6. PICK k \in 1..Len(Key(d)) + 1 : WayOf(d)[k] = i /\ \A j \in 0..k - 1 : WayOf(d)[j] \in Inner
  BY <1>5
<1>7. PICK h \in Nat : h + 1 = k
  <2>1. Len(Key(d)) \in Nat
    BY WayFacts
  <2>2. k - 1 \in Nat /\ (k - 1) + 1 = k
    BY <2>1
  <2> QED BY <2>2
<1>8. OnWay(d, h + 1)
  <2>1. Len(Key(d)) \in Nat
    BY WayFacts
  <2>2. k \in Nat /\ k <= Len(Key(d)) + 1
    BY <2>1
  <2> QED BY <2>2, <1>2, <1>6, <1>7 DEF OnWay
<1> DEFINE q == WayOf(d)[h]
<1>9. /\ OnWay(d, h) /\ q \in Inner /\ i = cells[q].base + Code(d, h)
      /\ cells[i].check = Code(d, h)
  BY <1>6, <1>7, <1>8, OnWayNext
<1> HIDE DEF q
<1>10. p = q
  <2>1. cells[p].base \in Int /\ cells[q].base \in Int
    <3>1. \A x \in Inner : cells[x] \in CellType
      BY DEF CellsInv, Inner
    <3>2. -BaseHalf..BaseHalf - 1 \subseteq Int
      BY BaseAssumption
    <3>3. \A x \in Inner : cells[x].base \in Int
      BY <3>1, <3>2 DEF CellType
    <3> QED BY <3>3, <1>3, <1>9
  <2>2. cells[p].base + c = cells[q].base + c
    BY <1>2, <1>9
  <2>3. \A x, y, z \in Int : x + z = y + z => x = y
    OBVIOUS
  <2>4. c \in Int
    BY <1>4
  <2>5. cells[p].base = cells[q].base
    BY <2>1, <2>2, <2>3, <2>4, Zenon
  <2> QED BY <2>5, <1>3, <1>9 DEF CellsInv
<1>11. h = n /\ AgreeTo(b, Key(d), n)
  <2>1. CASE n = 0
    <3>1. q = 0
      BY <1>10, <2>1, TextWayFacts DEF p
    <3>2. h = 0
      <4> SUFFICES ASSUME h # 0 PROVE FALSE
        OBVIOUS
      <4>1. PICK g \in Nat : g + 1 = h
        <5>1. h - 1 \in Nat /\ (h - 1) + 1 = h
          OBVIOUS
        <5> QED BY <5>1
      <4>2. WayOf(d)[h] # 0
        BY <4>1, <1>9, OnWayNext
      <4> QED BY <4>2, <3>1 DEF q
    <3> QED BY <3>2, <2>1 DEF AgreeTo
  <2>2. CASE n # 0
    <3>1. PICK e \in DOMAIN elements : GoesWith(b, n, e)
      BY <2>2, <1>2 DEF IsKnown, p
    <3>2. WayOf(d)[h] = WayOf(e)[n] /\ OnWay(e, n) /\ AgreeTo(b, Key(e), n)
      BY <3>1, <1>10 DEF GoesWith, p, q
    <3>3. h = n /\ AgreeTo(Key(d), Key(e), h)
      BY <3>2, <1>9, WaysMeet
    <3> QED BY <3>2, <3>3, Agreement
  <2> QED BY <2>1, <2>2
<1>12. CodeAt(b, n) = CodeAt(Key(d), n)
  BY <1>2, <1>9, <1>11 DEF c, Code
<1>13. AgreeTo(b, Key(d), n + 1)
  BY <1>11, <1>12, AgreementNext
<1>14. TextWay(b)[n + 1] = WayOf(d)[n + 1] /\ OnWay(d, n + 1)
  BY <1>6, <1>7, <1>8, <1>11 DEF i
<1> QED BY <1>13, <1>14 DEF GoesWith

\* A text that leads to a node goes with an element.
LEMMA KnownWay ==
    ASSUME ElementsInv, CellsInv, NodesInv, frames = <<>>, NEW b \in KeySet,
           NEW n \in Nat, n <= Len(b) + 1
    PROVE  IsKnown(b, n)
<1> DEFINE T == {k \in Nat : k <= Len(b) + 1 => IsKnown(b, k)}
<1>0. Len(b) \in Nat
  BY TextWayFacts
<1>1. 0 \in T
  BY DEF IsKnown
<1>2. ASSUME NEW k \in Nat, k \in T PROVE k + 1 \in T
  <2> SUFFICES ASSUME k + 1 <= Len(b) + 1 PROVE IsKnown(b, k + 1)
    OBVIOUS
  <2>1. k <= Len(b) /\ IsKnown(b, k)
    BY <1>0, <1>2
  <2> QED BY <2>1, KnownNext
<1>3. Nat \subseteq T
  <2> HIDE DEF T
  <2> QED BY <1>1, <1>2, SetInduction
<1> QED BY <1>3
-----------------------------------------------------------------------------
(* A trie that is built answers as a map from its keys.                    *)

\* What a key leads to, if it is the text of an element.
LEMMA WholeText ==
    ASSUME ElementsInv, NEW b \in KeySet, NEW e \in DOMAIN elements,
           AgreeTo(b, Key(e), Len(b) + 1), Len(b) <= Len(Key(e))
    PROVE  b = Key(e)
<1>1. Key(e) \in KeySet /\ Len(b) \in Nat /\ Len(Key(e)) \in Nat
  BY ElementFacts, TextWayFacts, WayFacts
<1>2. CodeAt(b, Len(b)) = CodeAt(Key(e), Len(b)) /\ CodeAt(b, Len(b)) = 0
  <2>1. Len(b) \in 0..(Len(b) + 1) - 1 /\ Len(b) >= Len(b)
    BY <1>1
  <2> QED BY <2>1, <1>1, CodeFacts DEF AgreeTo
<1>3. Len(Key(e)) = Len(b)
  <2>1. Len(b) < Len(Key(e)) => CodeAt(Key(e), Len(b)) > 0
    BY <1>1, CodeFacts
  <2> QED BY <2>1, <1>1, <1>2
<1>4. \A i \in 1..Len(b) : b[i] = Key(e)[i]
  <2> TAKE i \in 1..Len(b)
  <2>1. /\ i - 1 \in Nat /\ i - 1 < Len(b) /\ i - 1 < Len(Key(e)) /\ (i - 1) + 1 = i
        /\ i - 1 \in 0..(Len(b) + 1) - 1
    BY <1>1, <1>3
  <2>2. CodeAt(b, i - 1) = b[i] /\ CodeAt(Key(e), i - 1) = Key(e)[i]
    BY <2>1 DEF CodeAt
  <2> QED BY <2>1, <2>2 DEF AgreeTo
<1> QED BY <1>1, <1>3, <1>4, SeqEqual DEF KeySet

\* A key is found with the value that is expected, or it is none and is not found.
LEMMA FindsExpected ==
    ASSUME ElementsInv, CellsInv, KeysInv, NodesInv, frames = <<>>, NEW b \in KeySet
    PROVE  Find(0, b) = Expected(b)
<1> DEFINE leaf == TextWay(b)[Len(b) + 1]
<1>1. Len(b) \in Nat /\ Traverse(0, Append(b, Terminator)) = leaf
  BY TextWayFacts DEF Traverse, TextWay
<1>2. Find(0, b) = IF leaf = None THEN NoValue ELSE <<cells[leaf].base>>
  BY <1>1 DEF Find
<1>3. ASSUME NEW e \in DOMAIN elements, Key(e) = b
      PROVE  leaf # None /\ <<cells[leaf].base>> = Expected(b)
  <2>1. Pending(e) = {}
    BY DEF Pending
  <2>2. /\ WayOf(e)[Len(Key(e)) + 1] \in DOMAIN cells
        /\ <<cells[WayOf(e)[Len(Key(e)) + 1]].base>> = Expected(Key(e))
    BY <2>1 DEF KeysInv
  <2>3. leaf = WayOf(e)[Len(Key(e)) + 1]
    BY <1>3 DEF TextWay, WayOf
  <2>4. leaf \in DOMAIN cells
    BY <2>2, <2>3
  <2>5. leaf # None
    BY <2>4 DEF CellsInv, None
  <2> QED BY <2>2, <2>3, <2>5, <1>3
<1> HIDE DEF leaf
<1>4. CASE leaf # None
  <2>1. IsKnown(b, Len(b) + 1)
    <3>1. Len(b) + 1 \in Nat /\ Len(b) + 1 <= Len(b) + 1
      BY <1>1
    <3> QED BY <3>1, KnownWay
  <2>2. PICK e \in DOMAIN elements : GoesWith(b, Len(b) + 1, e)
    <3>1. Len(b) + 1 # 0
      BY <1>1
    <3> QED BY <3>1, <2>1, <1>4 DEF IsKnown, leaf
  <2>3. Len(b) <= Len(Key(e))
    <3>1. Len(b) + 1 <= Len(Key(e)) + 1 /\ Len(Key(e)) \in Nat
      BY <2>2, WayFacts DEF GoesWith, OnWay
    <3> QED BY <3>1, <1>1
  <2>4. b = Key(e)
    BY <2>2, <2>3, WholeText DEF GoesWith
  <2> QED BY <2>4, <1>2, <1>3, <1>4
<1>5. CASE leaf = None
  <2>1. ~\E e \in DOMAIN elements : Key(e) = b
    BY <1>3, <1>5
  <2>2. {i \in DOMAIN elements : First(i) /\ elements[i].key = b} = {}
    BY <2>1 DEF Key
  <2>3. Expected(b) = NoValue
    BY <2>2 DEF Expected
  <2> QED BY <2>3, <1>2, <1>5
<1> QED BY <1>4, <1>5

\* Where a text leads, before its end is looked at.
LEMMA TextLeads ==
    ASSUME NEW b \in KeySet
    PROVE  Traverse(0, b) = TextWay(b)[Len(b)]
<1> DEFINE a == Append(b, Terminator)
           v == TextWay(b)
           w == Way(cells, 0, b)
<1>1. Len(b) \in Nat /\ Len(a) = Len(b) + 1 /\ \A n \in 0..Len(b) : a[n + 1] = CodeAt(b, n)
  BY TextWayFacts
<1>2. Len(a) \in Nat
  BY <1>1
<1>3. IsWay(v, cells, 0, a) /\ IsWay(w, cells, 0, b)
  BY <1>1, <1>2, WayProperties DEF TextWay
<1>4. Traverse(0, b) = w[Len(b)]
  BY DEF Traverse
<1> HIDE DEF a, v, w
<1>5. SameChildren(v, cells, a, cells, b, Len(b))
  <2> SUFFICES ASSUME NEW i \in 0..Len(b) - 1 PROVE b[i + 1] = a[i + 1]
    BY DEF SameChildren
  <2>1. i \in 0..Len(b) /\ i < Len(b)
    BY <1>1
  <2> QED BY <2>1, <1>1 DEF CodeAt
<1>6. SameWay(v, w, Len(b))
  <2>1. Len(b) <= Len(a) /\ Len(b) <= Len(b)
    BY <1>1
  <2> QED BY <2>1, <1>1, <1>2, <1>3, <1>5, WaysAgree
<1>7. w[Len(b)] = v[Len(b)]
  <2>1. Len(b) \in 0..Len(b)
    BY <1>1
  <2> QED BY <2>1, <1>6 DEF SameWay
<1> QED BY <1>4, <1>7 DEF v

\* There is a node for the beginnings of the keys, and for no other text.
LEMMA NodesOfBeginnings ==
    ASSUME ElementsInv, CellsInv, KeysInv, NodesInv, frames = <<>>, NEW b \in KeySet
    PROVE  (Traverse(0, b) # None) <=>
               (Len(b) = 0 \/ \E e \in DOMAIN elements : Len(b) <= Len(Key(e)) /\ AgreeTo(b, Key(e), Len(b)))
<1>1. Len(b) \in Nat /\ Traverse(0, b) = TextWay(b)[Len(b)] /\ TextWay(b)[0] = 0
  BY TextLeads, TextWayFacts
<1>2. ASSUME Traverse(0, b) # None, Len(b) # 0
      PROVE  \E e \in DOMAIN elements : Len(b) <= Len(Key(e)) /\ AgreeTo(b, Key(e), Len(b))
  <2>1. IsKnown(b, Len(b))
    <3>1. Len(b) <= Len(b) + 1
      BY <1>1
    <3> QED BY <1>1, <3>1, KnownWay
  <2>2. PICK e \in DOMAIN elements : GoesWith(b, Len(b), e)
    BY <2>1, <1>1, <1>2 DEF IsKnown
  <2>3. Len(b) <= Len(Key(e))
    <3> SUFFICES ASSUME ~(Len(b) <= Len(Key(e))) PROVE FALSE
      OBVIOUS
    <3>1. Len(b) <= Len(Key(e)) + 1 /\ Len(Key(e)) \in Nat /\ Key(e) \in KeySet
      BY <2>2, WayFacts, ElementFacts DEF GoesWith, OnWay
    <3>2. Len(Key(e)) \in 0..Len(b) - 1 /\ Len(Key(e)) < Len(b) /\ Len(Key(e)) >= Len(Key(e))
      BY <3>1, <1>1
    <3>3. CodeAt(b, Len(Key(e))) > 0 /\ CodeAt(Key(e), Len(Key(e))) = 0
      BY <3>1, <3>2, CodeFacts
    <3> QED BY <3>2, <3>3, <2>2 DEF GoesWith, AgreeTo
  <2> QED BY <2>2, <2>3 DEF GoesWith
<1>3. ASSUME Len(b) = 0 PROVE Traverse(0, b) # None
  BY <1>1, <1>3 DEF None
<1>4. ASSUME NEW e \in DOMAIN elements, Len(b) <= Len(Key(e)), AgreeTo(b, Key(e), Len(b))
      PROVE  Traverse(0, b) # None
  <2>1. Key(e) \in KeySet /\ Len(Key(e)) \in Nat
    BY ElementFacts, WayFacts
  <2>2. SubSeq(b, 1, Len(b)) = SubSeq(Key(e), 1, Len(b))
    <3>1. Len(b) <= Len(b)
      BY <1>1
    <3> QED BY <3>1, <2>1, <1>1, <1>4, SameBeginning
  <2>3. SubSeq(b, 1, Len(b)) = b
    BY SubSeqFull DEF KeySet
  <2>4. Traverse(0, b) = WayOf(e)[Len(b)]
    BY <2>2, <2>3, <1>1, <1>4, BeginningLeads
  <2>5. WayOf(e)[Len(b)] \in Inner
    <3>1. Pending(e) = {}
      BY DEF Pending
    <3>2. Len(b) \in 0..Len(Key(e))
      BY <1>1, <1>4, <2>1
    <3> QED BY <3>1, <3>2 DEF KeysInv
  <2>6. Traverse(0, b) \in DOMAIN cells
    BY <2>4, <2>5 DEF Inner
  <2> QED BY <2>6 DEF CellsInv, None
<1> QED BY <1>2, <1>3, <1>4

\* From the root of the subtrie of a beginning the rest of a key leads where the
\* key leads from the root of the trie.
LEMMA SubtrieFinds ==
    ASSUME NEW a \in KeySet, NEW b \in KeySet, NEW ab \in KeySet, ab = a \o b
    PROVE  Find(Traverse(0, a), b) = Find(0, ab)
<1> DEFINE root == Traverse(0, a)
           u == Way(cells, root, Append(b, Terminator))
           v == TextWay(ab)
           T == {n \in Nat : n <= Len(b) + 1 => u[n] = v[Len(a) + n]}
<1>0. /\ Len(a) \in Nat /\ Len(b) \in Nat /\ Len(ab) = Len(a) + Len(b)
      /\ (\A i \in 1..Len(a) : ab[i] = a[i]) /\ (\A i \in 1..Len(b) : ab[Len(a) + i] = b[i])
  BY JoinProperties DEF KeySet, IsJoin
<1>1. /\ u[0] = root
      /\ \A n \in 0..Len(b) : u[n + 1] = Child(cells, u[n], CodeAt(b, n))
      /\ Len(Append(b, Terminator)) = Len(b) + 1
  BY TextWayFacts
<1>2. /\ v[0] = 0
      /\ \A n \in 0..Len(ab) : v[n + 1] = Child(cells, v[n], CodeAt(ab, n))
      /\ Len(Append(ab, Terminator)) = Len(ab) + 1
  BY TextWayFacts
<1>3. root = v[Len(a)]
  <2> DEFINE w == TextWay(a)
             U == {n \in Nat : n <= Len(a) => w[n] = v[n]}
  <2>1. w[0] = 0 /\ \A n \in 0..Len(a) : w[n + 1] = Child(cells, w[n], CodeAt(a, n))
    BY TextWayFacts
  <2>2. root = w[Len(a)]
    BY TextLeads
  <2> HIDE DEF w, v, root
  <2>3. 0 \in U
    BY <2>1, <1>2
  <2>4. ASSUME NEW n \in Nat, n \in U PROVE n + 1 \in U
    <3> SUFFICES ASSUME n + 1 <= Len(a) PROVE w[n + 1] = v[n + 1]
      OBVIOUS
    <3>1. n \in 0..Len(a) /\ n \in 0..Len(ab) /\ n < Len(a) /\ n < Len(ab) /\ n + 1 \in 1..Len(a)
      BY <1>0
    <3>2. w[n] = v[n]
      BY <2>4, <3>1
    <3>3. CodeAt(a, n) = CodeAt(ab, n)
      BY <3>1, <1>0 DEF CodeAt
    <3> QED BY <3>1, <3>2, <3>3, <2>1, <1>2
  <2>5. Nat \subseteq U
    <3> HIDE DEF U
    <3> QED BY <2>3, <2>4, SetInduction
  <2>6. Len(a) <= Len(a)
    BY <1>0
  <2> QED BY <2>2, <2>5, <2>6, <1>0
<1> HIDE DEF u, v, root
<1>4. 0 \in T
  <2>1. Len(a) + 0 = Len(a)
    BY <1>0
  <2> QED BY <2>1, <1>1, <1>3
<1>5. ASSUME NEW n \in Nat, n \in T PROVE n + 1 \in T
  <2> SUFFICES ASSUME n + 1 <= Len(b) + 1 PROVE u[n + 1] = v[Len(a) + (n + 1)]
    OBVIOUS
  <2>1. n \in 0..Len(b) /\ Len(a) + n \in 0..Len(ab) /\ Len(a) + (n + 1) = (Len(a) + n) + 1
    BY <1>0
  <2>2. u[n] = v[Len(a) + n]
    BY <1>5, <1>0, <2>1
  <2>3. CodeAt(b, n) = CodeAt(ab, Len(a) + n)
    <3>1. CASE n < Len(b)
      <4>1. n + 1 \in 1..Len(b) /\ Len(a) + n < Len(ab)
        BY <3>1, <1>0
      <4> QED BY <4>1, <2>1, <3>1, <1>0 DEF CodeAt
    <3>2. CASE ~(n < Len(b))
      <4>1. ~(Len(a) + n < Len(ab))
        BY <3>2, <1>0
      <4> QED BY <4>1, <3>2 DEF CodeAt
    <3> QED BY <3>1, <3>2
  <2> QED BY <2>1, <2>2, <2>3, <1>1, <1>2
<1>6. Nat \subseteq T
  <2> HIDE DEF T
  <2> QED BY <1>4, <1>5, SetInduction
<1>7. u[Len(b) + 1] = v[Len(ab) + 1]
  <2>1. Len(b) + 1 \in Nat /\ Len(b) + 1 <= Len(b) + 1 /\ Len(a) + (Len(b) + 1) = Len(ab) + 1
    BY <1>0
  <2> QED BY <2>1, <1>6
<1>8. Traverse(root, Append(b, Terminator)) = Traverse(0, Append(ab, Terminator))
  BY <1>1, <1>2, <1>7 DEF Traverse, TextWay, u, v
<1> QED BY <1>8 DEF Find, root
-----------------------------------------------------------------------------
(* The serialized keys                                                     *)

EscapedBytes == [b \in Byte |-> Escaped(b)]

LEMMA EscapedIs ==
    ASSUME NEW b
    PROVE  /\ b = 0 => Escaped(b) = <<Fe>>
           /\ b # 0 /\ b \in {Fd, Fe} => Escaped(b) = <<Fd, b>>
           /\ b # 0 /\ b \notin {Fd, Fe} => Escaped(b) = <<b>>
<1>0. Fd # 0 /\ Fe # 0
  BY TopByteAssumption DEF Fd, Fe
<1>1. CASE b = 0
  <2>0. b \notin {Fd, Fe}
    BY <1>0, <1>1
  <2>1. Escaped(b) = <<Fe>>
    BY <1>1, <2>0, Zenon DEF Escaped
  <2> QED BY <1>1, <2>1
<1>2. CASE b # 0 /\ b \in {Fd, Fe}
  <2>1. Escaped(b) = <<Fd, b>>
    BY <1>2, Zenon DEF Escaped
  <2> QED BY <1>2, <2>1
<1>3. CASE b # 0 /\ b \notin {Fd, Fe}
  <2>1. Escaped(b) = <<b>>
    BY <1>3, Zenon DEF Escaped
  <2> QED BY <1>3, <2>1
<1> QED BY <1>1, <1>2, <1>3

\* What a byte is escaped to does not begin with what another one is escaped to.
LEMMA EscapedIsCode == IsCode(EscapedBytes, Byte, Byte)
<1>0. /\ TopByte \in Nat /\ TopByte >= 2 /\ Fd = TopByte - 2 /\ Fe = TopByte - 1
      /\ \A b : b \in Byte <=> b \in Nat /\ b <= TopByte
  BY TopByteAssumption DEF Fd, Fe, Byte
<1>1. Fd \in Byte /\ Fe \in Byte /\ Fd # Fe /\ Fe # 0
  BY <1>0
<1>2. ASSUME NEW b \in Byte PROVE Escaped(b) \in Seq(Byte) /\ Len(Escaped(b)) # 0
  <2>0. /\ \A x \in Byte : <<x>> \in Seq(Byte) /\ Len(<<x>>) # 0
        /\ \A x, y \in Byte : <<x, y>> \in Seq(Byte) /\ Len(<<x, y>>) # 0
    OBVIOUS
  <2>1. CASE b = 0
    <3>1. Escaped(b) = <<Fe>>
      BY <2>1, EscapedIs
    <3> QED BY <3>1, <2>0, <1>1
  <2>2. CASE b # 0 /\ b \in {Fd, Fe}
    <3>1. Escaped(b) = <<Fd, b>>
      BY <2>2, EscapedIs
    <3> QED BY <3>1, <2>0, <1>1
  <2>3. CASE b # 0 /\ b \notin {Fd, Fe}
    <3>1. Escaped(b) = <<b>>
      BY <2>3, EscapedIs
    <3> QED BY <3>1, <2>0
  <2> QED BY <2>1, <2>2, <2>3
<1>3. ASSUME NEW b \in Byte, NEW c \in Byte, IsStart(Escaped(b), Escaped(c)) PROVE b = c
  <2>1. ASSUME NEW x, NEW y, IsStart(<<x>>, <<y>>) PROVE x = y
    BY <2>1 DEF IsStart
  <2>2. ASSUME NEW x, NEW y, NEW z, IsStart(<<x>>, <<y, z>>) PROVE x = y
    BY <2>2 DEF IsStart
  <2>3. ASSUME NEW x, NEW y, NEW z, NEW u, IsStart(<<x, u>>, <<y, z>>) PROVE u = z
    BY <2>3 DEF IsStart
  <2>4. ASSUME NEW x, NEW y, NEW z, IsStart(<<x, y>>, <<z>>) PROVE FALSE
    BY <2>4 DEF IsStart
  <2>5. CASE b = 0
    <3>1. Escaped(b) = <<Fe>>
      BY <2>5, EscapedIs
    <3>2. CASE c = 0
      BY <2>5, <3>2
    <3>3. CASE c # 0 /\ c \in {Fd, Fe}
      <4>1. Escaped(c) = <<Fd, c>>
        BY <3>3, EscapedIs
      <4> QED BY <4>1, <3>1, <1>1, <1>3, <2>2
    <3>4. CASE c # 0 /\ c \notin {Fd, Fe}
      <4>1. Escaped(c) = <<c>>
        BY <3>4, EscapedIs
      <4> QED BY <4>1, <3>1, <3>4, <1>3, <2>1
    <3> QED BY <3>2, <3>3, <3>4
  <2>6. CASE b # 0 /\ b \in {Fd, Fe}
    <3>1. Escaped(b) = <<Fd, b>>
      BY <2>6, EscapedIs
    <3>2. CASE c = 0
      <4>1. Escaped(c) = <<Fe>>
        BY <3>2, EscapedIs
      <4> QED BY <4>1, <3>1, <1>3, <2>4
    <3>3. CASE c # 0 /\ c \in {Fd, Fe}
      <4>1. Escaped(c) = <<Fd, c>>
        BY <3>3, EscapedIs
      <4> QED BY <4>1, <3>1, <1>3, <2>3
    <3>4. CASE c # 0 /\ c \notin {Fd, Fe}
      <4>1. Escaped(c) = <<c>>
        BY <3>4, EscapedIs
      <4> QED BY <4>1, <3>1, <1>3, <2>4
    <3> QED BY <3>2, <3>3, <3>4
  <2>7. CASE b # 0 /\ b \notin {Fd, Fe}
    <3>1. Escaped(b) = <<b>>
      BY <2>7, EscapedIs
    <3>2. CASE c = 0
      <4>1. Escaped(c) = <<Fe>>
        BY <3>2, EscapedIs
      <4> QED BY <4>1, <3>1, <2>7, <1>3, <2>1
    <3>3. CASE c # 0 /\ c \in {Fd, Fe}
      <4>1. Escaped(c) = <<Fd, c>>
        BY <3>3, EscapedIs
      <4> QED BY <4>1, <3>1, <2>7, <1>3, <2>2
    <3>4. CASE c # 0 /\ c \notin {Fd, Fe}
      <4>1. Escaped(c) = <<c>>
        BY <3>4, EscapedIs
      <4> QED BY <4>1, <3>1, <1>3, <2>1
    <3> QED BY <3>2, <3>3, <3>4
  <2> QED BY <2>5, <2>6, <2>7
<1>4. EscapedBytes \in [Byte -> Seq(Byte)] /\ \A b \in Byte : EscapedBytes[b] = Escaped(b)
  BY <1>2 DEF EscapedBytes
<1> QED BY <1>2, <1>3, <1>4 DEF IsCode

\* The bytes of the characters of a trie, as its keys have them.
CharacterBytes(trie) ==
    [c \in CharactersOf(trie) |-> ToBytes(c, KeyWidth, trie.escape)]

LEMMA CharactersAreCode ==
    ASSUME KeysDiffer, NEW trie \in Tries
    PROVE  IsCode(CharacterBytes(trie), CharactersOf(trie), Byte)
<1> DEFINE Chars == CharactersOf(trie)
           v == [c \in Chars |-> ToBytesWithoutEscape(c, KeyWidth)]
           w == CharacterBytes(trie)
<1>1. /\ KeyWidth \in Nat /\ KeyWidth # 0
      /\ v \in [Chars -> [1..KeyWidth -> Byte]]
      /\ \A c, d \in Chars : v[c] = v[d] => c = d
  BY DEF KeysDiffer
<1>2. CASE trie.escape
  <2> DEFINE x == [c \in Chars |-> Spelled(EscapedBytes, v[c])]
  <2>1. IsCode(x, Chars, Byte)
    <3> HIDE DEF v, Chars
    <3> QED BY <1>1, EscapedIsCode, CodeOfCode
  <2>2. ASSUME NEW c \in Chars PROVE ToBytes(c, KeyWidth, trie.escape) = Spelled(EscapedBytes, v[c])
    <3> DEFINE bytes == ToBytesWithoutEscape(c, KeyWidth)
    <3>1. bytes = v[c] /\ bytes \in [1..KeyWidth -> Byte]
      BY <1>1
    <3>2. ToBytes(c, KeyWidth, trie.escape) = FlattenSeq([i \in 1..KeyWidth |-> Escaped(bytes[i])])
      BY <1>2 DEF ToBytes, ToBytesWithEscape
    <3> HIDE DEF bytes
    <3>3. Words(EscapedBytes, bytes) = [i \in 1..KeyWidth |-> Escaped(bytes[i])]
      BY <3>1 DEF Words, EscapedBytes
    <3> QED BY <3>1, <3>2, <3>3 DEF Spelled
  <2>3. w = x
    BY <2>2 DEF CharacterBytes
  <2> QED BY <2>1, <2>3
<1>3. CASE ~trie.escape
  <2>1. w = v
    BY <1>3 DEF CharacterBytes, ToBytes
  <2>2. \A c \in Chars : v[c] \in Seq(Byte) /\ Len(v[c]) = KeyWidth
    BY <1>1, FunctionIsSeq
  <2>3. v \in [Chars -> Seq(Byte)]
    BY <2>2
  <2>4. ASSUME NEW c \in Chars, NEW d \in Chars, IsStart(v[c], v[d]) PROVE c = d
    <3>1. Len(v[d]) <= Len(v[c])
      BY <1>1, <2>2
    <3>2. v[c] = v[d]
      BY <3>1, <2>2, <2>4, StartsAreSame
    <3> QED BY <3>2, <1>1
  <2>5. IsCode(v, Chars, Byte)
    <3> HIDE DEF v, Chars
    <3> QED BY <1>1, <2>2, <2>3, <2>4 DEF IsCode
  <2> QED BY <2>1, <2>5
<1> QED BY <1>2, <1>3

LEMMA FormIsSpelled ==
    ASSUME NEW trie, NEW s \in Seq(CharactersOf(trie))
    PROVE  Serialized(s, KeyWidth, trie.escape) = Spelled(CharacterBytes(trie), s)
<1>1. \A i \in DOMAIN s : s[i] \in CharactersOf(trie)
  BY LenProperties, ElementOfSeq
<1>2. Words(CharacterBytes(trie), s) = [i \in DOMAIN s |-> ToBytes(s[i], KeyWidth, trie.escape)]
  BY <1>1 DEF Words, CharacterBytes
<1> QED BY <1>2 DEF Serialized, Spelled
-----------------------------------------------------------------------------
(* What the client is promised                                             *)

\* The key of an element as the client has it.
TypedKey(e) == typed.keys[elements[e].value + 1]

TypedInv == typed \in Tries /\ ElementsInv /\ ContentsInv

LEMMA TypedKeys ==
    ASSUME KeysFit, KeysDiffer, TypedInv
    PROVE  /\ \A e \in DOMAIN elements :
                 /\ elements[e].value + 1 \in DOMAIN typed.keys
                 /\ TypedKey(e) \in StringsOf(typed) /\ Key(e) = Form(TypedKey(e))
           /\ \A n \in DOMAIN typed.keys : \E e \in DOMAIN elements : elements[e].value = n - 1
           /\ \A e, d \in DOMAIN elements :
                 e < d /\ Key(e) = Key(d) => elements[e].value < elements[d].value
           /\ DOMAIN typed.keys \subseteq Nat
<1> DEFINE list == Contents(typed)
           m == Len(list)
<1>1. list \in Seq([key : KeySet, value : 0..BaseHalf - 1])
  BY DEF KeysFit, TypedInv, KeySet
<1>2. m \in Nat /\ DOMAIN list = 1..m
  BY <1>1, LenProperties
<1>3. DOMAIN typed.keys = 1..m
  <2>1. DOMAIN list = DOMAIN typed.keys
    BY DEF Contents
  <2> QED BY <1>2, <2>1
<1>4. \A n \in 1..m : list[n].key = Form(typed.keys[n]) /\ list[n].value = n - 1
  BY <1>3 DEF Contents, Form
<1>5. PICK f : IsPermuted(elements, list, f) /\ IsInKeyOrder(list, f)
  BY DEF TypedInv, ContentsInv
<1>6. DOMAIN elements = 1..m
  BY ElementFacts DEF TypedInv, ContentsInv
<1>12. /\ f \in [1..m -> 1..m]
       /\ \A i \in 1..m : \E n \in 1..m : f[n] = i
       /\ \A n \in 1..m : elements[n] = list[f[n]]
  BY <1>5 DEF IsPermuted
<1> HIDE DEF list, m
<1>7. \A n \in 1..m : f[n] \in 1..m /\ elements[n] = list[f[n]] /\ f[n] \in Nat
  BY <1>2, <1>12
<1>8. \A n \in 1..m : elements[n].value = f[n] - 1 /\ elements[n].value + 1 = f[n] /\ Key(n) = list[f[n]].key
  BY <1>4, <1>7 DEF Key
<1>9. ASSUME NEW e \in 1..m
      PROVE  /\ elements[e].value + 1 \in 1..m
             /\ TypedKey(e) \in StringsOf(typed) /\ Key(e) = Form(TypedKey(e))
  BY <1>3, <1>4, <1>7, <1>8 DEF TypedKey, StringsOf
<1>10. ASSUME NEW n \in 1..m PROVE \E e \in 1..m : elements[e].value = n - 1
  BY <1>12, <1>8
<1>11. ASSUME NEW e \in 1..m, NEW d \in 1..m, e < d, Key(e) = Key(d)
       PROVE  elements[e].value < elements[d].value
  <2>1. Less(Key(e), Key(d)) \/ f[e] < f[d]
    BY <1>5, <1>8, <1>11 DEF IsInKeyOrder, m
  <2>2. ~Less(Key(e), Key(d))
    <3>1. Key(e) \in KeySet
      BY <1>6, ElementFacts DEF TypedInv
    <3>2. \A k \in Nat : CodeAt(Key(e), k) \in Nat
      BY <3>1, CodeType
    <3>3. \A k \in Nat : ~(CodeAt(Key(e), k) < CodeAt(Key(e), k))
      BY <3>2
    <3> QED BY <3>3, <1>11 DEF Less
  <2> QED BY <2>1, <2>2, <1>7, <1>8
<1> QED BY <1>2, <1>3, <1>6, <1>9, <1>10, <1>11

LEMMA FormFacts ==
    ASSUME KeysDiffer, typed \in Tries, NEW s \in Seq(CharactersOf(typed)), NEW t \in Seq(CharactersOf(typed))
    PROVE  /\ Form(s) \in Seq(Byte)
           /\ IsStart(Form(s), Form(t)) <=> IsStart(s, t)
           /\ Form(s \o t) = Form(s) \o Form(t)
           /\ Form(s) = Form(t) => s = t
<1> DEFINE D == CharactersOf(typed)
           w == CharacterBytes(typed)
<1>1. IsCode(w, D, Byte)
  BY CharactersAreCode
<1>2. ASSUME NEW u \in Seq(D) PROVE Form(u) = Spelled(w, u)
  BY FormIsSpelled DEF Form
<1>3. s \o t \in Seq(D)
  BY JoinProperties
<1> HIDE DEF D, w
<1>4. Form(s) \in Seq(Byte) /\ Form(t) \in Seq(Byte)
  <2>1. Spelled(w, s) \in Seq(Byte)
    BY <1>1, WordsFacts DEF D
  <2>2. Spelled(w, t) \in Seq(Byte)
    BY <1>1, WordsFacts DEF D
  <2> QED BY <2>1, <2>2, <1>2 DEF D
<1>5. IsStart(Form(s), Form(t)) <=> IsStart(s, t)
  <2>1. IsStart(Spelled(w, s), Spelled(w, t)) <=> IsStart(s, t)
    BY <1>1, SpelledStarts DEF D
  <2> QED BY <2>1, <1>2 DEF D
<1>6. Form(s \o t) = Form(s) \o Form(t)
  <2>1. Spelled(w, s \o t) = Spelled(w, s) \o Spelled(w, t)
    BY <1>1, SpelledJoin DEF D
  <2> QED BY <2>1, <1>2, <1>3 DEF D
<1>7. ASSUME Form(s) = Form(t) PROVE s = t
  <2>1. Len(Form(s)) \in Nat /\ Len(s) \in Nat /\ Len(t) \in Nat
    BY <1>4, LenProperties
  <2>2. IsStart(Form(s), Form(t)) /\ IsStart(Form(t), Form(s))
    BY <2>1, <1>7 DEF IsStart
  <2>3. IsStart(Spelled(w, t), Spelled(w, s)) <=> IsStart(t, s)
    BY <1>1, SpelledStarts DEF D
  <2>4. IsStart(s, t) /\ IsStart(t, s)
    BY <2>2, <2>3, <1>2, <1>5 DEF D
  <2>5. Len(t) <= Len(s)
    BY <2>4 DEF IsStart
  <2> QED BY <2>4, <2>5, StartsAreSame
<1> QED BY <1>4, <1>5, <1>6, <1>7

\* Of the elements with a key there is a first one.
LEMMA FirstOfKey ==
    ASSUME ElementsInv, NEW e \in DOMAIN elements
    PROVE  \E i \in DOMAIN elements : First(i) /\ Key(i) = Key(e)
<1> DEFINE T == {i \in Nat : i \in DOMAIN elements /\ Key(i) = Key(e)}
<1>1. Len(elements) \in Nat /\ DOMAIN elements = 1..Len(elements)
  BY ElementFacts
<1>2. T # {} /\ T \subseteq Nat
  BY <1>1
<1>3. PICK i \in T : \A j \in T : i <= j
  <2> HIDE DEF T
  <2> QED BY <1>2, LeastNumber
<1>4. First(i)
  <2> SUFFICES ASSUME NEW j \in 1..(i - 1), Key(j) = Key(i) PROVE FALSE
    BY DEF First, Key
  <2>1. j \in T /\ ~(i <= j)
    BY <1>1, <1>3
  <2> QED BY <2>1, <1>3
<1> QED BY <1>3, <1>4

\* The value of the first element with a key is the first place of the key.
LEMMA ExpectedIsPromised ==
    ASSUME KeysFit, KeysDiffer, TypedInv, NEW key \in StringsOf(typed)
    PROVE  Expected(Form(key)) = Promised(key)
<1> DEFINE found == {i \in DOMAIN elements : First(i) /\ elements[i].key = Form(key)}
           places == {n \in DOMAIN typed.keys : typed.keys[n] = key}
<1>0. StringsOf(typed) \subseteq Seq(CharactersOf(typed)) /\ typed \in Tries /\ ElementsInv
  BY DEF KeysDiffer, TypedInv
<1>1. \A e \in DOMAIN elements :
         /\ elements[e].value + 1 \in DOMAIN typed.keys
         /\ TypedKey(e) \in StringsOf(typed) /\ Key(e) = Form(TypedKey(e))
  BY TypedKeys
<1>2. \A n \in DOMAIN typed.keys : \E e \in DOMAIN elements : elements[e].value = n - 1
  BY TypedKeys
<1>3. \A e, d \in DOMAIN elements : e < d /\ Key(e) = Key(d) => elements[e].value < elements[d].value
  BY TypedKeys
<1>4. DOMAIN typed.keys \subseteq Nat /\ DOMAIN elements \subseteq Nat
  BY TypedKeys, ElementFacts, <1>0
<1>5. \A e \in DOMAIN elements : elements[e].value \in Int
  BY ElementFacts, <1>0
<1>6. ASSUME NEW e \in DOMAIN elements PROVE Key(e) = Form(key) <=> elements[e].value + 1 \in places
  <2>1. Form(TypedKey(e)) = Form(key) => TypedKey(e) = key
    BY <1>0, <1>1, FormFacts
  <2> QED BY <2>1, <1>1 DEF TypedKey
<1>7. ASSUME NEW i \in found PROVE elements[i].value + 1 \in places /\ \A n \in places : elements[i].value + 1 <= n
  <2>1. i \in DOMAIN elements /\ Key(i) = Form(key) /\ First(i)
    BY DEF Key
  <2>2. ASSUME NEW n \in places PROVE elements[i].value + 1 <= n
    <3>1. PICK e \in DOMAIN elements : elements[e].value = n - 1
      BY <1>2
    <3>2. n \in Nat /\ elements[e].value + 1 = n
      BY <3>1, <1>4
    <3>3. Key(e) = Form(key)
      BY <3>2, <1>6
    <3>4. ~(e < i)
      <4> SUFFICES ASSUME e < i PROVE FALSE
        OBVIOUS
      <4>1. e \in 1..i - 1
        <5>1. e \in 1..Len(elements) /\ i \in 1..Len(elements) /\ Len(elements) \in Nat
          BY <2>1, <1>0, ElementFacts
        <5> QED BY <5>1
      <4> QED BY <4>1, <2>1, <3>3 DEF First, Key
    <3>5. CASE e = i
      BY <3>2, <3>5
    <3>6. CASE i < e
      <4>1. elements[i].value < elements[e].value
        BY <3>3, <3>6, <2>1, <1>3
      <4> QED BY <4>1, <3>1, <3>2, <2>1, <1>5
    <3>7. e \in Nat /\ i \in Nat
      BY <2>1, <1>4
    <3> QED BY <3>4, <3>5, <3>6, <3>7
  <2>3. elements[i].value + 1 \in places
    BY <2>1, <1>6
  <2> QED BY <2>2, <2>3
<1>8. CASE found = {}
  <2>1. places = {}
    <3> SUFFICES ASSUME NEW n \in places PROVE FALSE
      OBVIOUS
    <3>1. PICK e \in DOMAIN elements : elements[e].value = n - 1
      BY <1>2
    <3>2. Key(e) = Form(key)
      <4>1. elements[e].value + 1 = n
        BY <3>1, <1>4
      <4> QED BY <4>1, <1>6
    <3>3. PICK i \in DOMAIN elements : First(i) /\ Key(i) = Key(e)
      BY <1>0, FirstOfKey
    <3> QED BY <3>2, <3>3, <1>8 DEF Key
  <2> QED BY <2>1, <1>8 DEF Expected, Promised
<1>9. CASE found # {}
  <2> DEFINE i == CHOOSE i \in found : TRUE
             v == elements[i].value
  <2>1. i \in found
    BY <1>9
  <2>2. Expected(Form(key)) = <<v>>
    BY <1>9 DEF Expected
  <2>3. v + 1 \in places /\ (\A n \in places : v + 1 <= n) /\ v \in Int
    BY <2>1, <1>5, <1>7
  <2> HIDE DEF i, v
  <2>4. Least(places) = v + 1
    <3>1. \A x \in places : (\A y \in places : x <= y) => x = v + 1
      <4> SUFFICES ASSUME NEW x \in places, \A y \in places : x <= y PROVE x = v + 1
        OBVIOUS
      <4>1. x <= v + 1 /\ v + 1 <= x /\ x \in Nat
        BY <2>3, <1>4
      <4> QED BY <4>1, <2>3
    <3> HIDE DEF places
    <3> QED BY <2>3, <3>1 DEF Least
  <2>5. Promised(key) = <<Least(places) - 1>>
    BY <2>3 DEF Promised
  <2>6. (v + 1) - 1 = v
    BY <2>3
  <2> QED BY <2>2, <2>4, <2>5, <2>6
<1> QED BY <1>8, <1>9

LEMMA PrefixIsStart ==
    ASSUME NEW S, NEW a \in Seq(S), NEW b \in Seq(S)
    PROVE  IsPrefix(a, b) <=> IsStart(a, b)
<1>1. Len(a) \in Nat /\ Len(b) \in Nat /\ SubSeq(a, 1, Len(a)) = a
  BY LenProperties, SubSeqFull
<1> DEFINE c == SubSeq(b, 1, Len(a))
<1>2. CASE Len(a) <= Len(b)
  <2>1. c \in Seq(S) /\ IsPart(c, b, 0, Len(a))
    BY <1>1, <1>2, Beginning
  <2>2. Len(a) - 0 = Len(a) /\ \A i \in 1..Len(a) : 0 + i = i
    BY <1>1
  <2>3. Len(c) = Len(a) /\ \A i \in 1..Len(a) : c[i] = b[i]
    BY <2>1, <2>2 DEF IsPart
  <2> HIDE DEF c
  <2>4. a = c <=> \A i \in 1..Len(a) : a[i] = b[i]
    <3>1. ASSUME \A i \in 1..Len(a) : a[i] = b[i] PROVE a = c
      <4>1. \A i \in 1..Len(a) : a[i] = c[i]
        BY <3>1, <2>3
      <4> QED BY <4>1, <2>1, <2>3, SeqEqual
    <3>2. ASSUME a = c PROVE \A i \in 1..Len(a) : a[i] = b[i]
      BY <3>2, <2>3
    <3> QED BY <3>1, <3>2
  <2> QED BY <2>4, <1>1, <1>2 DEF IsPrefix, IsStart, c
<1>3. CASE ~(Len(a) <= Len(b))
  BY <1>3 DEF IsPrefix, IsStart
<1> QED BY <1>2, <1>3

\* A text begins a key of an element as a sequence or as codes.
LEMMA StartIsAgreement ==
    ASSUME NEW a \in KeySet, NEW b \in KeySet
    PROVE  IsStart(a, b) <=> Len(a) <= Len(b) /\ AgreeTo(a, b, Len(a))
<1>1. Len(a) \in Nat /\ Len(b) \in Nat
  BY LenProperties DEF KeySet
<1> SUFFICES ASSUME Len(a) <= Len(b)
             PROVE  (\A i \in 1..Len(a) : a[i] = b[i]) <=> AgreeTo(a, b, Len(a))
  BY DEF IsStart
<1>2. \A k \in 0..Len(a) - 1 : CodeAt(a, k) = a[k + 1] /\ CodeAt(b, k) = b[k + 1]
  BY <1>1 DEF CodeAt
<1>3. ASSUME \A i \in 1..Len(a) : a[i] = b[i] PROVE AgreeTo(a, b, Len(a))
  <2>1. \A k \in 0..Len(a) - 1 : k + 1 \in 1..Len(a)
    BY <1>1
  <2> QED BY <2>1, <1>2, <1>3 DEF AgreeTo
<1>4. ASSUME AgreeTo(a, b, Len(a)), NEW i \in 1..Len(a) PROVE a[i] = b[i]
  <2>1. i - 1 \in 0..Len(a) - 1 /\ (i - 1) + 1 = i
    BY <1>1
  <2> QED BY <2>1, <1>2, <1>4 DEF AgreeTo
<1> QED BY <1>3, <1>4

IsSplit(D, key, n) ==
    \E p, r \in Seq(D) : /\ p = SubSeq(key, 1, n) /\ r = SubSeq(key, n + 1, Len(key))
                         /\ Len(p) = n /\ key = p \o r

LEMMA SplitAt ==
    ASSUME NEW D, NEW key \in Seq(D), NEW n \in 0..Len(key)
    PROVE  IsSplit(D, key, n)
<1>1. Len(key) \in Nat /\ n \in Nat /\ n <= Len(key) /\ Len(key) <= Len(key)
  <2>1. Len(key) \in Nat
    BY LenProperties
  <2> QED BY <2>1
<1>2. PICK p : p = SubSeq(key, 1, n)
  OBVIOUS
<1>3. PICK r : r = SubSeq(key, n + 1, Len(key))
  OBVIOUS
<1>4. p \in Seq(D) /\ IsPart(p, key, 0, n)
  BY <1>1, <1>2, Beginning
<1>5. r \in Seq(D) /\ IsPart(r, key, n, Len(key))
  BY <1>1, <1>3, PartProperties
<1>6. Len(p) = n /\ \A i \in 1..n : p[i] = key[i]
  <2>1. n - 0 = n /\ \A i \in 1..n : 0 + i = i
    BY <1>1
  <2> QED BY <2>1, <1>4 DEF IsPart
<1>7. Len(r) = Len(key) - n /\ \A i \in 1..Len(key) - n : r[i] = key[n + i]
  BY <1>5 DEF IsPart
<1>8. p \o r \in Seq(D) /\ IsJoin(p \o r, p, r)
  BY <1>4, <1>5, JoinProperties
<1> DEFINE s == p \o r
<1>9. /\ s \in Seq(D) /\ Len(s) = Len(p) + Len(r)
      /\ (\A i \in 1..Len(p) : s[i] = p[i]) /\ (\A i \in 1..Len(r) : s[Len(p) + i] = r[i])
  BY <1>8 DEF IsJoin
<1> HIDE DEF s
<1>10. Len(s) = Len(key)
  BY <1>1, <1>6, <1>7, <1>9
<1>11. \A i \in 1..Len(key) : s[i] = key[i]
  <2> TAKE i \in 1..Len(key)
  <2>1. CASE i <= n
    <3>1. i \in 1..n
      BY <2>1
    <3> QED BY <3>1, <1>6, <1>9
  <2>2. CASE ~(i <= n)
    <3>1. PICK k \in 1..Len(key) - n : i = n + k
      <4>1. i - n \in 1..Len(key) - n /\ i = n + (i - n)
        BY <2>2, <1>1
      <4> QED BY <4>1
    <3> QED BY <3>1, <1>6, <1>7, <1>9
  <2> QED BY <2>1, <2>2
<1>12. key = s
  BY <1>9, <1>10, <1>11, SeqEqual
<1> QED BY <1>2, <1>3, <1>4, <1>5, <1>6, <1>12 DEF s, IsSplit

\* The parts of a key that is asked for are keys of the double array, too.
AreForms(key, n, p, r) ==
    /\ p \in Seq(CharactersOf(typed)) /\ Len(p) = n
    /\ Form(key) = Form(p) \o Form(r)
    /\ Form(key) \in KeySet /\ Form(p) \in KeySet /\ Form(r) \in KeySet

LEMMA FormOfParts ==
    ASSUME KeysDiffer, typed \in Tries, NEW key \in StringsOf(typed), NEW n \in 0..Len(key)
    PROVE  AreForms(key, n, SubSeq(key, 1, n), SubSeq(key, n + 1, Len(key)))
<1> DEFINE D == CharactersOf(typed)
<1>1. key \in Seq(D) /\ Form(key) \in KeySet
  BY DEF KeysDiffer, Form, KeySet
<1> HIDE DEF D
<1>2. PICK p, r \in Seq(D) : /\ p = SubSeq(key, 1, n) /\ r = SubSeq(key, n + 1, Len(key))
                             /\ Len(p) = n /\ key = p \o r
  <2>1. IsSplit(D, key, n)
    BY <1>1, SplitAt
  <2> QED BY <2>1 DEF IsSplit
<1>7. Form(key) = Form(p) \o Form(r) /\ Form(p) \in Seq(Byte) /\ Form(r) \in Seq(Byte)
  <2>1. Form(p \o r) = Form(p) \o Form(r) /\ Form(p) \in Seq(Byte)
    BY <1>2, FormFacts DEF D
  <2>2. Form(r) \in Seq(Byte)
    BY <1>2, FormFacts DEF D
  <2> QED BY <2>1, <2>2, <1>2
<1>8. Form(p) \in KeySet /\ Form(r) \in KeySet
  <2> DEFINE a == Form(p)
             b == Form(r)
             ab == Form(key)
  <2>1. a \in Seq(Byte) /\ b \in Seq(Byte) /\ ab = a \o b /\ ab \in Seq(1..Vacant - 1)
    BY <1>1, <1>7 DEF KeySet
  <2> HIDE DEF a, b, ab
  <2>2. /\ Len(a) \in Nat /\ Len(b) \in Nat /\ Len(ab) = Len(a) + Len(b)
        /\ (\A i \in 1..Len(a) : ab[i] = a[i]) /\ (\A i \in 1..Len(b) : ab[Len(a) + i] = b[i])
    BY <2>1, JoinProperties DEF IsJoin
  <2>3. /\ \A i \in 1..Len(a) : i \in 1..Len(ab)
        /\ \A i \in 1..Len(b) : Len(a) + i \in 1..Len(ab)
    BY <2>2
  <2>4. \A i \in 1..Len(ab) : ab[i] \in 1..Vacant - 1
    BY <2>1, ElementOfSeq
  <2>5. (\A i \in 1..Len(a) : a[i] \in 1..Vacant - 1) /\ (\A i \in 1..Len(b) : b[i] \in 1..Vacant - 1)
    BY <2>2, <2>3, <2>4
  <2>6. ASSUME NEW c \in Seq(Byte), \A i \in 1..Len(c) : c[i] \in 1..Vacant - 1 PROVE c \in KeySet
    <3>1. Len(c) \in Nat /\ c \in [1..Len(c) -> Byte]
      BY LenProperties
    <3>2. c \in [1..Len(c) -> 1..Vacant - 1]
      BY <3>1, <2>6
    <3> QED BY <3>1, <3>2, FunctionIsSeq DEF KeySet
  <2> QED BY <2>1, <2>5, <2>6 DEF a, b
<1> QED BY <1>1, <1>2, <1>7, <1>8 DEF D, AreForms

\* The elements under a prefix.
LEMMA UnderPrefix ==
    ASSUME KeysFit, KeysDiffer, TypedInv, NEW p \in Seq(CharactersOf(typed)), Form(p) \in KeySet
    PROVE  Under(p) # {} <=>
               \E e \in DOMAIN elements :
                   Len(Form(p)) <= Len(Key(e)) /\ AgreeTo(Form(p), Key(e), Len(Form(p)))
<1>0. StringsOf(typed) \subseteq Seq(CharactersOf(typed)) /\ typed \in Tries /\ ElementsInv
  BY DEF KeysDiffer, TypedInv
<1>1. \A e \in DOMAIN elements : /\ TypedKey(e) \in StringsOf(typed) /\ Key(e) = Form(TypedKey(e))
                                 /\ Key(e) \in KeySet
  BY TypedKeys, ElementFacts, <1>0
<1>2. ASSUME NEW e \in DOMAIN elements
      PROVE  IsPrefix(p, TypedKey(e)) <=>
                 Len(Form(p)) <= Len(Key(e)) /\ AgreeTo(Form(p), Key(e), Len(Form(p)))
  <2>1. TypedKey(e) \in Seq(CharactersOf(typed))
    BY <1>0, <1>1
  <2>2. IsPrefix(p, TypedKey(e)) <=> IsStart(p, TypedKey(e))
    BY <2>1, PrefixIsStart
  <2>3. IsStart(Form(p), Form(TypedKey(e))) <=> IsStart(p, TypedKey(e))
    BY <2>1, <1>0, FormFacts
  <2>4. IsStart(Form(p), Key(e)) <=> Len(Form(p)) <= Len(Key(e)) /\ AgreeTo(Form(p), Key(e), Len(Form(p)))
    BY <1>1, StartIsAgreement
  <2> QED BY <2>2, <2>3, <2>4, <1>1
<1>3. Under(p) = {i \in DOMAIN elements : First(i) /\ IsPrefix(p, TypedKey(i))}
  BY DEF Under, TypedKey
<1>4. ASSUME NEW e \in DOMAIN elements, IsPrefix(p, TypedKey(e)) PROVE Under(p) # {}
  <2>1. PICK i \in DOMAIN elements : First(i) /\ Key(i) = Key(e)
    BY <1>0, FirstOfKey
  <2>2. IsPrefix(p, TypedKey(i))
    BY <2>1, <1>2, <1>4
  <2> QED BY <2>1, <2>2, <1>3
<1>5. Under(p) # {} => \E e \in DOMAIN elements : IsPrefix(p, TypedKey(e))
  BY <1>3
<1> QED BY <1>2, <1>4, <1>5

LEMMA InvFindsKeys ==
    ASSUME KeysDiffer, IInv, ContentsInv
    PROVE  FindsExactlyTheKeys
<1> SUFFICES ASSUME Built, NEW key \in Asked[typed.escape], NEW n \in 0..Len(key)
             PROVE  LET root == Traverse(0, Form(SubSeq(key, 1, n)))
                    IN  /\ (root # None) <=> (Under(SubSeq(key, 1, n)) # {} \/ n = 0)
                        /\ root # None => Find(root, Form(SubSeq(key, n + 1, Len(key)))) = Promised(key)
  BY DEF FindsExactlyTheKeys
<1> DEFINE p == SubSeq(key, 1, n)
           r == SubSeq(key, n + 1, Len(key))
           root == Traverse(0, Form(p))
<1>1. /\ KeysFit /\ ElementsInv /\ CellsInv /\ KeysInv /\ NodesInv /\ frames = <<>>
      /\ TypedInv /\ typed \in Tries /\ key \in StringsOf(typed)
  BY DEF IInv, ClientInv, TypedInv, Built, StringsOf
<1>2. /\ p \in Seq(CharactersOf(typed)) /\ Len(p) = n
      /\ Form(key) = Form(p) \o Form(r)
      /\ Form(key) \in KeySet /\ Form(p) \in KeySet /\ Form(r) \in KeySet
  BY <1>1, FormOfParts DEF AreForms
<1> HIDE DEF p, r
<1>3. (root # None) <=> (Len(Form(p)) = 0 \/ Under(p) # {})
  <2>1. (root # None) <=>
           (Len(Form(p)) = 0 \/ \E e \in DOMAIN elements : Len(Form(p)) <= Len(Key(e)) /\ AgreeTo(Form(p), Key(e), Len(Form(p))))
    BY <1>1, <1>2, NodesOfBeginnings
  <2> QED BY <2>1, <1>1, <1>2, UnderPrefix
<1>4. Len(Form(p)) = 0 <=> n = 0
  <2>1. <<>> \in Seq(CharactersOf(typed)) /\ Len(<<>>) = 0
    BY EmptySeq
  <2>2. Form(<<>>) = <<>>
    <3>1. [i \in DOMAIN <<>> |-> ToBytes(<<>>[i], KeyWidth, typed.escape)] = <<>>
      OBVIOUS
    <3> QED BY <3>1, FlattenEmpty DEF Form, Serialized
  <2>3. ASSUME Len(Form(p)) = 0 PROVE n = 0
    <3>1. IsStart(Form(p), Form(<<>>))
      BY <2>1, <2>2, <2>3 DEF IsStart
    <3>2. IsStart(p, <<>>)
      BY <3>1, <2>1, <1>1, <1>2, FormFacts
    <3> QED BY <3>2, <2>1, <1>2 DEF IsStart
  <2>4. ASSUME n = 0 PROVE Len(Form(p)) = 0
    <3>1. p = <<>>
      BY <1>2, <2>4, EmptySeq
    <3> QED BY <3>1, <2>1, <2>2
  <2> QED BY <2>3, <2>4
<1>5. Find(root, Form(r)) = Promised(key)
  <2>1. Find(root, Form(r)) = Find(0, Form(key))
    BY <1>2, SubtrieFinds
  <2>2. Find(0, Form(key)) = Expected(Form(key))
    BY <1>1, <1>2, FindsExpected
  <2>3. Expected(Form(key)) = Promised(key)
    BY <1>1, ExpectedIsPromised
  <2> QED BY <2>1, <2>2, <2>3
<1> QED BY <1>3, <1>4, <1>5 DEF p, r

\* A trie that is built, from the root or from the root of any subtrie, in memory or
\* in a file, finds the value of every key and nothing for any other key.
THEOREM FindsTheKeys ==
    ASSUME KeysFit, KeysAreFew, KeysDiffer
    PROVE  Spec => []FindsExactlyTheKeys
<1> DEFINE R == IInv /\ RoomInv /\ KeysAreFew
<1>1. Init => R
  BY InitIsInv, InitHasRoomInv
<1>2. R /\ [Next]_vars => R'
  BY FewKeysHaveRoom, NextKeepsInv, NextKeepsRoomInv DEF KeysAreFew
<1>3. R => FindsExactlyTheKeys
  BY InvFindsKeys DEF RoomInv
<1> QED BY <1>1, <1>2, <1>3, PTL DEF Spec
-----------------------------------------------------------------------------
(* The order of the values                                                 *)

\* The order of a set begins with that of its lesser numbers.
LEMMA LesserFirst ==
    ASSUME NEW S \in SUBSET Int, NEW T \in SUBSET Int, IsFiniteSet(S), IsFiniteSet(T),
           \A s \in S, t \in T : s < t
    PROVE  /\ Cardinality(S) \in Nat /\ Cardinality(S \cup T) \in Nat
           /\ Cardinality(S) <= Cardinality(S \cup T)
           /\ \A n \in 1..Cardinality(S) : InOrder(S \cup T)[n] = InOrder(S)[n]
           /\ DOMAIN InOrder(S) = 1..Cardinality(S) /\ DOMAIN InOrder(S \cup T) = 1..Cardinality(S \cup T)
<1> DEFINE U == S \cup T
           f == InOrder(S)
           g == InOrder(U)
           k == Cardinality(S)
           l == Cardinality(U)
<1>1. IsFiniteSet(U) /\ U \in SUBSET Int
  BY FS_Union
<1>2. k \in Nat /\ IsInOrder(f, S)
  BY InOrderProperties
<1>3. l \in Nat /\ IsInOrder(g, U)
  BY <1>1, InOrderProperties
<1>4. k <= l
  <2>1. S \in SUBSET U
    OBVIOUS
  <2> HIDE DEF U
  <2> QED BY <2>1, <1>1, FS_Subset
<1>5. /\ f \in [1..k -> S] /\ (\A x \in S : \E n \in 1..k : f[n] = x)
      /\ \A m, n \in 1..k : m < n => f[m] < f[n]
  BY <1>2 DEF IsInOrder
<1>6. /\ g \in [1..l -> U] /\ (\A x \in U : \E n \in 1..l : g[n] = x)
      /\ \A m, n \in 1..l : m < n => g[m] < g[n]
  BY <1>3 DEF IsInOrder
<1> DEFINE N == {n \in Nat : \A m \in 1..n : m <= k => g[m] = f[m]}
<1> HIDE DEF f, g, k, l
<1>7. 0 \in N
  OBVIOUS
<1>8. ASSUME NEW h \in Nat, h \in N PROVE h + 1 \in N
  <2> DEFINE n == h + 1
  <2> SUFFICES ASSUME n <= k PROVE g[n] = f[n]
    BY <1>8
  <2>1. n \in 1..k /\ n \in 1..l /\ \A m \in 1..k : m < n => g[m] = f[m]
    BY <1>2, <1>3, <1>4, <1>8
  <2> HIDE DEF n
  <2>2. f[n] \in S /\ f[n] \in U /\ f[n] \in Int /\ g[n] \in U /\ g[n] \in Int
    BY <2>1, <1>1, <1>5, <1>6
  <2>3. PICK j \in 1..l : g[j] = f[n]
    BY <2>2, <1>6
  <2>4. ~(j < n)
    <3> SUFFICES ASSUME j < n PROVE FALSE
      OBVIOUS
    <3>1. j \in 1..k
      BY <2>1, <1>2
    <3>2. g[j] = f[j] /\ f[j] < f[n]
      BY <3>1, <2>1, <1>5
    <3> QED BY <3>2, <2>2, <2>3
  <2>5. g[n] <= f[n]
    <3>1. n = j \/ n < j
      BY <2>1, <2>4, <1>3, <1>2
    <3>2. n < j => g[n] < g[j]
      BY <2>1, <1>6
    <3> QED BY <3>1, <3>2, <2>2, <2>3
  <2>6. g[n] \in S
    <3>1. ~(f[n] < g[n])
      BY <2>2, <2>5
    <3>2. g[n] \notin T
      BY <3>1, <2>2
    <3> QED BY <3>2, <2>2
  <2>7. PICK i \in 1..k : f[i] = g[n]
    BY <2>6, <1>5
  <2>8. ~(i < n)
    <3> SUFFICES ASSUME i < n PROVE FALSE
      OBVIOUS
    <3>1. g[i] = f[i] /\ i \in 1..l
      BY <2>1, <1>2, <1>3, <1>4
    <3>2. g[i] < g[n]
      BY <3>1, <2>1, <1>6
    <3> QED BY <3>1, <3>2, <2>2, <2>7
  <2>9. f[n] <= g[n]
    <3>1. n = i \/ n < i
      BY <2>1, <2>8, <1>2
    <3>2. n < i => f[n] < f[i]
      BY <2>1, <1>5
    <3> QED BY <3>1, <3>2, <2>2, <2>7
  <2> QED BY <2>2, <2>5, <2>9
<1>9. Nat \subseteq N
  <2> HIDE DEF N
  <2> QED BY <1>7, <1>8, SetInduction
<1>10. \A n \in 1..k : g[n] = f[n]
  <2>1. \A n \in 1..k : n \in 1..k /\ n <= k
    BY <1>2
  <2> QED BY <2>1, <1>2, <1>9
<1> QED BY <1>2, <1>3, <1>4, <1>5, <1>6, <1>10 DEF f, g, k, l

\* The values of elements in the order of their keys.
ValuesOf(S) ==
    LET order == InOrder(S)
    IN  [n \in DOMAIN order |-> elements[order[n]].value]

LEMMA ValuesBegin ==
    ASSUME ElementsInv, NEW S \in SUBSET DOMAIN elements, NEW T \in SUBSET DOMAIN elements,
           \A s \in S, t \in T : s < t
    PROVE  IsPrefix(ValuesOf(S), ValuesOf(S \cup T))
<1> DEFINE k == Cardinality(S)
           l == Cardinality(S \cup T)
           V == 0..BaseHalf - 1
<1>1. Len(elements) \in Nat /\ DOMAIN elements = 1..Len(elements)
      /\ \A i \in DOMAIN elements : elements[i].value \in V
  BY ElementFacts
<1>2. IsFiniteSet(DOMAIN elements) /\ DOMAIN elements \in SUBSET Int
  <2>1. 1 \in Int /\ Len(elements) \in Int
    BY <1>1
  <2>2. IsFiniteSet(1..Len(elements))
    BY <2>1, FS_Interval
  <2> QED BY <1>1, <2>2
<1>3. IsFiniteSet(S) /\ IsFiniteSet(T) /\ S \in SUBSET Int /\ T \in SUBSET Int
  BY <1>2, FS_Subset
<1>4. /\ k \in Nat /\ l \in Nat /\ k <= l
      /\ \A n \in 1..k : InOrder(S \cup T)[n] = InOrder(S)[n]
      /\ DOMAIN InOrder(S) = 1..k /\ DOMAIN InOrder(S \cup T) = 1..l
  BY <1>3, LesserFirst
<1>5. IsFiniteSet(S \cup T) /\ S \cup T \in SUBSET Int
  BY <1>3, FS_Union
<1>6. InOrder(S \cup T) \in [1..l -> S \cup T] /\ InOrder(S) \in [1..k -> S]
  BY <1>3, <1>5, InOrderProperties DEF IsInOrder
<1>7. ValuesOf(S) \in [1..k -> V] /\ ValuesOf(S \cup T) \in [1..l -> V]
  BY <1>1, <1>4, <1>6 DEF ValuesOf
<1>8. \A n \in 1..k : n \in 1..l /\ ValuesOf(S)[n] = ValuesOf(S \cup T)[n]
  <2>1. \A n \in 1..k : n \in 1..l
    BY <1>4
  <2>2. ValuesOf(S) = [n \in 1..k |-> elements[InOrder(S)[n]].value]
    BY <1>4 DEF ValuesOf
  <2>3. ValuesOf(S \cup T) = [n \in 1..l |-> elements[InOrder(S \cup T)[n]].value]
    BY <1>4 DEF ValuesOf
  <2> HIDE DEF k, l
  <2> QED BY <2>1, <2>2, <2>3, <1>4
<1> DEFINE a == ValuesOf(S)
           b == ValuesOf(S \cup T)
<1>9. a \in Seq(V) /\ Len(a) = k /\ b \in Seq(V) /\ Len(b) = l
  <2> HIDE DEF a, b, k, l, V
  <2> QED BY <1>4, <1>7, FunctionIsSeq DEF a, b
<1>10. IsStart(a, b)
  BY <1>4, <1>8, <1>9 DEF IsStart
<1> HIDE DEF a, b
<1> QED BY <1>9, <1>10, PrefixIsStart DEF a, b

LEMMA ValuesAppend ==
    ASSUME ElementsInv, NEW S \in SUBSET DOMAIN elements, NEW x \in DOMAIN elements,
           \A s \in S : s < x
    PROVE  ValuesOf(S \cup {x}) = Append(ValuesOf(S), elements[x].value)
<1> DEFINE T == {x}
           k == Cardinality(S)
           U == S \cup T
           V == 0..BaseHalf - 1
<1>1. Len(elements) \in Nat /\ DOMAIN elements = 1..Len(elements)
      /\ \A i \in DOMAIN elements : elements[i].value \in V
  BY ElementFacts
<1>2. IsFiniteSet(DOMAIN elements) /\ DOMAIN elements \in SUBSET Int
  <2>1. 1 \in Int /\ Len(elements) \in Int
    BY <1>1
  <2>2. IsFiniteSet(1..Len(elements))
    BY <2>1, FS_Interval
  <2> QED BY <1>1, <2>2
<1>3. IsFiniteSet(S) /\ S \in SUBSET Int /\ x \in Int /\ x \notin S
  BY <1>2, FS_Subset
<1>3a. IsFiniteSet(T) /\ T \in SUBSET Int
  BY <1>3, FS_Singleton
<1>4. /\ k \in Nat /\ \A n \in 1..k : InOrder(U)[n] = InOrder(S)[n]
      /\ DOMAIN InOrder(S) = 1..k /\ DOMAIN InOrder(U) = 1..Cardinality(U)
  <2>1. \A s \in S, t \in T : s < t
    OBVIOUS
  <2> HIDE DEF T
  <2> QED BY <2>1, <1>3, <1>3a, LesserFirst
<1>5. Cardinality(U) = k + 1
  BY <1>3, FS_AddElement
<1>6. IsFiniteSet(U) /\ U \in SUBSET Int
  BY <1>3, <1>3a, FS_Union
<1>7. IsInOrder(InOrder(U), U) /\ IsInOrder(InOrder(S), S)
  BY <1>3, <1>6, InOrderProperties
<1> DEFINE f == InOrder(S)
           g == InOrder(U)
<1>8. /\ f \in [1..k -> S] /\ g \in [1..k + 1 -> U]
      /\ \A y \in U : \E n \in 1..k + 1 : g[n] = y
  BY <1>5, <1>7 DEF IsInOrder
<1>9. g[k + 1] = x
  <2>1. PICK n \in 1..k + 1 : g[n] = x
    BY <1>8
  <2>2. n \notin 1..k
    BY <2>1, <1>3, <1>4, <1>8
  <2>3. n = k + 1
    BY <2>2, <1>4
  <2> QED BY <2>1, <2>3
<1> DEFINE a == ValuesOf(S)
           b == ValuesOf(U)
<1>10. a \in [1..k -> V] /\ b \in [1..k + 1 -> V] /\ b[k + 1] = elements[x].value
       /\ \A n \in 1..k : b[n] = a[n]
  <2>1. /\ a = [n \in 1..k |-> elements[f[n]].value]
        /\ b = [n \in 1..k + 1 |-> elements[g[n]].value]
    BY <1>4, <1>5 DEF ValuesOf
  <2>2. k + 1 \in 1..k + 1 /\ \A n \in 1..k : n \in 1..k + 1
    BY <1>4
  <2>3. \A n \in 1..k : f[n] \in DOMAIN elements /\ g[n] = f[n]
    BY <1>4, <1>8
  <2>4. \A n \in 1..k + 1 : g[n] \in DOMAIN elements
    BY <1>8
  <2> HIDE DEF a, b, f, g, k, U, T
  <2> QED BY <2>1, <2>2, <2>3, <2>4, <1>1, <1>9
<1> HIDE DEF a, b, k, U, V
<1>11. a \in Seq(V) /\ Len(a) = k /\ b \in Seq(V) /\ Len(b) = k + 1
  <2>1. k + 1 \in Nat
    BY <1>4
  <2> QED BY <2>1, <1>4, <1>10, FunctionIsSeq
<1>12. LET c == Append(a, elements[x].value)
       IN  /\ c \in Seq(V) /\ Len(c) = k + 1 /\ c[k + 1] = elements[x].value
           /\ \A n \in 1..k : c[n] = a[n]
  BY <1>1, <1>11, AppendProperties
<1>13. b = Append(a, elements[x].value)
  <2> DEFINE c == Append(a, elements[x].value)
  <2>1. /\ c \in Seq(V) /\ Len(c) = k + 1 /\ c[k + 1] = elements[x].value
        /\ \A n \in 1..k : c[n] = a[n]
    BY <1>12
  <2> HIDE DEF c
  <2>2. \A n \in 1..k + 1 : b[n] = c[n]
    <3>1. \A n \in 1..k + 1 : n \in 1..k \/ n = k + 1
      BY <1>4
    <3> QED BY <3>1, <2>1, <1>10
  <2> QED BY <2>1, <2>2, <1>11, SeqEqual DEF c
<1> QED BY <1>13 DEF a, b, U
-----------------------------------------------------------------------------
(* The elements below a node                                               *)

BelowNode(i) == {e \in DOMAIN elements : \E k \in 0..Len(Key(e)) + 1 : WayOf(e)[k] = i}

\* Every key has its way when the array is built.
LEMMA BuiltWays ==
    ASSUME ElementsInv, KeysInv, frames = <<>>, NEW e \in DOMAIN elements
    PROVE  /\ Len(Key(e)) \in Nat
           /\ \A k \in 0..Len(Key(e)) + 1 : k \in Nat /\ OnWay(e, k)
           /\ \A k \in 0..Len(Key(e)) : WayOf(e)[k] \in Inner
<1>1. Len(Key(e)) \in Nat
  BY WayFacts
<1>2. Pending(e) = {}
  BY DEF Pending
<1>3. /\ \A k \in 0..Len(Key(e)) : WayOf(e)[k] \in Inner
      /\ WayOf(e)[Len(Key(e)) + 1] \in DOMAIN cells
  BY <1>2 DEF KeysInv
<1>4. ASSUME NEW k \in 0..Len(Key(e)) + 1 PROVE OnWay(e, k)
  <2>1. k \in Nat /\ k <= Len(Key(e)) + 1 /\ \A j \in 0..k - 1 : j \in 0..Len(Key(e))
    BY <1>1
  <2>2. WayOf(e)[k] \in DOMAIN cells
    <3>1. k \in 0..Len(Key(e)) \/ k = Len(Key(e)) + 1
      BY <1>1
    <3> QED BY <3>1, <1>3 DEF Inner
  <2> QED BY <2>1, <2>2, <1>3 DEF OnWay
<1>5. \A k \in 0..Len(Key(e)) + 1 : k \in Nat
  BY <1>1
<1> QED BY <1>1, <1>3, <1>4, <1>5

\* Where the way of an element goes on from a node.
GoesOn(e, i, k) ==
    /\ k \in Nat /\ k <= Len(Key(e)) /\ WayOf(e)[k] = i
    /\ OnWay(e, k) /\ Code(e, k) \in 0..Vacant - 1
    /\ cells[i].base + Code(e, k) \in DOMAIN cells
    /\ WayOf(e)[k + 1] = cells[i].base + Code(e, k)
    /\ cells[cells[i].base + Code(e, k)].check = Code(e, k)

LEMMA WayGoesOn ==
    ASSUME ElementsInv, CellsInv, KeysInv, frames = <<>>, NEW i \in Inner, NEW e \in BelowNode(i)
    PROVE  \E k : GoesOn(e, i, k)
<1>1. PICK k \in 0..Len(Key(e)) + 1 : WayOf(e)[k] = i
  BY DEF BelowNode
<1>2. e \in DOMAIN elements
  BY DEF BelowNode
<1>3. /\ Len(Key(e)) \in Nat /\ k \in Nat /\ OnWay(e, k)
      /\ \A n \in 0..Len(Key(e)) + 1 : n \in Nat /\ OnWay(e, n)
  BY <1>1, <1>2, BuiltWays
<1>4. k <= Len(Key(e))
  <2> SUFFICES ASSUME k = Len(Key(e)) + 1 PROVE FALSE
    BY <1>1, <1>3
  <2>1. Pending(e) = {}
    BY DEF Pending
  <2>2. cells[i].check = Terminator
    BY <2>1, <1>1, <1>2 DEF KeysInv
  <2>3. i = 0
    BY <2>2 DEF Inner
  <2>4. WayOf(e)[k] # 0
    <3>1. OnWay(e, Len(Key(e)) + 1)
      BY <1>3
    <3> QED BY <3>1, <1>2, <1>3, OnWayNext
  <2> QED BY <2>3, <2>4, <1>1
<1>5. OnWay(e, k + 1)
  <2>1. k + 1 \in 0..Len(Key(e)) + 1
    BY <1>3, <1>4
  <2> QED BY <2>1, <1>3
<1>6. /\ WayOf(e)[k + 1] = cells[i].base + Code(e, k)
      /\ cells[WayOf(e)[k + 1]].check = Code(e, k)
  BY <1>1, <1>2, <1>3, <1>5, OnWayNext
<1>7. WayOf(e)[k + 1] \in DOMAIN cells
  BY <1>5 DEF OnWay
<1>8. Code(e, k) \in 0..Vacant - 1
  BY <1>2, <1>3, WayFacts
<1>9. GoesOn(e, i, k)
  BY <1>1, <1>3, <1>4, <1>6, <1>7, <1>8 DEF GoesOn
<1> QED BY <1>9

\* The characters of the children of a node.
ChildCodes(base) == {c \in CodesBelow(base) : CellAt(base + c).check = c}

\* What is below a node is below its children.
LEMMA BelowChildren ==
    ASSUME ElementsInv, CellsInv, KeysInv, frames = <<>>, medium = "memory",
           NEW i \in Inner, NEW e \in BelowNode(i)
    PROVE  \E k : /\ GoesOn(e, i, k) /\ Code(e, k) \in ChildCodes(cells[i].base)
                  /\ e \in BelowNode(cells[i].base + Code(e, k))
<1>1. PICK k : GoesOn(e, i, k)
  BY WayGoesOn
<1> DEFINE c == Code(e, k)
           j == cells[i].base + c
<1>2. /\ k \in Nat /\ k <= Len(Key(e)) /\ c \in 0..Vacant - 1
      /\ j \in DOMAIN cells /\ WayOf(e)[k + 1] = j /\ cells[j].check = c
  BY <1>1 DEF GoesOn
<1>3. j >= 0
  BY <1>2 DEF CellsInv
<1>4. CellAt(j).check = c
  BY <1>2 DEF CellAt
<1>5. e \in DOMAIN elements /\ Len(Key(e)) \in Nat
  BY BuiltWays DEF BelowNode
<1> HIDE DEF c
<1>6. c \in ChildCodes(cells[i].base)
  BY <1>2, <1>3, <1>4 DEF ChildCodes, CodesBelow
<1> HIDE DEF j
<1>7. k + 1 \in 0..Len(Key(e)) + 1
  BY <1>2, <1>5
<1>8. e \in BelowNode(j)
  BY <1>2, <1>5, <1>7 DEF BelowNode
<1> QED BY <1>1, <1>6, <1>8 DEF c, j

\* What is below a child is below the node, and goes on with the character of the child.
LEMMA BelowChild ==
    ASSUME ElementsInv, CellsInv, KeysInv, frames = <<>>, medium = "memory",
           NEW i \in Inner, NEW c \in ChildCodes(cells[i].base), NEW e \in BelowNode(cells[i].base + c)
    PROVE  e \in BelowNode(i) /\ \E k : GoesOn(e, i, k) /\ Code(e, k) = c
<1> DEFINE j == cells[i].base + c
<1>1. /\ e \in DOMAIN elements /\ Len(Key(e)) \in Nat
      /\ \A k \in 0..Len(Key(e)) + 1 : k \in Nat /\ OnWay(e, k)
  BY BuiltWays DEF BelowNode
<1>2. PICK k \in 0..Len(Key(e)) + 1 : WayOf(e)[k] = j
  BY DEF BelowNode
<1>3. c \in 0..Vacant - 1 /\ CellAt(j).check = c
  BY DEF ChildCodes, CodesBelow
<1>4. c # Vacant /\ c \in Int
  BY <1>3, VacantAssumption
<1>5. j \in DOMAIN cells /\ cells[j].check = c
  BY <1>3, <1>4 DEF CellAt, VacantCell
<1>6. j = cells[i].base + c
  OBVIOUS
<1> HIDE DEF j
<1>7. k # 0
  <2>1. WayOf(e)[0] = 0
    BY <1>1, WayFacts DEF WayOf, IsWay
  <2>2. cells[0].check = Vacant
    BY DEF CellsInv
  <2> QED BY <2>1, <2>2, <1>2, <1>4, <1>5
<1>8. PICK h \in Nat : h + 1 = k
  <2>1. k - 1 \in Nat /\ (k - 1) + 1 = k
    BY <1>1, <1>2, <1>7
  <2> QED BY <2>1
<1> DEFINE p == WayOf(e)[h]
<1>9. /\ OnWay(e, h) /\ p \in Inner /\ h <= Len(Key(e))
      /\ j = cells[p].base + Code(e, h) /\ cells[j].check = Code(e, h)
  <2>1. OnWay(e, h + 1)
    BY <1>1, <1>2, <1>8
  <2> QED BY <2>1, <1>1, <1>2, <1>8, OnWayNext
<1>10. Code(e, h) = c
  BY <1>5, <1>9
<1> HIDE DEF p
<1>11. p = i
  <2>1. cells[p].base \in Int /\ cells[i].base \in Int
    <3>1. \A x \in Inner : cells[x] \in CellType
      BY DEF CellsInv, Inner
    <3>2. -BaseHalf..BaseHalf - 1 \subseteq Int
      BY BaseAssumption
    <3>3. \A x \in Inner : cells[x].base \in Int
      BY <3>1, <3>2 DEF CellType
    <3> QED BY <3>3, <1>9
  <2>2. cells[p].base + c = cells[i].base + c
    BY <1>6, <1>9, <1>10
  <2>3. \A x, y, z \in Int : x + z = y + z => x = y
    OBVIOUS
  <2>4. cells[p].base = cells[i].base
    BY <2>1, <2>2, <2>3, <1>4, Zenon
  <2> QED BY <2>4, <1>9 DEF CellsInv
<1>12. e \in BelowNode(i)
  <2>1. h \in 0..Len(Key(e)) + 1
    BY <1>1, <1>9
  <2> QED BY <2>1, <1>1, <1>11 DEF BelowNode, p
<1>13. GoesOn(e, i, h)
  BY <1>2, <1>3, <1>5, <1>6, <1>8, <1>9, <1>10, <1>11 DEF GoesOn, p
<1> QED BY <1>10, <1>12, <1>13

\* What is below one child comes before what is below a later one.
LEMMA ChildrenInOrder ==
    ASSUME ElementsInv, CellsInv, KeysInv, frames = <<>>, medium = "memory",
           NEW i \in Inner, NEW b \in ChildCodes(cells[i].base), NEW c \in ChildCodes(cells[i].base),
           b < c, NEW d \in BelowNode(cells[i].base + b), NEW e \in BelowNode(cells[i].base + c)
    PROVE  d < e
<1>1. PICK m : GoesOn(d, i, m) /\ Code(d, m) = b
  BY BelowChild
<1>2. PICK n : GoesOn(e, i, n) /\ Code(e, n) = c
  BY BelowChild
<1>3. d \in DOMAIN elements /\ e \in DOMAIN elements
  BY DEF BelowNode
<1>4. m = n /\ AgreeTo(Key(d), Key(e), m)
  BY <1>1, <1>2, <1>3, WaysMeet DEF GoesOn
<1>5. Less(Key(d), Key(e))
  <2>1. m \in Nat /\ CodeAt(Key(d), m) < CodeAt(Key(e), m)
    BY <1>1, <1>2, <1>4 DEF GoesOn, Code
  <2> QED BY <2>1, <1>4 DEF Less
<1>6. /\ DOMAIN elements = 1..Len(elements) /\ Len(elements) \in Nat
      /\ Key(d) \in KeySet /\ Key(e) \in KeySet
  BY <1>3, ElementFacts
<1>7. ~(e < d)
  <2> SUFFICES ASSUME e < d PROVE FALSE
    OBVIOUS
  <2>1. Key(e) = Key(d) \/ Less(Key(e), Key(d))
    BY <1>3 DEF ElementsInv
  <2>2. 0 \in Nat /\ AgreeTo(Key(e), Key(d), 0)
    BY DEF AgreeTo
  <2>3. ~Less(Key(d), Key(e))
    BY <2>1, <2>2, <1>6, NotLess
  <2> QED BY <2>3, <1>5
<1>8. d # e
  <2>1. b \in Int /\ c \in Int /\ b # c
    <3>1. b \in 0..Vacant - 1 /\ c \in 0..Vacant - 1
      BY DEF ChildCodes, CodesBelow
    <3> QED BY <3>1, VacantAssumption
  <2> QED BY <2>1, <1>1, <1>2, <1>4
<1> QED BY <1>3, <1>6, <1>7, <1>8

\* Below a leaf are the elements with its key, and the leaf has the value of the first.
LEMMA BelowLeaf ==
    ASSUME ElementsInv, CellsInv, KeysInv, NodesInv, frames = <<>>,
           NEW i \in DOMAIN cells, cells[i].check = Terminator
    PROVE  \E x \in BelowNode(i) :
               /\ First(x) /\ cells[i].base = elements[x].value
               /\ \A e \in BelowNode(i) : Key(e) = Key(x) /\ x <= e
<1>0. Terminator # Vacant /\ cells[i].check # Vacant
  BY VacantAssumption DEF Terminator
<1>1. ASSUME NEW e \in BelowNode(i)
      PROVE  /\ e \in DOMAIN elements /\ WayOf(e)[Len(Key(e)) + 1] = i /\ Len(Key(e)) \in Nat
             /\ OnWay(e, Len(Key(e)) + 1)
  <2>1. /\ e \in DOMAIN elements /\ Len(Key(e)) \in Nat
        /\ \A k \in 0..Len(Key(e)) + 1 : k \in Nat /\ OnWay(e, k)
        /\ \A k \in 0..Len(Key(e)) : WayOf(e)[k] \in Inner
    BY BuiltWays DEF BelowNode
  <2>2. PICK k \in 0..Len(Key(e)) + 1 : WayOf(e)[k] = i
    BY DEF BelowNode
  <2>3. k \notin 0..Len(Key(e))
    <3>1. i # 0
      BY <1>0 DEF CellsInv
    <3>2. i \notin Inner
      BY <3>1 DEF Inner
    <3> QED BY <3>2, <2>1, <2>2
  <2>4. k = Len(Key(e)) + 1
    BY <2>1, <2>2, <2>3
  <2> QED BY <2>1, <2>2, <2>4
<1>2. PICK d \in DOMAIN elements : \E k \in 1..Len(Key(d)) + 1 : WayOf(d)[k] = i
  BY <1>0 DEF NodesInv
<1>3. d \in BelowNode(i)
  <2>1. Len(Key(d)) \in Nat
    BY WayFacts
  <2>2. \A k \in 1..Len(Key(d)) + 1 : k \in 0..Len(Key(d)) + 1
    BY <2>1
  <2> QED BY <2>2, <1>2 DEF BelowNode
<1>4. ASSUME NEW e \in BelowNode(i) PROVE Key(e) = Key(d)
  <2>1. /\ e \in DOMAIN elements /\ Len(Key(e)) \in Nat /\ OnWay(e, Len(Key(e)) + 1)
        /\ OnWay(d, Len(Key(d)) + 1) /\ Len(Key(d)) \in Nat
        /\ WayOf(e)[Len(Key(e)) + 1] = WayOf(d)[Len(Key(d)) + 1]
    BY <1>1, <1>3
  <2>2. Len(Key(e)) + 1 = Len(Key(d)) + 1 /\ AgreeTo(Key(e), Key(d), Len(Key(e)) + 1)
    BY <2>1, WaysMeet
  <2>3. Len(Key(e)) <= Len(Key(d)) /\ Key(e) \in KeySet
    BY <2>1, <2>2, ElementFacts
  <2> QED BY <2>2, <2>3, WholeText
<1>5. PICK x \in DOMAIN elements : First(x) /\ Key(x) = Key(d)
  BY FirstOfKey
<1>6. x \in BelowNode(i)
  <2>1. WayOf(x)[Len(Key(x)) + 1] = i /\ Len(Key(x)) \in Nat
    BY <1>1, <1>3, <1>5 DEF WayOf
  <2>2. Len(Key(x)) + 1 \in 0..Len(Key(x)) + 1
    BY <2>1
  <2> QED BY <2>1, <2>2 DEF BelowNode
<1>7. cells[i].base = elements[x].value
  <2>1. Pending(x) = {}
    BY DEF Pending
  <2>2. <<cells[i].base>> = Expected(Key(x))
    BY <2>1, <1>1, <1>6 DEF KeysInv
  <2> DEFINE found == {n \in DOMAIN elements : First(n) /\ elements[n].key = Key(x)}
  <2>3. found = {x}
    <3>1. x \in found
      BY <1>5 DEF Key
    <3>2. ASSUME NEW n \in found PROVE n = x
      <4>1. n \in 1..Len(elements) /\ x \in 1..Len(elements) /\ Len(elements) \in Nat
        BY ElementFacts
      <4>2. x \notin 1..n - 1
        BY <1>5 DEF First, Key
      <4>3. n \notin 1..x - 1
        BY <1>5 DEF First, Key
      <4> QED BY <4>1, <4>2, <4>3
    <3> QED BY <3>1, <3>2
  <2>4. Expected(Key(x)) = <<elements[x].value>>
    BY <2>3 DEF Expected
  <2> QED BY <2>2, <2>4
<1>8. ASSUME NEW e \in BelowNode(i) PROVE Key(e) = Key(x) /\ x <= e
  <2>1. Key(e) = Key(x)
    BY <1>4, <1>5
  <2>2. e \in 1..Len(elements) /\ x \in 1..Len(elements) /\ Len(elements) \in Nat
    BY <1>1, ElementFacts
  <2>3. e \notin 1..x - 1
    BY <2>1, <1>5 DEF First, Key
  <2> QED BY <2>1, <2>2, <2>3
<1> QED BY <1>5, <1>6, <1>7, <1>8
-----------------------------------------------------------------------------
(* The stack of the iterator                                               *)

RestOf(s) == UNION {BelowNode(s[n]) : n \in DOMAIN s}

\* What is below a node of a stack comes before what is below a later one.
IsStacked(s) ==
    \A m, n \in DOMAIN s : m < n =>
        \A d \in BelowNode(s[m]), e \in BelowNode(s[n]) : d < e

Precede(D, E) == \A d \in D, e \in E : d < e

LEMMA StackTop ==
    ASSUME NEW S, NEW s \in Seq(S), s # <<>>
    PROVE  /\ Head(s) \in S /\ Tail(s) \in Seq(S) /\ 1 \in DOMAIN s /\ Head(s) = s[1]
           /\ RestOf(s) = BelowNode(Head(s)) \cup RestOf(Tail(s))
           /\ IsStacked(s) => IsStacked(Tail(s)) /\ Precede(BelowNode(Head(s)), RestOf(Tail(s)))
           /\ \A n \in DOMAIN Tail(s) : n + 1 \in DOMAIN s /\ Tail(s)[n] = s[n + 1]
<1>1. /\ Len(s) \in Nat /\ Len(s) # 0 /\ DOMAIN s = 1..Len(s)
      /\ Head(s) = s[1] /\ Tail(s) \in Seq(S) /\ Len(Tail(s)) = Len(s) - 1
      /\ \A i \in 1..Len(s) - 1 : Tail(s)[i] = s[i + 1]
  <2>1. Len(s) \in Nat /\ DOMAIN s = 1..Len(s)
    BY LenProperties
  <2>2. Len(s) # 0
    BY <2>1, EmptySeq
  <2>3. Head(s) = s[1] /\ Tail(s) \in Seq(S) /\ Len(Tail(s)) = Len(s) - 1
    BY HeadTailProperties
  <2>4. \A i \in 1..Len(s) - 1 : Tail(s)[i] = s[i + 1]
    BY <2>3, HeadTailProperties
  <2> QED BY <2>1, <2>2, <2>3, <2>4
<1> DEFINE t == Tail(s)
<1>2. DOMAIN t = 1..Len(s) - 1
  BY <1>1, LenProperties
<1>3. 1 \in DOMAIN s /\ \A n \in 1..Len(s) - 1 : n + 1 \in DOMAIN s /\ t[n] = s[n + 1]
  BY <1>1
<1>4. \A n \in DOMAIN s : n = 1 \/ \E m \in 1..Len(s) - 1 : n = m + 1
  <2> SUFFICES ASSUME NEW n \in 1..Len(s), n # 1 PROVE \E m \in 1..Len(s) - 1 : n = m + 1
    BY <1>1
  <2>1. n - 1 \in 1..Len(s) - 1 /\ n = (n - 1) + 1
    BY <1>1
  <2> QED BY <2>1
<1> HIDE DEF t
<1>5. RestOf(s) = BelowNode(s[1]) \cup RestOf(t)
  <2>1. ASSUME NEW x \in RestOf(s) PROVE x \in BelowNode(s[1]) \cup RestOf(t)
    <3>1. PICK n \in DOMAIN s : x \in BelowNode(s[n])
      BY DEF RestOf
    <3>2. CASE n = 1
      BY <3>1, <3>2
    <3>3. CASE n # 1
      <4>1. PICK m \in DOMAIN t : n = m + 1
        BY <3>3, <1>2, <1>4
      <4>2. t[m] = s[n]
        BY <4>1, <1>2, <1>3
      <4>3. x \in BelowNode(t[m])
        BY <4>2, <3>1
      <4> QED BY <4>3 DEF RestOf
    <3> QED BY <3>2, <3>3
  <2>2. ASSUME NEW x \in BelowNode(s[1]) PROVE x \in RestOf(s)
    BY <1>3 DEF RestOf
  <2>3. ASSUME NEW x \in RestOf(t) PROVE x \in RestOf(s)
    <3>1. PICK m \in DOMAIN t : x \in BelowNode(t[m])
      BY DEF RestOf
    <3>2. m + 1 \in DOMAIN s /\ x \in BelowNode(s[m + 1])
      BY <3>1, <1>2, <1>3
    <3> QED BY <3>2 DEF RestOf
  <2> QED BY <2>1, <2>2, <2>3
<1>6. ASSUME IsStacked(s) PROVE IsStacked(t) /\ Precede(BelowNode(s[1]), RestOf(t))
  <2>1. ASSUME NEW m \in DOMAIN t, NEW n \in DOMAIN t, m < n,
               NEW d \in BelowNode(t[m]), NEW e \in BelowNode(t[n])
        PROVE  d < e
    <3>1. /\ m + 1 \in DOMAIN s /\ n + 1 \in DOMAIN s /\ m + 1 < n + 1
          /\ d \in BelowNode(s[m + 1]) /\ e \in BelowNode(s[n + 1])
      BY <2>1, <1>1, <1>2, <1>3
    <3> QED BY <3>1, <1>6 DEF IsStacked
  <2>2. ASSUME NEW d \in BelowNode(s[1]), NEW e \in RestOf(t) PROVE d < e
    <3>1. PICK n \in DOMAIN t : e \in BelowNode(t[n])
      BY DEF RestOf
    <3>2. n + 1 \in DOMAIN s /\ 1 < n + 1 /\ e \in BelowNode(s[n + 1])
      BY <3>1, <1>1, <1>2, <1>3
    <3> QED BY <3>2, <1>3, <1>6 DEF IsStacked
  <2> QED BY <2>1, <2>2 DEF IsStacked, Precede
<1>7. Head(s) \in S
  BY <1>1, ElementOfSeq
<1> QED BY <1>1, <1>2, <1>3, <1>5, <1>6, <1>7 DEF t

LEMMA StackJoin ==
    ASSUME NEW S, NEW a \in Seq(S), NEW b \in Seq(S), IsStacked(a), IsStacked(b),
           Precede(RestOf(a), RestOf(b))
    PROVE  /\ RestOf(a \o b) = RestOf(a) \cup RestOf(b) /\ IsStacked(a \o b)
           /\ \A n \in DOMAIN (a \o b) :
                 (\E m \in DOMAIN a : (a \o b)[n] = a[m]) \/ (\E m \in DOMAIN b : (a \o b)[n] = b[m])
<1> DEFINE s == a \o b
<1>1. /\ s \in Seq(S) /\ Len(a) \in Nat /\ Len(b) \in Nat /\ Len(s) = Len(a) + Len(b)
      /\ (\A i \in 1..Len(a) : s[i] = a[i]) /\ (\A i \in 1..Len(b) : s[Len(a) + i] = b[i])
  BY JoinProperties DEF IsJoin
<1>2. DOMAIN s = 1..Len(a) + Len(b) /\ DOMAIN a = 1..Len(a) /\ DOMAIN b = 1..Len(b)
  BY <1>1, LenProperties
<1> HIDE DEF s
<1>3. ASSUME NEW n \in DOMAIN s
      PROVE  n \in DOMAIN a \/ \E m \in DOMAIN b : n = Len(a) + m
  <2> SUFFICES ASSUME n \notin DOMAIN a PROVE \E m \in DOMAIN b : n = Len(a) + m
    OBVIOUS
  <2>1. n - Len(a) \in DOMAIN b /\ n = Len(a) + (n - Len(a))
    BY <1>1, <1>2
  <2> QED BY <2>1
<1>4. \A m \in DOMAIN a : m \in DOMAIN s /\ s[m] = a[m]
  BY <1>1, <1>2
<1>5. \A m \in DOMAIN b : Len(a) + m \in DOMAIN s /\ s[Len(a) + m] = b[m]
  BY <1>1, <1>2
<1>6. RestOf(s) = RestOf(a) \cup RestOf(b)
  BY <1>3, <1>4, <1>5 DEF RestOf
<1>7. IsStacked(s)
  <2> SUFFICES ASSUME NEW m \in DOMAIN s, NEW n \in DOMAIN s, m < n,
                      NEW d \in BelowNode(s[m]), NEW e \in BelowNode(s[n])
               PROVE  d < e
    BY DEF IsStacked
  <2>1. CASE m \in DOMAIN a /\ n \in DOMAIN a
    BY <2>1, <1>4 DEF IsStacked
  <2>2. CASE m \in DOMAIN a /\ n \notin DOMAIN a
    <3>1. PICK k \in DOMAIN b : n = Len(a) + k
      BY <2>2, <1>3
    <3>2. d \in RestOf(a) /\ e \in RestOf(b)
      BY <3>1, <2>2, <1>4, <1>5 DEF RestOf
    <3> QED BY <3>2 DEF Precede
  <2>3. CASE m \notin DOMAIN a
    <3>1. PICK h \in DOMAIN b : m = Len(a) + h
      BY <2>3, <1>3
    <3>2. n \notin DOMAIN a
      BY <3>1, <1>1, <1>2
    <3>3. PICK k \in DOMAIN b : n = Len(a) + k
      BY <3>2, <1>3
    <3>4. h < k
      BY <3>1, <3>3, <1>1, <1>2
    <3>5. d \in BelowNode(b[h]) /\ e \in BelowNode(b[k])
      BY <3>1, <3>3, <1>5
    <3> QED BY <3>4, <3>5 DEF IsStacked
  <2> QED BY <2>1, <2>2, <2>3
<1> QED BY <1>3, <1>4, <1>5, <1>6, <1>7 DEF s

\* The children of a node, as next() pushes them, have what is below the node.
LEMMA ChildrenStacked ==
    ASSUME ElementsInv, CellsInv, KeysInv, frames = <<>>, medium = "memory", NEW i \in Inner
    PROVE  LET below == Children(cells[i].base)
           IN  /\ \E S : below \in Seq(S) /\ \A x \in S : x >= 0
               /\ RestOf(below) = BelowNode(i) /\ IsStacked(below)
               /\ \A n \in DOMAIN below : below[n] \in DOMAIN cells /\ cells[below[n]].check # Vacant
<1> DEFINE base == cells[i].base
           T == ChildCodes(base)
           order == InOrder(T)
           below == Children(base)
<1>1. T \in SUBSET (0..Vacant - 1)
  BY DEF ChildCodes, CodesBelow
<1>2. T \in SUBSET Int /\ IsFiniteSet(T)
  <2>1. Vacant - 1 \in Int /\ 0 \in Int /\ 0..Vacant - 1 \in SUBSET Int
    BY VacantAssumption
  <2>2. IsFiniteSet(0..Vacant - 1)
    BY <2>1, FS_Interval
  <2> HIDE DEF T
  <2>3. IsFiniteSet(T)
    BY <2>2, <1>1, FS_Subset
  <2> QED BY <2>1, <2>3, <1>1
<1> DEFINE k == Cardinality(T)
<1>3. /\ k \in Nat /\ order \in [1..k -> T] /\ (\A c \in T : \E n \in 1..k : order[n] = c)
      /\ \A m, n \in 1..k : m < n => order[m] < order[n]
  BY <1>2, InOrderProperties DEF IsInOrder
<1>4. below = [n \in DOMAIN order |-> base + order[n]]
  BY DEF Children, ChildCodes
<1> HIDE DEF order, k
<1>5. DOMAIN below = 1..k /\ \A n \in 1..k : order[n] \in T /\ below[n] = base + order[n]
  BY <1>3, <1>4
<1>6. \E S : below \in Seq(S) /\ \A x \in S : x >= 0
  BY ChildrenFacts
<1>7. ASSUME NEW c \in T PROVE base + c \in DOMAIN cells /\ cells[base + c].check # Vacant
  <2>1. c \in 0..Vacant - 1 /\ CellAt(base + c).check = c
    BY DEF ChildCodes, CodesBelow
  <2>2. c # Vacant
    BY <2>1, VacantAssumption
  <2> QED BY <2>1, <2>2 DEF CellAt, VacantCell
<1> HIDE DEF below, T
<1>8. \A n \in DOMAIN below : below[n] \in DOMAIN cells /\ cells[below[n]].check # Vacant
  BY <1>5, <1>7
<1>9. RestOf(below) = BelowNode(i)
  <2>1. ASSUME NEW e \in RestOf(below) PROVE e \in BelowNode(i)
    <3>1. PICK n \in DOMAIN below : e \in BelowNode(below[n])
      BY DEF RestOf
    <3>2. order[n] \in ChildCodes(cells[i].base) /\ e \in BelowNode(cells[i].base + order[n])
      BY <3>1, <1>5 DEF T
    <3> QED BY <3>2, BelowChild
  <2>2. ASSUME NEW e \in BelowNode(i) PROVE e \in RestOf(below)
    <3>1. PICK h : /\ Code(e, h) \in ChildCodes(cells[i].base)
                   /\ e \in BelowNode(cells[i].base + Code(e, h))
      BY BelowChildren
    <3>2. PICK n \in 1..k : order[n] = Code(e, h)
      BY <3>1, <1>3 DEF T
    <3>3. n \in DOMAIN below /\ e \in BelowNode(below[n])
      BY <3>1, <3>2, <1>5
    <3> QED BY <3>3 DEF RestOf
  <2> QED BY <2>1, <2>2
<1>10. IsStacked(below)
  <2> SUFFICES ASSUME NEW m \in DOMAIN below, NEW n \in DOMAIN below, m < n,
                      NEW d \in BelowNode(below[m]), NEW e \in BelowNode(below[n])
               PROVE  d < e
    BY DEF IsStacked
  <2>1. /\ order[m] \in ChildCodes(cells[i].base) /\ order[n] \in ChildCodes(cells[i].base)
        /\ order[m] < order[n]
        /\ d \in BelowNode(cells[i].base + order[m]) /\ e \in BelowNode(cells[i].base + order[n])
    BY <1>3, <1>5 DEF T
  <2> QED BY <2>1, ChildrenInOrder
<1> QED BY <1>6, <1>8, <1>9, <1>10 DEF below

\* Below the root of the subtrie of a prefix are the elements whose keys begin with it.
LEMMA BelowRoot ==
    ASSUME KeysDiffer, IInv, ContentsInv, frames = <<>>, NEW p \in StringsOf(typed),
           NEW root, root = Traverse(0, Form(p)), root # None
    PROVE  /\ InUse(cells, root)
           /\ \A e \in DOMAIN elements : e \in BelowNode(root) <=> IsPrefix(p, TypedKey(e))
<1> DEFINE b == Form(p)
<1>1. /\ KeysFit /\ ElementsInv /\ CellsInv /\ KeysInv /\ NodesInv
      /\ TypedInv /\ typed \in Tries
  BY DEF IInv, ClientInv, TypedInv
<1>2. p \in Seq(CharactersOf(typed)) /\ b \in KeySet
  BY <1>1 DEF KeysDiffer, Form, KeySet
<1>3. \A e \in DOMAIN elements : /\ TypedKey(e) \in Seq(CharactersOf(typed)) /\ Key(e) = Form(TypedKey(e))
                                 /\ Key(e) \in KeySet
  BY <1>1, TypedKeys, ElementFacts DEF KeysDiffer
<1>4. ASSUME NEW e \in DOMAIN elements
      PROVE  IsPrefix(p, TypedKey(e)) <=> Len(b) <= Len(Key(e)) /\ AgreeTo(b, Key(e), Len(b))
  <2>1. IsPrefix(p, TypedKey(e)) <=> IsStart(p, TypedKey(e))
    BY <1>2, <1>3, PrefixIsStart
  <2>2. IsStart(Form(p), Form(TypedKey(e))) <=> IsStart(p, TypedKey(e))
    BY <1>1, <1>2, <1>3, FormFacts
  <2>3. IsStart(b, Key(e)) <=> Len(b) <= Len(Key(e)) /\ AgreeTo(b, Key(e), Len(b))
    BY <1>2, <1>3, StartIsAgreement
  <2> QED BY <2>1, <2>2, <2>3, <1>3
<1>5. /\ Len(b) \in Nat /\ Len(b) <= Len(b) + 1 /\ Len(b) <= Len(b)
      /\ root = TextWay(b)[Len(b)] /\ TextWay(b)[0] = 0
  <2>1. Len(b) \in Nat /\ root = TextWay(b)[Len(b)] /\ TextWay(b)[0] = 0
    BY <1>2, TextLeads, TextWayFacts
  <2> HIDE DEF b
  <2> QED BY <2>1
<1> HIDE DEF b
<1>6. IsKnown(b, Len(b))
  BY <1>1, <1>2, <1>5, KnownWay
<1>7. root \in Inner
  BY <1>1, <1>2, <1>5, <1>6, KnownNode
<1>8. InUse(cells, root)
  BY <1>7 DEF Inner, InUse
<1>9. ASSUME NEW e \in DOMAIN elements, Len(b) <= Len(Key(e)), AgreeTo(b, Key(e), Len(b))
      PROVE  e \in BelowNode(root)
  <2>1. SubSeq(b, 1, Len(b)) = SubSeq(Key(e), 1, Len(b))
    BY <1>2, <1>3, <1>5, <1>9, SameBeginning
  <2>2. SubSeq(b, 1, Len(b)) = b
    BY <1>2, SubSeqFull DEF KeySet
  <2>3. WayOf(e)[Len(b)] = Traverse(0, b)
    BY <2>1, <2>2, <1>1, <1>5, <1>9, BeginningLeads
  <2>4. Len(Key(e)) \in Nat
    BY <1>1, WayFacts
  <2>5. Len(b) \in 0..Len(Key(e)) + 1
    BY <2>4, <1>5, <1>9
  <2> QED BY <2>3, <2>5 DEF BelowNode, b
<1>10. ASSUME NEW e \in BelowNode(root) PROVE Len(b) <= Len(Key(e)) /\ AgreeTo(b, Key(e), Len(b))
  <2>1. e \in DOMAIN elements
    BY DEF BelowNode
  <2>2. Key(e) \in KeySet /\ Len(Key(e)) \in Nat /\ \A k \in 0..Len(Key(e)) + 1 : OnWay(e, k)
    BY <2>1, <1>1, <1>3, BuiltWays
  <2>3. CASE Len(b) = 0
    <3>1. AgreeTo(b, Key(e), 0)
      BY DEF AgreeTo
    <3> QED BY <3>1, <2>2, <2>3
  <2>4. CASE Len(b) # 0
    <3>1. PICK d \in DOMAIN elements : GoesWith(b, Len(b), d)
      BY <2>4, <1>5, <1>6 DEF IsKnown
    <3>2. PICK k \in 0..Len(Key(e)) + 1 : WayOf(e)[k] = root
      BY DEF BelowNode
    <3>3. k = Len(b) /\ AgreeTo(Key(e), Key(d), k)
      BY <3>1, <3>2, <2>1, <2>2, <1>1, <1>5, WaysMeet DEF GoesWith
    <3>4. AgreeTo(b, Key(d), Len(b))
      BY <3>1 DEF GoesWith
    <3>5. AgreeTo(b, Key(e), Len(b))
      BY <3>3, <3>4, Agreement
    <3>6. Len(b) <= Len(Key(e))
      BY <3>5, <2>2, <1>2, <1>5, AgreementLength
    <3> QED BY <3>5, <3>6
  <2> QED BY <2>3, <2>4
<1>11. \A e \in DOMAIN elements : e \in BelowNode(root) <=> IsPrefix(p, TypedKey(e))
  BY <1>4, <1>9, <1>10
<1> QED BY <1>8, <1>11
-----------------------------------------------------------------------------
(* The iterator                                                            *)

\* What is below the stack is yet to come, and the rest of what is below the root has
\* been pointed to, in order.
IsIterating(s, p, y) ==
    /\ \A n \in DOMAIN s : InUse(cells, s[n])
    /\ IsStacked(s)
    /\ \A e \in RestOf(s) : IsPrefix(p, TypedKey(e))
    /\ Precede(Under(p) \ RestOf(s), RestOf(s))
    /\ y = ValuesOf(Under(p) \ RestOf(s))

StackInv ==
    /\ iterator # "failed"
    /\ iterator = "none" => NoIterator
    /\ iterator # "none" => medium = "memory" /\ IsIterating(stack, prefix, yielded)
    /\ iterator = "ready" /\ current = <<>> => stack = <<>>

\* Vacant cells behind the others are below nothing.
LEMMA GrownBelow ==
    ASSUME ElementsInv, CellsInv, KeysInv, frames = <<>>,
           \E last : IsGrown(cells, cells', last), elements' = elements
    PROVE  /\ \A e \in DOMAIN elements : \A k \in 0..Len(Key(e)) + 1 :
                 Way(cells', 0, Append(Key(e), Terminator))[k] = WayOf(e)[k]
           /\ \A i : InUse(cells, i) => InUse(cells', i)
<1>1. PICK last : IsGrown(cells, cells', last)
  OBVIOUS
<1>2. None \notin DOMAIN cells
  BY DEF CellsInv, None
<1>3. IsKept(cells, cells', None)
  BY <1>1 DEF IsGrown, IsKept
<1>4. \A i : InUse(cells, i) => InUse(cells', i)
  BY <1>1 DEF IsGrown, InUse
<1>5. ASSUME NEW e \in DOMAIN elements
      PROVE  \A k \in 0..Len(Key(e)) + 1 : Way(cells', 0, Append(Key(e), Terminator))[k] = WayOf(e)[k]
  <2> DEFINE m == Len(Key(e)) + 1
             w == WayOf(e)
  <2>1. /\ Len(Key(e)) \in Nat /\ (\A k \in 0..m : k \in Nat /\ OnWay(e, k))
        /\ \A k \in 0..Len(Key(e)) : w[k] \in Inner
    BY BuiltWays
  <2>2. m \in Nat /\ m <= Len(Key(e)) + 1 /\ m \in 0..m /\ \A k \in 0..m - 1 : k \in 0..Len(Key(e))
    BY <2>1
  <2>3. w[m] \in DOMAIN cells
    BY <2>1, <2>2 DEF OnWay
  <2>4. \A k \in 0..m - 1 : InUse(cells, w[k]) /\ w[k] # None
    BY <2>1, <2>2, <1>2 DEF Inner, InUse
  <2>5. w = Way(cells, 0, Append(Key(e), Terminator))
    BY DEF WayOf
  <2> HIDE DEF w, m
  <2>6. \A k \in 0..m : Way(cells', 0, Append(Key(e), Terminator))[k] = w[k]
    BY <2>2, <2>3, <2>4, <2>5, <1>2, <1>3, WayStays DEF m
  <2> QED BY <2>6 DEF w, m
<1> QED BY <1>4, <1>5

LEMMA IteratingKept ==
    ASSUME ElementsInv, CellsInv, KeysInv, frames = <<>>,
           \E last : IsGrown(cells, cells', last), elements' = elements, typed' = typed,
           NEW s, s = stack', NEW p, p = prefix', NEW y, y = yielded', IsIterating(s, p, y)
    PROVE  IsIterating(stack, prefix, yielded)'
<1>1. /\ \A e \in DOMAIN elements : \A k \in 0..Len(Key(e)) + 1 :
            Way(cells', 0, Append(Key(e), Terminator))[k] = WayOf(e)[k]
      /\ \A i : InUse(cells, i) => InUse(cells', i)
  BY GrownBelow
<1>2. ASSUME NEW n PROVE BelowNode(stack[n])' = BelowNode(s[n])
  <2>1. \A e \in DOMAIN elements : \A k \in 0..Len(elements[e].key) + 1 :
            Way(cells', 0, Append(elements[e].key, Terminator))[k] = WayOf(e)[k]
    BY <1>1 DEF Key
  <2>2. BelowNode(s[n]) = {e \in DOMAIN elements : \E k \in 0..Len(elements[e].key) + 1 : WayOf(e)[k] = s[n]}
    BY DEF BelowNode, Key
  <2>3. BelowNode(stack[n])' =
            {e \in DOMAIN elements : \E k \in 0..Len(elements[e].key) + 1 :
                Way(cells', 0, Append(elements[e].key, Terminator))[k] = s[n]}
    BY DEF BelowNode, Key, WayOf
  <2> QED BY <2>1, <2>2, <2>3
<1>3. RestOf(stack)' = RestOf(s)
  BY <1>2 DEF RestOf
<1>4. Under(prefix)' = Under(p)
  BY DEF Under, First
<1>5. \A e : TypedKey(e)' = TypedKey(e)
  BY DEF TypedKey
<1>6. \A n \in DOMAIN stack' : InUse(cells, stack[n])'
  BY <1>1 DEF IsIterating, InUse
<1>7. IsStacked(stack)'
  BY <1>2 DEF IsIterating, IsStacked
<1>8. \A e \in RestOf(stack)' : IsPrefix(prefix', TypedKey(e)')
  BY <1>3, <1>5 DEF IsIterating
<1> DEFINE done == Under(p) \ RestOf(s)
<1>9. (Under(prefix) \ RestOf(stack))' = done
  BY <1>3, <1>4
<1>10. Precede(done, RestOf(s)) /\ y = ValuesOf(done)
  BY DEF IsIterating
<1> HIDE DEF done
<1>11. Precede(Under(prefix) \ RestOf(stack), RestOf(stack))'
  BY <1>3, <1>9, <1>10 DEF Precede
<1>12. yielded' = ValuesOf(Under(prefix) \ RestOf(stack))'
  BY <1>9, <1>10 DEF ValuesOf
<1> QED BY <1>6, <1>7, <1>8, <1>11, <1>12 DEF IsIterating
-----------------------------------------------------------------------------
(* The steps of the iterator                                               *)

\* The root of a subtrie is the stack that an iterator begins with.
LEMMA RootIsIterating ==
    ASSUME KeysDiffer, IInv, ContentsInv, frames = <<>>, NEW p \in Asked[typed.escape],
           NEW root, root = Traverse(0, Form(p)), root # None
    PROVE  IsIterating(<<root>>, p, <<>>)
<1> DEFINE s == <<root>>
<1>1. p \in StringsOf(typed)
  BY DEF StringsOf
<1>2. /\ InUse(cells, root)
      /\ \A e \in DOMAIN elements : e \in BelowNode(root) <=> IsPrefix(p, TypedKey(e))
  BY <1>1, BelowRoot
<1>3. DOMAIN s = {1} /\ s[1] = root
  OBVIOUS
<1> HIDE DEF s
<1>4. RestOf(s) = BelowNode(root)
  BY <1>3 DEF RestOf
<1>5. IsStacked(s)
  BY <1>3 DEF IsStacked
<1>6. BelowNode(root) \subseteq DOMAIN elements
  BY DEF BelowNode
<1>7. Under(p) \ RestOf(s) = {}
  BY <1>2, <1>4 DEF Under, TypedKey
<1>8. ValuesOf({}) = <<>>
  <2>1. Cardinality({}) = 0
    BY FS_EmptySet
  <2>2. DOMAIN InOrder({}) = {}
    BY <2>1 DEF InOrder
  <2> QED BY <2>2 DEF ValuesOf
<1>9. Precede(Under(p) \ RestOf(s), RestOf(s))
  BY <1>7 DEF Precede
<1> QED BY <1>2, <1>3, <1>4, <1>5, <1>6, <1>7, <1>8, <1>9 DEF IsIterating, s

\* A leaf on top of the stack has the value that comes next.
LEMMA LeafIsNext ==
    ASSUME ElementsInv, CellsInv, KeysInv, NodesInv, frames = <<>>,
           NEW S, NEW s \in Seq(S), s # <<>>, NEW p, NEW y, IsIterating(s, p, y),
           cells[Head(s)].check = Terminator
    PROVE  IsIterating(Tail(s), p, Append(y, cells[Head(s)].base))
<1> DEFINE i == Head(s)
           t == Tail(s)
           D == BelowNode(i)
           done == Under(p) \ RestOf(s)
<1>1. /\ 1 \in DOMAIN s /\ i = s[1] /\ RestOf(s) = D \cup RestOf(t)
      /\ IsStacked(t) /\ Precede(D, RestOf(t))
      /\ \A n \in DOMAIN t : n + 1 \in DOMAIN s /\ t[n] = s[n + 1]
  BY StackTop DEF IsIterating
<1>2. /\ \A n \in DOMAIN s : InUse(cells, s[n])
      /\ \A e \in RestOf(s) : IsPrefix(p, TypedKey(e))
      /\ Precede(done, RestOf(s)) /\ y = ValuesOf(done)
  BY DEF IsIterating
<1>3. i \in DOMAIN cells
  BY <1>1, <1>2 DEF InUse
<1>4. PICK x \in D : /\ First(x) /\ cells[i].base = elements[x].value
                     /\ \A e \in D : Key(e) = Key(x) /\ x <= e
  BY <1>3, BelowLeaf
<1>5. D \subseteq DOMAIN elements /\ DOMAIN elements = 1..Len(elements) /\ Len(elements) \in Nat
  BY ElementFacts DEF BelowNode
<1>6. RestOf(t) \subseteq DOMAIN elements
  BY DEF RestOf, BelowNode
<1> HIDE DEF t, D, i
<1>7. x \in DOMAIN elements /\ x \in Int /\ x \in RestOf(s) /\ x \in Under(p)
  BY <1>1, <1>2, <1>4, <1>5 DEF Under, TypedKey
<1>8. x \notin RestOf(t)
  BY <1>1, <1>4, <1>7 DEF Precede
<1>9. ASSUME NEW e \in Under(p), e \in D PROVE e = x
  <2>1. Key(e) = Key(x) /\ x <= e /\ First(e) /\ e \in Int
    BY <1>4, <1>5, <1>9 DEF Under
  <2>2. x < e => x \in 1..e - 1
    BY <2>1, <1>5, <1>7
  <2>3. ~(x < e)
    BY <2>1, <2>2 DEF First, Key
  <2> QED BY <2>1, <2>3, <1>7
<1>10. Under(p) \ RestOf(t) = done \cup {x}
  BY <1>1, <1>7, <1>8, <1>9
<1>11. Precede(Under(p) \ RestOf(t), RestOf(t))
  BY <1>1, <1>2, <1>4, <1>10 DEF Precede
<1>12. Append(y, cells[i].base) = ValuesOf(Under(p) \ RestOf(t))
  <2>1. done \in SUBSET DOMAIN elements
    BY DEF Under
  <2>2. \A d \in done : d < x
    BY <1>2, <1>7 DEF Precede
  <2> HIDE DEF done
  <2>3. ValuesOf(done \cup {x}) = Append(ValuesOf(done), elements[x].value)
    BY <2>1, <2>2, <1>7, ValuesAppend
  <2> QED BY <2>3, <1>2, <1>4, <1>10
<1>13. \A n \in DOMAIN t : InUse(cells, t[n])
  BY <1>1, <1>2
<1>14. \A e \in RestOf(t) : IsPrefix(p, TypedKey(e))
  BY <1>1, <1>2
<1> QED BY <1>1, <1>11, <1>12, <1>13, <1>14 DEF IsIterating, t, i

\* The children of a node have its place on the stack.
LEMMA ChildrenAreNext ==
    ASSUME ElementsInv, CellsInv, KeysInv, frames = <<>>, medium = "memory",
           NEW S, NEW s \in Seq(S), s # <<>>, NEW p, NEW y, IsIterating(s, p, y),
           cells[Head(s)].check # Terminator
    PROVE  IsIterating(Children(cells[Head(s)].base) \o Tail(s), p, y)
<1> DEFINE i == Head(s)
           t == Tail(s)
           below == Children(cells[i].base)
<1>1. /\ 1 \in DOMAIN s /\ i = s[1] /\ t \in Seq(S) /\ RestOf(s) = BelowNode(i) \cup RestOf(t)
      /\ IsStacked(t) /\ Precede(BelowNode(i), RestOf(t))
      /\ \A n \in DOMAIN t : n + 1 \in DOMAIN s /\ t[n] = s[n + 1]
  BY StackTop DEF IsIterating
<1>2. /\ \A n \in DOMAIN s : InUse(cells, s[n])
      /\ \A e \in RestOf(s) : IsPrefix(p, TypedKey(e))
      /\ Precede(Under(p) \ RestOf(s), RestOf(s)) /\ y = ValuesOf(Under(p) \ RestOf(s))
  BY DEF IsIterating
<1>3. i \in Inner
  BY <1>1, <1>2 DEF InUse, Inner
<1>4. /\ \E U : below \in Seq(U) /\ \A x \in U : x >= 0
      /\ RestOf(below) = BelowNode(i) /\ IsStacked(below)
      /\ \A n \in DOMAIN below : below[n] \in DOMAIN cells /\ cells[below[n]].check # Vacant
  BY <1>3, ChildrenStacked
<1>5. PICK U : below \in Seq(U)
  BY <1>4
<1> HIDE DEF below, t, i
<1>6. below \in Seq(U \cup S) /\ t \in Seq(U \cup S)
  BY <1>1, <1>5, SeqOfMore
<1> DEFINE join == below \o t
<1>7. /\ RestOf(join) = RestOf(s) /\ IsStacked(join)
      /\ \A n \in DOMAIN join :
            (\E m \in DOMAIN below : join[n] = below[m]) \/ (\E m \in DOMAIN t : join[n] = t[m])
  BY <1>1, <1>4, <1>6, StackJoin
<1> HIDE DEF join
<1>8. \A n \in DOMAIN join : InUse(cells, join[n])
  BY <1>1, <1>2, <1>4, <1>7 DEF InUse
<1>9. IsIterating(join, p, y)
  BY <1>2, <1>7, <1>8 DEF IsIterating
<1> QED BY <1>9 DEF join, below, t, i

LEMMA InitHasStackInv == Init => StackInv
BY DEF Init, NoIterator, StackInv

LEMMA NextKeepsStackInv ==
    ASSUME IInv, RoomInv, KeysDiffer, IteratedInMemory, StackInv, [Next]_vars
    PROVE  StackInv'
<1>1. /\ ElementsInv /\ CellsInv /\ KeysInv /\ NodesInv /\ ClientInv
      /\ ContentsInv /\ IteratorInv
  BY DEF IInv, RoomInv
<1>2. (BuildIter /\ UNCHANGED clientVars) \/ ClientStep \/ UNCHANGED vars
  BY DEF Next, ClientStep, Advance
<1>3. PICK S : stack \in Seq(S)
  BY <1>1 DEF ClientInv
<1>4. ASSUME ClientStep \/ UNCHANGED vars, frames = <<>>, iterator' # "none", medium = "memory",
             NEW s, s = stack', NEW p, p = prefix', NEW y, y = yielded', IsIterating(s, p, y),
             typed' = typed
      PROVE  IsIterating(stack, prefix, yielded)'
  <2>1. (\E last : IsGrown(cells, cells', last)) /\ elements' = elements
    BY <1>1, <1>4, ClientStepGrows
  <2> QED BY <2>1, <1>1, <1>4, IteratingKept
<1>5. iterator # "none" =>
          /\ frames = <<>> /\ medium = "memory" /\ IsIterating(stack, prefix, yielded)
          /\ stack # <<>> => Head(stack) \in DOMAIN cells
  <2> SUFFICES ASSUME iterator # "none", stack # <<>> PROVE Head(stack) \in DOMAIN cells
    BY <1>1 DEF StackInv, IteratorInv
  <2>1. 1 \in DOMAIN stack /\ Head(stack) = stack[1]
    BY <1>3, StackTop
  <2> QED BY <2>1 DEF StackInv, IsIterating, InUse
<1>6. CASE BuildIter /\ UNCHANGED clientVars
  <2>1. iterator = "none"
    BY <1>1, <1>6 DEF BuildIter, IteratorInv
  <2> QED BY <2>1, <1>6 DEF clientVars, StackInv, NoIterator
<1>7. ASSUME NEW p \in Asked[typed.escape], Begin(p) PROVE StackInv'
  <2>1. /\ frames = <<>> /\ medium = "memory" /\ iterator = "none"
        /\ Traverse(0, Form(p)) # None
    BY <1>7 DEF Begin, Built, IteratedInMemory
  <2>2. /\ prefix' = p /\ stack' = <<Traverse(0, Form(p))>> /\ iterator' = "advancing"
        /\ medium' = medium /\ yielded' = yielded /\ typed' = typed
    BY <1>7 DEF Begin
  <2>3. yielded = <<>>
    BY <2>1 DEF StackInv, NoIterator
  <2>4. PICK root : root = Traverse(0, Form(p))
    OBVIOUS
  <2>5. IsIterating(<<root>>, p, <<>>)
    BY <2>1, <2>4, <1>1, RootIsIterating
  <2>6. IsIterating(stack, prefix, yielded)'
    BY <2>1, <2>2, <2>3, <2>4, <2>5, <1>4, <1>7 DEF ClientStep
  <2> QED BY <2>1, <2>2, <2>6 DEF StackInv
<1>8. CASE PassTheEnd
  <2>1. /\ iterator = "advancing" /\ stack = <<>> /\ iterator' = "ready" /\ current' = <<>>
        /\ UNCHANGED <<typed, medium, prefix, stack, yielded>>
    BY <1>8 DEF PassTheEnd
  <2>2. IsIterating(stack, prefix, yielded)'
    BY <2>1, <1>4, <1>5, <1>8 DEF ClientStep
  <2> QED BY <2>1, <2>2, <1>5 DEF StackInv
<1>9. CASE Yield
  <2>1. /\ iterator = "advancing" /\ stack # <<>> /\ Popped.check = Terminator
        /\ iterator' = "ready" /\ current' = <<Popped.base>>
        /\ stack' = Tail(stack) /\ yielded' = Append(yielded, Popped.base)
        /\ UNCHANGED <<typed, medium, prefix>>
    BY <1>9 DEF Yield
  <2>2. Popped = cells[Head(stack)]
    BY <2>1, <1>5 DEF Popped, CellAt
  <2>3. IsIterating(Tail(stack), prefix, Append(yielded, cells[Head(stack)].base))
    BY <2>1, <2>2, <1>1, <1>3, <1>5, LeafIsNext
  <2>4. IsIterating(stack, prefix, yielded)'
    BY <2>1, <2>2, <2>3, <1>4, <1>5, <1>9 DEF ClientStep
  <2>5. current' # <<>>
    BY <2>1
  <2> QED BY <2>1, <2>4, <2>5, <1>5 DEF StackInv
<1>10. CASE Visit
  <2>1. /\ iterator = "advancing" /\ stack # <<>> /\ Popped.check # Terminator
        /\ UNCHANGED <<typed, medium, prefix, current, yielded>>
    BY <1>10 DEF Visit
  <2>2. Popped = cells[Head(stack)] /\ \A n : Readable(n)
    BY <2>1, <1>5 DEF Popped, CellAt, Readable
  <2>3. stack' = Children(cells[Head(stack)].base) \o Tail(stack) /\ iterator' = iterator
    BY <2>2, <1>10 DEF Visit
  <2>4. IsIterating(Children(cells[Head(stack)].base) \o Tail(stack), prefix, yielded)
    BY <2>1, <2>2, <1>1, <1>3, <1>5, ChildrenAreNext
  <2>5. IsIterating(stack, prefix, yielded)'
    BY <2>1, <2>3, <2>4, <1>4, <1>5, <1>10 DEF ClientStep
  <2> QED BY <2>1, <2>3, <2>5, <1>5 DEF StackInv
<1>11. CASE Increment
  <2>1. /\ iterator = "ready" /\ iterator' = "advancing"
        /\ UNCHANGED <<typed, medium, prefix, stack, yielded>>
    BY <1>11 DEF Increment
  <2>2. IsIterating(stack, prefix, yielded)'
    BY <2>1, <1>4, <1>5, <1>11 DEF ClientStep
  <2> QED BY <2>1, <2>2, <1>5 DEF StackInv
<1>12. CASE Destroy
  BY <1>12 DEF Destroy, StackInv, NoIterator
<1>13. CASE Serialize
  BY <1>13 DEF Serialize, StackInv, NoIterator
<1>14. CASE UNCHANGED vars
  <2>1. UNCHANGED <<typed, medium, prefix, stack, iterator, current, yielded>>
    BY <1>14 DEF vars
  <2>2. iterator # "none" => IsIterating(stack, prefix, yielded)'
    BY <2>1, <1>4, <1>5, <1>14
  <2> QED BY <2>1, <2>2 DEF StackInv, NoIterator
<1> QED BY <1>2, <1>6, <1>7, <1>8, <1>9, <1>10, <1>11, <1>12, <1>13, <1>14 DEF ClientStep

LEMMA InvIteratesInOrder == ElementsInv /\ StackInv => IteratesInOrder
<1> SUFFICES ASSUME ElementsInv, StackInv, iterator # "none"
             PROVE  /\ IsPrefix(yielded, ValuesUnder(prefix))
                    /\ iterator = "ready" /\ current = <<>> => yielded = ValuesUnder(prefix)
  BY DEF StackInv, IteratesInOrder
<1> DEFINE done == Under(prefix) \ RestOf(stack)
           rest == Under(prefix) \cap RestOf(stack)
<1>1. Precede(done, RestOf(stack)) /\ yielded = ValuesOf(done)
  BY DEF StackInv, IsIterating
<1>2. ValuesUnder(prefix) = ValuesOf(done \cup rest)
  <2>1. done \cup rest = Under(prefix)
    OBVIOUS
  <2> HIDE DEF done, rest
  <2> QED BY <2>1 DEF ValuesUnder, ValuesOf
<1>3. done \in SUBSET DOMAIN elements /\ rest \in SUBSET DOMAIN elements
  BY DEF Under
<1>4. \A s \in done, t \in rest : s < t
  BY <1>1 DEF Precede
<1> HIDE DEF done
<1>5. stack = <<>> => rest = {}
  BY DEF RestOf
<1> HIDE DEF rest
<1>6. IsPrefix(ValuesOf(done), ValuesOf(done \cup rest))
  BY <1>3, <1>4, ValuesBegin
<1>7. ASSUME iterator = "ready", current = <<>> PROVE done \cup rest = done
  BY <1>5, <1>7 DEF StackInv
<1> QED BY <1>1, <1>2, <1>6, <1>7

\* An iterator over a trie in memory, or over a subtrie, points to the values of the
\* keys below it, to all of them, to each once, and in the order of the keys.
THEOREM IteratesTheKeys ==
    ASSUME KeysFit, KeysAreFew, KeysDiffer, IteratedInMemory
    PROVE  Spec => []IteratesInOrder
<1> DEFINE R == IInv /\ RoomInv /\ KeysAreFew /\ KeysDiffer /\ IteratedInMemory /\ StackInv
<1>1. Init => R
  BY InitIsInv, InitHasRoomInv, InitHasStackInv
<1>2. R /\ [Next]_vars => R'
  BY FewKeysHaveRoom, NextKeepsInv, NextKeepsRoomInv, NextKeepsStackInv
  DEF KeysAreFew, KeysDiffer, IteratedInMemory
<1>3. R => IteratesInOrder
  BY InvIteratesInOrder DEF IInv
<1> QED BY <1>1, <1>2, <1>3, PTL DEF Spec
=============================================================================
