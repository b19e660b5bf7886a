--------------------------- MODULE FlattenLemmas ---------------------------
(***************************************************************************)
(* Facts about numbers and about sequences of sequences that the proofs of *)
(* several components cite.  Induction has the form of a statement about   *)
(* sets of numbers, which needs no operator as a parameter.                *)
(***************************************************************************)
EXTENDS SequencesExt, FiniteSetTheorems, SequenceTheorems, TLAPS

\* A set of numbers that is not empty has a least one.
LEMMA LeastNumber ==
    ASSUME NEW T, T \subseteq Nat, T # {}
    PROVE  \E x \in T : \A y \in T : x <= y
<1>1. IsWellFoundedOn(OpToRel(<, Nat), Nat)
  BY NatLessThanWellFounded
<1>2. PICK x \in T : \A y \in T : <<y, x>> \notin OpToRel(<, Nat)
  BY <1>1, WFMin
<1>3. \A y \in T : ~(y < x)
  BY <1>2 DEF OpToRel
<1> QED BY <1>3

\* A set that has 0, and with a number the next one, has all of them.
LEMMA SetInduction ==
    ASSUME NEW T, 0 \in T, \A n \in Nat : n \in T => n + 1 \in T
    PROVE  Nat \subseteq T
<1> SUFFICES ASSUME Nat \ T # {} PROVE FALSE
  OBVIOUS
<1>1. PICK x \in Nat \ T : \A y \in Nat \ T : x <= y
  BY LeastNumber, Nat \ T \subseteq Nat
<1>2. x # 0 /\ x - 1 \in Nat
  BY <1>1
<1>3. x - 1 \in T
  BY <1>1, <1>2
<1>4. (x - 1) + 1 = x
  BY <1>1
<1> QED BY <1>1, <1>2, <1>3, <1>4

LEMMA QuotientAndRemainder ==
    ASSUME NEW m \in Nat \ {0}, NEW x \in Int
    PROVE  x \div m \in Int /\ x % m \in 0..m - 1 /\ x = m * (x \div m) + (x % m)
BY SMT

\* There is one quotient and one remainder.
LEMMA OneQuotient ==
    ASSUME NEW m \in Nat \ {0}, NEW q \in Int, NEW r \in 0..m - 1
    PROVE  (m * q + r) \div m = q /\ (m * q + r) % m = r
<1> DEFINE x == m * q + r
           p == x \div m
           s == x % m
<1>1. p \in Int /\ s \in 0..m - 1 /\ x = m * p + s
  BY SMT
<1>2. x \in Int
  BY SMT
<1> HIDE DEF p, s
<1>3. m * (p - q) = r - s
  <2>1. m * p + s = m * q + r
    BY <1>1
  <2> QED BY <2>1, <1>1, SMT
<1>4. p = q
  <2>1. CASE p - q >= 1
    <3>1. m * (p - q) >= m
      BY <2>1, <1>1, SMT
    <3> QED BY <3>1, <1>3, <1>1, SMT
  <2>2. CASE p - q <= -1
    <3>1. m * (p - q) <= -m
      BY <2>2, <1>1, SMT
    <3> QED BY <3>1, <1>3, <1>1, SMT
  <2>3. p - q \in Int
    BY <1>1
  <2> QED BY <2>1, <2>2, <2>3, <1>1, SMT
<1>5. s = r
  BY <1>3, <1>4, <1>1, SMT
<1> QED BY <1>4, <1>5 DEF p, s
-----------------------------------------------------------------------------
LEMMA FunctionIsSeq ==
    ASSUME NEW S, NEW n \in Nat, NEW f \in [1..n -> S]
    PROVE  f \in Seq(S) /\ Len(f) = n
<1>1. f \in Seq(S)
  BY SeqDef
<1>2. Len(f) \in Nat /\ 1..n = 1..Len(f)
  BY <1>1, LenProperties
<1> QED BY <1>1, <1>2

\* The part of a sequence behind one place, up to another.
IsPart(part, s, from, to) ==
    Len(part) = to - from /\ \A i \in 1..to - from : part[i] = s[from + i]

LEMMA PartProperties ==
    ASSUME NEW S, NEW s \in Seq(S), NEW from \in Nat, NEW to \in Nat, from <= to, to <= Len(s)
    PROVE  SubSeq(s, from + 1, to) \in Seq(S) /\ IsPart(SubSeq(s, from + 1, to), s, from, to)
<1> DEFINE first == from + 1
           part == SubSeq(s, first, to)
<1>1. Len(s) \in Nat /\ first \in Int /\ to \in Int /\ first <= to + 1
  BY LenProperties
<1>2. \A i \in first..to : s[i] \in S
  BY <1>1, ElementOfSeq
<1>3. \A i \in Int : first + i - 1 = from + i
  OBVIOUS
<1>4. to - first + 1 = to - from /\ (first <= to \/ to - first + 1 = 0)
  BY <1>1
<1> HIDE DEF first
<1>5. /\ part \in Seq(S) /\ Len(part) = IF first <= to THEN to - first + 1 ELSE 0
      /\ \A i \in 1..to - first + 1 : part[i] = s[first + i - 1]
  BY <1>1, <1>2, SubSeqProperties
<1> HIDE DEF part
<1>6. Len(part) = to - from
  BY <1>4, <1>5
<1>7. \A i \in 1..to - from : part[i] = s[from + i]
  <2> TAKE i \in 1..to - from
  <2>1. i \in 1..to - first + 1 /\ i \in Int
    BY <1>4
  <2>2. part[i] = s[first + i - 1]
    BY <2>1, <1>5
  <2> QED BY <2>1, <2>2, <1>3
<1> QED BY <1>5, <1>6, <1>7 DEF IsPart, part, first

\* Two sequences, one behind the other.
IsJoin(s, a, b) ==
    /\ Len(s) = Len(a) + Len(b)
    /\ \A i \in 1..Len(a) : s[i] = a[i]
    /\ \A i \in 1..Len(b) : s[Len(a) + i] = b[i]

LEMMA JoinProperties ==
    ASSUME NEW S, NEW a \in Seq(S), NEW b \in Seq(S)
    PROVE  a \o b \in Seq(S) /\ Len(a) \in Nat /\ Len(b) \in Nat /\ IsJoin(a \o b, a, b)
<1> DEFINE s == a \o b
<1>1. /\ s \in Seq(S) /\ Len(s) = Len(a) + Len(b) /\ Len(a) \in Nat /\ Len(b) \in Nat
      /\ \A i \in 1..Len(a) + Len(b) : s[i] = IF i <= Len(a) THEN a[i] ELSE b[i - Len(a)]
  BY ConcatProperties, LenProperties
<1> HIDE DEF s
<1>2. \A i \in 1..Len(a) : s[i] = a[i]
  BY <1>1
<1>3. \A i \in 1..Len(b) : s[Len(a) + i] = b[i]
  <2> TAKE i \in 1..Len(b)
  <2>1. Len(a) + i \in 1..Len(a) + Len(b) /\ ~(Len(a) + i <= Len(a)) /\ (Len(a) + i) - Len(a) = i
    BY <1>1
  <2> QED BY <2>1, <1>1
<1> QED BY <1>1, <1>2, <1>3 DEF IsJoin, s
-----------------------------------------------------------------------------
Regrouped(a, b, c) == (a \o b) \o c = a \o (b \o c)

LEMMA Regrouping == \A S : \A a, b, c \in Seq(S) : Regrouped(a, b, c)
  BY DEF Regrouped

\* What FlattenSeq() computes, one member after the other.
Concatenates(f, ss) ==
    f = [i \in 1..Len(ss) |-> IF i = 1 THEN ss[i] ELSE f[i - 1] \o ss[i]]

\* There is such a function, and its values are sequences.
LEMMA ConcatenationExists ==
    ASSUME NEW S, NEW ss \in Seq(Seq(S))
    PROVE  \E f \in [1..Len(ss) -> Seq(S)] : Concatenates(f, ss)
<1> DEFINE Step(f, i) == f[i] = IF i = 1 THEN ss[i] ELSE f[i - 1] \o ss[i]
           Upto(n) == \E f \in [1..n -> Seq(S)] : \A i \in 1..n : Step(f, i)
           T == {n \in Nat : n <= Len(ss) => Upto(n)}
<1>0. Len(ss) \in Nat /\ DOMAIN ss = 1..Len(ss) /\ \A i \in 1..Len(ss) : ss[i] \in Seq(S)
  BY LenProperties, ElementOfSeq
<1>1. Upto(0)
  <2>1. [i \in 1..0 |-> <<>>] \in [1..0 -> Seq(S)]
    BY EmptySeq
  <2>2. \A i \in 1..0 : FALSE
    OBVIOUS
  <2> HIDE DEF Step
  <2> QED BY <2>1, <2>2
<1>2. ASSUME NEW n \in Nat, n + 1 <= Len(ss), Upto(n)
      PROVE  Upto(n + 1)
  <2>1. PICK f \in [1..n -> Seq(S)] : \A i \in 1..n : Step(f, i)
    BY <1>2
  <2> DEFINE new == IF n = 0 THEN ss[1] ELSE f[n] \o ss[n + 1]
             g == [i \in 1..n + 1 |-> IF i = n + 1 THEN new ELSE f[i]]
  <2>2. new \in Seq(S)
    <3>1. ss[n + 1] \in Seq(S)
      BY <1>0, <1>2
    <3>2. n # 0 => f[n] \in Seq(S)
      BY <2>1
    <3> QED BY <3>1, <3>2, <1>0, <1>2, ConcatProperties
  <2> HIDE DEF new
  <2>3. g \in [1..n + 1 -> Seq(S)]
    BY <2>1, <2>2
  <2>4. ASSUME NEW i \in 1..n + 1 PROVE Step(g, i)
    <3>1. CASE i = n + 1
      <4>1. g[i] = new
        BY <3>1
      <4>2. n # 0 => g[i - 1] = f[n] /\ i # 1
        BY <3>1
      <4> QED BY <4>1, <4>2, <3>1 DEF new
    <3>2. CASE i # n + 1
      <4>1. i \in 1..n /\ g[i] = f[i] /\ (i # 1 => g[i - 1] = f[i - 1])
        BY <3>2
      <4>2. Step(f, i)
        BY <2>1, <4>1
      <4> QED BY <4>1, <4>2
    <3> QED BY <3>1, <3>2
  <2> HIDE DEF g
  <2> QED BY <2>3, <2>4
<1>3. Nat \subseteq T
  <2> HIDE DEF Upto
  <2>1. 0 \in T
    BY <1>1
  <2>2. ASSUME NEW n \in Nat, n \in T PROVE n + 1 \in T
    BY <2>2, <1>2, <1>0
  <2> HIDE DEF T
  <2> QED BY <2>1, <2>2, SetInduction
<1>4. Upto(Len(ss))
  <2>1. Len(ss) \in T
    BY <1>3, <1>0
  <2> HIDE DEF Upto
  <2> QED BY <2>1, <1>0
<1>5. PICK f \in [1..Len(ss) -> Seq(S)] : \A i \in 1..Len(ss) : Step(f, i)
  BY <1>4
<1>6. f = [i \in 1..Len(ss) |-> IF i = 1 THEN ss[i] ELSE f[i - 1] \o ss[i]]
  BY <1>5
<1> QED BY <1>6 DEF Concatenates

Begins(tt, ss)  == Len(ss) <= Len(tt) /\ \A i \in 1..Len(ss) : ss[i] = tt[i]
Agree(f, g, n) == \A i \in 1..n : f[i] = g[i]

\* And there is only one.
LEMMA ConcatenationIsUnique ==
    ASSUME NEW S, NEW ss \in Seq(Seq(S)), NEW tt \in Seq(Seq(S)),
           NEW f, NEW g, Concatenates(f, ss), Concatenates(g, tt),
           Begins(tt, ss)
    PROVE  Agree(f, g, Len(ss))
<1> DEFINE T == {n \in Nat : n \in 1..Len(ss) => f[n] = g[n]}
<1>0. Len(ss) \in Nat /\ Len(tt) \in Nat
  BY LenProperties
<1> USE DEF Begins, Agree
<1>a. \A i \in 1..Len(ss) : f[i] = IF i = 1 THEN ss[i] ELSE f[i - 1] \o ss[i]
  BY DEF Concatenates
<1>b. \A i \in 1..Len(tt) : g[i] = IF i = 1 THEN tt[i] ELSE g[i - 1] \o tt[i]
  BY DEF Concatenates
<1>1. 0 \in T
  BY <1>0
<1>2. ASSUME NEW n \in Nat, n \in T PROVE n + 1 \in T
  <2> SUFFICES ASSUME n + 1 \in 1..Len(ss) PROVE f[n + 1] = g[n + 1]
    OBVIOUS
  <2>1. n + 1 \in 1..Len(tt) /\ ss[n + 1] = tt[n + 1]
    BY <1>0
  <2>2. CASE n = 0
    BY <2>1, <2>2, <1>a, <1>b
  <2>3. CASE n # 0
    <3>1. f[n] = g[n]
      BY <1>2, <2>3, <1>0
    <3>a. n + 1 # 1 /\ (n + 1) - 1 = n
      BY <2>3
    <3>2. f[n + 1] = f[n] \o ss[n + 1]
      BY <1>a, <3>a
    <3>3. g[n + 1] = g[n] \o tt[n + 1]
      BY <1>b, <2>1, <3>a
    <3> QED BY <3>1, <3>2, <3>3, <2>1
  <2> QED BY <2>2, <2>3
<1>3. Nat \subseteq T
  <2> HIDE DEF T
  <2> QED BY <1>1, <1>2, SetInduction
<1> QED BY <1>3, <1>0

LEMMA FlattenIsConcatenation ==
    ASSUME NEW S, NEW ss \in Seq(Seq(S)), ss # <<>>
    PROVE  \E f \in [1..Len(ss) -> Seq(S)] : Concatenates(f, ss) /\ FlattenSeq(ss) = f[Len(ss)]
<1>1. Len(ss) \in Nat /\ Len(ss) # 0
  BY LenProperties, EmptySeq
<1> DEFINE f == CHOOSE f : Concatenates(f, ss)
<1>2. PICK g \in [1..Len(ss) -> Seq(S)] : Concatenates(g, ss)
  BY ConcatenationExists
<1>3. Concatenates(f, ss)
  BY <1>2
<1>4. FlattenSeq(ss) = f[Len(ss)]
  BY <1>1 DEF FlattenSeq, Concatenates
<1>5. Agree(f, g, Len(ss))
  <2>1. Begins(ss, ss)
    BY <1>1 DEF Begins
  <2> HIDE DEF f
  <2> QED BY <2>1, <1>2, <1>3, ConcatenationIsUnique, Zenon
<1>6. g[Len(ss)] = f[Len(ss)]
  BY <1>5, <1>1 DEF Agree
<1> HIDE DEF f
<1> QED BY <1>2, <1>4, <1>6

LEMMA FlattenType ==
    ASSUME NEW S, NEW ss \in Seq(Seq(S))
    PROVE  FlattenSeq(ss) \in Seq(S)
<1>1. CASE ss = <<>>
  <2>1. Len(ss) = 0
    BY <1>1, EmptySeq
  <2>2. FlattenSeq(ss) = <<>>
    BY <1>1, <2>1 DEF FlattenSeq
  <2> QED BY <2>2, EmptySeq
<1>2. CASE ss # <<>>
  <2>1. PICK f \in [1..Len(ss) -> Seq(S)] : FlattenSeq(ss) = f[Len(ss)]
    BY <1>2, FlattenIsConcatenation
  <2>2. Len(ss) \in 1..Len(ss)
    BY <1>2, LenProperties, EmptySeq
  <2> QED BY <2>1, <2>2
<1> QED BY <1>1, <1>2

LEMMA FlattenEmpty == FlattenSeq(<<>>) = <<>>
<1>1. Len(<<>>) = 0
  BY EmptySeq
<1> QED BY <1>1 DEF FlattenSeq

\* One more member is written behind the others.
LEMMA FlattenAppend ==
    ASSUME NEW S, NEW ss \in Seq(Seq(S)), NEW s \in Seq(S)
    PROVE  FlattenSeq(Append(ss, s)) = FlattenSeq(ss) \o s
<1> DEFINE tt == Append(ss, s)
<1>1. /\ tt \in Seq(Seq(S)) /\ Len(tt) = Len(ss) + 1 /\ Len(ss) \in Nat /\ tt[Len(tt)] = s
      /\ \A i \in 1..Len(ss) : tt[i] = ss[i]
  BY AppendProperties, LenProperties
<1>2. tt # <<>>
  <2>1. Len(tt) # 0
    BY <1>1
  <2>2. Len(<<>>) = 0
    BY EmptySeq
  <2> HIDE DEF tt
  <2> QED BY <2>1, <2>2
<1> HIDE DEF tt
<1>3. PICK g \in [1..Len(tt) -> Seq(S)] : Concatenates(g, tt) /\ FlattenSeq(tt) = g[Len(tt)]
  BY <1>1, <1>2, FlattenIsConcatenation
<1>4. g[Len(tt)] = IF Len(tt) = 1 THEN tt[Len(tt)] ELSE g[Len(tt) - 1] \o tt[Len(tt)]
  <2>1. Len(tt) \in 1..Len(tt)
    BY <1>1
  <2> QED BY <2>1, <1>3 DEF Concatenates
<1>5. CASE ss = <<>>
  <2>1. Len(ss) = 0 /\ FlattenSeq(ss) = <<>>
    BY <1>5, FlattenEmpty, EmptySeq
  <2>2. <<>> \o s = s
    BY ConcatEmptySeq
  <2> QED BY <2>1, <2>2, <1>1, <1>3, <1>4 DEF tt
<1>6. CASE ss # <<>>
  <2>1. Len(ss) # 0
    BY <1>6, EmptySeq
  <2>2. PICK f \in [1..Len(ss) -> Seq(S)] : Concatenates(f, ss) /\ FlattenSeq(ss) = f[Len(ss)]
    BY <1>6, FlattenIsConcatenation
  <2>3. \A i \in 1..Len(ss) : f[i] = g[i]
    <3>1. Begins(tt, ss)
      BY <1>1 DEF Begins
    <3>3. tt \in Seq(Seq(S))
      BY <1>1
    <3>4. Concatenates(f, ss) /\ Concatenates(g, tt)
      BY <2>2, <1>3
    <3> HIDE DEF tt
    <3>5. Agree(f, g, Len(ss))
      BY <3>1, <3>3, <3>4, ConcatenationIsUnique, Zenon
    <3> QED BY <3>5 DEF Agree
  <2>4. f[Len(ss)] = g[Len(tt) - 1]
    BY <2>1, <2>3, <1>1
  <2>5. Len(tt) # 1
    BY <2>1, <1>1
  <2> QED BY <2>2, <2>4, <2>5, <1>1, <1>3, <1>4 DEF tt
<1> QED BY <1>5, <1>6

\* The members before one make the beginning, and it follows.
LEMMA FlattenSplit ==
    ASSUME NEW S, NEW ss \in Seq(Seq(S)), NEW n \in 0..Len(ss)
    PROVE  \E rest \in Seq(S) : FlattenSeq(ss) = FlattenSeq(SubSeq(ss, 1, n)) \o rest
<1>0. Len(ss) \in Nat
  BY LenProperties
<1> DEFINE Rest(k) ==
             \E rest \in Seq(S) : FlattenSeq(ss) = FlattenSeq(SubSeq(ss, 1, Len(ss) - k)) \o rest
           T == {k \in Nat : k <= Len(ss) => Rest(k)}
<1>1. Rest(0)
  <2>1. SubSeq(ss, 1, Len(ss) - 0) = ss
    BY <1>0, SubSeqFull
  <2>2. FlattenSeq(ss) \in Seq(S)
    BY FlattenType
  <2>3. FlattenSeq(ss) = FlattenSeq(ss) \o <<>> /\ <<>> \in Seq(S)
    BY <2>2, ConcatEmptySeq, EmptySeq
  <2> QED BY <2>1, <2>3
<1>2. ASSUME NEW k \in Nat, k + 1 <= Len(ss), Rest(k) PROVE Rest(k + 1)
  <2> DEFINE m == Len(ss) - k
             before == SubSeq(ss, 1, m - 1)
  <2>1. m \in 1..Len(ss) /\ Len(ss) - (k + 1) = m - 1
    BY <1>0, <1>2
  <2>2. PICK rest \in Seq(S) : FlattenSeq(ss) = FlattenSeq(SubSeq(ss, 1, m)) \o rest
    BY <1>2
  <2> HIDE DEF m
  <2>3. before \in Seq(Seq(S)) /\ ss[m] \in Seq(S)
    <3>1. \A i \in 1..m - 1 : ss[i] \in Seq(S)
      BY <2>1, <1>0, ElementOfSeq
    <3> QED BY <3>1, <2>1, <1>0, ElementOfSeq, SubSeqProperties
  <2>4. SubSeq(ss, 1, m) = Append(before, ss[m])
    <3>1. SubSeq(ss, 1, m) = before \o <<ss[m]>>
      BY <2>1, <1>0, SubSeqRecursiveSecond
    <3> QED BY <3>1, <2>3, AppendIsConcat
  <2>5. FlattenSeq(SubSeq(ss, 1, m)) = FlattenSeq(before) \o ss[m]
    BY <2>3, <2>4, FlattenAppend
  <2>6. FlattenSeq(before) \in Seq(S)
    BY <2>3, FlattenType
  <2>7. FlattenSeq(ss) = FlattenSeq(before) \o (ss[m] \o rest)
    <3>1. FlattenSeq(ss) = (FlattenSeq(before) \o ss[m]) \o rest
      BY <2>2, <2>5
    <3>2. Regrouped(FlattenSeq(before), ss[m], rest)
      BY <2>3, <2>6, Regrouping, Zenon
    <3> QED BY <3>1, <3>2 DEF Regrouped
  <2>8. ss[m] \o rest \in Seq(S)
    BY <2>2, <2>3, ConcatProperties
  <2> QED BY <2>1, <2>7, <2>8
<1>3. Nat \subseteq T
  <2> HIDE DEF Rest
  <2>1. 0 \in T
    BY <1>1
  <2>2. ASSUME NEW k \in Nat, k \in T PROVE k + 1 \in T
    BY <2>2, <1>2, <1>0
  <2> HIDE DEF T
  <2> QED BY <2>1, <2>2, SetInduction
<1>4. Rest(Len(ss) - n)
  <2>1. Len(ss) - n \in Nat /\ Len(ss) - n <= Len(ss)
    BY <1>0
  <2> HIDE DEF Rest
  <2> QED BY <2>1, <1>3
<1>5. Len(ss) - (Len(ss) - n) = n
  BY <1>0
<1> QED BY <1>4, <1>5

LEMMA FlattenNext ==
    ASSUME NEW S, NEW ss \in Seq(Seq(S)), NEW n \in 0..Len(ss) - 1
    PROVE  /\ FlattenSeq(SubSeq(ss, 1, n + 1)) = FlattenSeq(SubSeq(ss, 1, n)) \o ss[n + 1]
           /\ FlattenSeq(SubSeq(ss, 1, n)) \in Seq(S) /\ ss[n + 1] \in Seq(S)
           /\ \E rest \in Seq(S) :
                 FlattenSeq(ss) = (FlattenSeq(SubSeq(ss, 1, n)) \o ss[n + 1]) \o rest
<1>0. Len(ss) \in Nat /\ n + 1 \in 1..Len(ss) /\ n + 1 \in 0..Len(ss)
  BY LenProperties
<1> DEFINE before == SubSeq(ss, 1, n)
<1>1. before \in Seq(Seq(S)) /\ ss[n + 1] \in Seq(S)
  <2>1. \A i \in 1..n : ss[i] \in Seq(S)
    BY <1>0, ElementOfSeq
  <2> QED BY <2>1, <1>0, ElementOfSeq, SubSeqProperties
<1>2. SubSeq(ss, 1, n + 1) = Append(before, ss[n + 1])
  <2>1. SubSeq(ss, 1, n + 1) = SubSeq(ss, 1, (n + 1) - 1) \o <<ss[n + 1]>>
    BY <1>0, SubSeqRecursiveSecond
  <2>2. (n + 1) - 1 = n
    BY <1>0
  <2> QED BY <2>1, <2>2, <1>1, AppendIsConcat
<1>3. FlattenSeq(SubSeq(ss, 1, n + 1)) = FlattenSeq(before) \o ss[n + 1]
  BY <1>1, <1>2, FlattenAppend
<1>4. FlattenSeq(before) \in Seq(S)
  BY <1>1, FlattenType
<1>5. \E rest \in Seq(S) : FlattenSeq(ss) = FlattenSeq(SubSeq(ss, 1, n + 1)) \o rest
  BY <1>0, FlattenSplit
<1> QED BY <1>1, <1>3, <1>4, <1>5
-----------------------------------------------------------------------------
\* What stands behind the same beginning is the same.
LEMMA CancelLeft ==
    ASSUME NEW S, NEW a \in Seq(S), NEW b \in Seq(S), NEW c \in Seq(S), a \o b = a \o c
    PROVE  b = c
<1>1. /\ Len(a) \in Nat /\ Len(b) \in Nat /\ Len(c) \in Nat
      /\ IsJoin(a \o b, a, b) /\ IsJoin(a \o b, a, c)
  BY JoinProperties
<1>2. Len(b) = Len(c)
  BY <1>1 DEF IsJoin
<1>3. \A i \in 1..Len(b) : b[i] = c[i]
  BY <1>1, <1>2 DEF IsJoin
<1> QED BY <1>2, <1>3, SeqEqual

\* What two sequences of sequences are flattened to, one behind the other.
LEMMA FlattenJoin ==
    ASSUME NEW S, NEW ss \in Seq(Seq(S)), NEW tt \in Seq(Seq(S))
    PROVE  FlattenSeq(ss \o tt) = FlattenSeq(ss) \o FlattenSeq(tt)
<1>0. Len(tt) \in Nat
  BY LenProperties
<1> DEFINE Joins(n) == FlattenSeq(ss \o SubSeq(tt, 1, n)) = FlattenSeq(ss) \o FlattenSeq(SubSeq(tt, 1, n))
           T == {n \in Nat : n <= Len(tt) => Joins(n)}
<1>1. Joins(0)
  <2>1. SubSeq(tt, 1, 0) = <<>>
    OBVIOUS
  <2>2. ss \o <<>> = ss
    BY ConcatEmptySeq
  <2>3. FlattenSeq(ss) \o <<>> = FlattenSeq(ss)
    BY FlattenType, ConcatEmptySeq
  <2> QED BY <2>1, <2>2, <2>3, FlattenEmpty
<1>2. ASSUME NEW n \in Nat, n + 1 <= Len(tt), Joins(n) PROVE Joins(n + 1)
  <2> DEFINE before == SubSeq(tt, 1, n)
             upto == SubSeq(tt, 1, n + 1)
             s == tt[n + 1]
             a == FlattenSeq(ss)
             b == FlattenSeq(before)
  <2>1. n \in 0..Len(tt) - 1 /\ n + 1 \in 1..Len(tt) /\ (n + 1) - 1 = n
    BY <1>0, <1>2
  <2>2. before \in Seq(Seq(S)) /\ s \in Seq(S)
    <3>1. \A i \in 1..n : tt[i] \in Seq(S)
      BY <2>1, <1>0, ElementOfSeq
    <3> QED BY <3>1, <2>1, <1>0, ElementOfSeq, SubSeqProperties
  <2>3. upto = Append(before, s) /\ FlattenSeq(upto) = b \o s /\ b \in Seq(S)
    <3>1. upto = SubSeq(tt, 1, (n + 1) - 1) \o <<s>>
      BY <2>1, <1>0, SubSeqRecursiveSecond
    <3>2. upto = Append(before, s)
      BY <3>1, <2>1, <2>2, AppendIsConcat
    <3> QED BY <3>2, <2>1, FlattenNext
  <2>4. a \in Seq(S) /\ FlattenSeq(ss \o before) = a \o b
    BY <1>2, FlattenType
  <2> HIDE DEF before, s, upto, a, b
  <2>5. ss \o before \in Seq(Seq(S))
    BY <2>2, ConcatProperties
  <2>6. ss \o upto = Append(ss \o before, s)
    <3>1. upto = before \o <<s>> /\ <<s>> \in Seq(Seq(S))
      BY <2>2, <2>3, AppendIsConcat
    <3>2. Regrouped(ss, before, <<s>>)
      BY <2>2, <3>1, Regrouping, Zenon
    <3>3. Append(ss \o before, s) = (ss \o before) \o <<s>>
      BY <2>2, <2>5, AppendIsConcat
    <3> QED BY <3>1, <3>2, <3>3 DEF Regrouped
  <2>7. FlattenSeq(ss \o upto) = (a \o b) \o s
    BY <2>2, <2>4, <2>5, <2>6, FlattenAppend
  <2>8. Regrouped(a, b, s)
    BY <2>2, <2>3, <2>4, Regrouping, Zenon
  <2> QED BY <2>3, <2>7, <2>8 DEF upto, a, Regrouped
<1>3. Nat \subseteq T
  <2> HIDE DEF Joins
  <2>1. 0 \in T
    BY <1>1
  <2>2. ASSUME NEW n \in Nat, n \in T PROVE n + 1 \in T
    BY <2>2, <1>2, <1>0
  <2> HIDE DEF T
  <2> QED BY <2>1, <2>2, SetInduction
<1>4. Joins(Len(tt))
  <2> HIDE DEF Joins
  <2> QED BY <1>0, <1>3
<1>5. SubSeq(tt, 1, Len(tt)) = tt
  BY SubSeqFull
<1> QED BY <1>4, <1>5

\* One sequence begins with another.
IsStart(s, t) == Len(s) <= Len(t) /\ \A i \in 1..Len(s) : s[i] = t[i]

\* Two sequences that are the beginnings of the same one.
LEMMA SameTextBegins ==
    ASSUME NEW S, NEW a \in Seq(S), NEW b \in Seq(S), NEW c \in Seq(S), NEW d \in Seq(S),
           a \o b = c \o d
    PROVE  IsStart(a, c) \/ IsStart(c, a)
<1>1. Len(a) \in Nat /\ Len(c) \in Nat
  BY LenProperties
<1>2. (\A i \in 1..Len(a) : (a \o b)[i] = a[i]) /\ (\A i \in 1..Len(c) : (c \o d)[i] = c[i])
  BY JoinProperties DEF IsJoin
<1>3. CASE Len(a) <= Len(c)
  <2>1. \A i \in 1..Len(a) : i \in 1..Len(c)
    BY <1>1, <1>3
  <2> QED BY <2>1, <1>2, <1>3 DEF IsStart
<1>4. CASE Len(c) <= Len(a)
  <2>1. \A i \in 1..Len(c) : i \in 1..Len(a)
    BY <1>1, <1>4
  <2> QED BY <2>1, <1>2, <1>4 DEF IsStart
<1> QED BY <1>1, <1>3, <1>4

\* A code: no word is empty and none begins with another one.
IsPrefixCode(C) == \A c, d \in C : Len(c) # 0 /\ (IsStart(c, d) => c = d)

\* A text in a prefix code that begins with another one does so word by word.
LEMMA WordByWord ==
    ASSUME NEW S, NEW C \in SUBSET Seq(S), IsPrefixCode(C), NEW ss \in Seq(C), NEW tt \in Seq(C),
           NEW r \in Seq(S), FlattenSeq(tt) = FlattenSeq(ss) \o r
    PROVE  IsStart(ss, tt)
<1>0. /\ ss \in Seq(Seq(S)) /\ tt \in Seq(Seq(S)) /\ Len(ss) \in Nat /\ Len(tt) \in Nat
      /\ (\A i \in 1..Len(ss) : ss[i] \in C) /\ (\A i \in 1..Len(tt) : tt[i] \in C)
  <2>1. \A s \in Seq(C) : s \in Seq(Seq(S)) /\ Len(s) \in Nat /\ \A i \in 1..Len(s) : s[i] \in C
    <3> TAKE s \in Seq(C)
    <3>1. Len(s) \in Nat /\ s \in [1..Len(s) -> C]
      BY LenProperties
    <3>2. s \in [1..Len(s) -> Seq(S)]
      BY <3>1
    <3> QED BY <3>1, <3>2, FunctionIsSeq
  <2> QED BY <2>1
<1> DEFINE T == {n \in Nat : n <= Len(ss) => n <= Len(tt) /\ \A i \in 1..n : ss[i] = tt[i]}
<1>1. 0 \in T
  BY <1>0
<1>2. ASSUME NEW n \in Nat, n \in T PROVE n + 1 \in T
  <2> SUFFICES ASSUME n + 1 <= Len(ss)
               PROVE  n + 1 <= Len(tt) /\ \A i \in 1..n + 1 : ss[i] = tt[i]
    <3>1. n + 1 \in Nat
      OBVIOUS
    <3> QED BY <3>1
  <2>1. n <= Len(tt) /\ (\A i \in 1..n : ss[i] = tt[i]) /\ n \in 0..Len(ss) - 1 /\ n + 1 \in 1..Len(ss)
    BY <1>0, <1>2
  <2> DEFINE a == FlattenSeq(SubSeq(ss, 1, n))
             c == ss[n + 1]
  <2>2. SubSeq(tt, 1, n) = SubSeq(ss, 1, n)
    <3> DEFINE x == SubSeq(ss, 1, n)
               y == SubSeq(tt, 1, n)
    <3>1. /\ x \in Seq(Seq(S)) /\ Len(x) = n /\ (\A i \in 1..n : x[i] = ss[i])
          /\ y \in Seq(Seq(S)) /\ Len(y) = n /\ (\A i \in 1..n : y[i] = tt[i])
      <4>1. \A i \in 1..n : ss[i] \in Seq(S) /\ tt[i] \in Seq(S)
        BY <2>1, <1>0
      <4>2. n - 1 + 1 = n /\ \A i \in 1..n : 1 + i - 1 = i
        OBVIOUS
      <4> QED BY <4>1, <4>2, <2>1, <1>0, SubSeqProperties
    <3> HIDE DEF x, y
    <3>2. x = y
      BY <3>1, <2>1, SeqEqual
    <3> QED BY <3>2 DEF x, y
  <2>3. a \in Seq(S) /\ c \in Seq(S) /\ c \in C /\ \E rest \in Seq(S) : FlattenSeq(ss) = (a \o c) \o rest
    BY <2>1, <1>0, FlattenNext
  <2>4. PICK rest \in Seq(S) : FlattenSeq(ss) = (a \o c) \o rest
    BY <2>3
  <2> HIDE DEF a, c
  <2>5. /\ rest \o r \in Seq(S) /\ c \o (rest \o r) \in Seq(S)
        /\ FlattenSeq(tt) = a \o (c \o (rest \o r))
    <3>1. a \o c \in Seq(S) /\ rest \o r \in Seq(S) /\ c \o (rest \o r) \in Seq(S)
      BY <2>3, ConcatProperties
    <3>2. Regrouped(a \o c, rest, r)
      BY <3>1, <2>4, Regrouping, Zenon
    <3>3. Regrouped(a, c, rest \o r)
      BY <3>1, <2>3, Regrouping, Zenon
    <3> QED BY <3>1, <3>2, <3>3, <2>4 DEF Regrouped
  <2>6. n # Len(tt)
    <3> SUFFICES ASSUME n = Len(tt) PROVE FALSE
      OBVIOUS
    <3>1. SubSeq(tt, 1, n) = tt
      BY <1>0, SubSeqFull
    <3>2. FlattenSeq(tt) = a
      BY <3>1, <2>2 DEF a
    <3>3. c \o (rest \o r) = <<>>
      BY <3>2, <2>3, <2>5, ConcatEqualIffEmpty
    <3>4. Len(c) + Len(rest \o r) = 0
      <4>1. Len(c \o (rest \o r)) = Len(c) + Len(rest \o r)
        BY <2>3, <2>5, ConcatProperties
      <4> QED BY <4>1, <3>3, EmptySeq
    <3>5. Len(c) \in Nat /\ Len(rest \o r) \in Nat /\ Len(c) # 0
      BY <2>3, <2>5, LenProperties DEF IsPrefixCode
    <3> QED BY <3>4, <3>5
  <2>7. n \in 0..Len(tt) - 1 /\ n + 1 \in 1..Len(tt)
    BY <2>1, <2>6, <1>0
  <2> DEFINE d == tt[n + 1]
  <2>8. d \in C /\ d \in Seq(S) /\ \E tail \in Seq(S) : FlattenSeq(tt) = (a \o d) \o tail
    <3>1. d \in C
      BY <2>7, <1>0
    <3>2. \E tail \in Seq(S) : FlattenSeq(tt) = (FlattenSeq(SubSeq(tt, 1, n)) \o d) \o tail
      BY <2>7, <1>0, FlattenNext
    <3>3. FlattenSeq(SubSeq(tt, 1, n)) = a
      BY <2>2 DEF a
    <3> QED BY <3>1, <3>2, <3>3
  <2>9. PICK tail \in Seq(S) : FlattenSeq(tt) = (a \o d) \o tail
    BY <2>8
  <2> HIDE DEF d
  <2>10. c \o (rest \o r) = d \o tail
    <3>1. Regrouped(a, d, tail)
      BY <2>3, <2>8, Regrouping, Zenon
    <3>2. d \o tail \in Seq(S)
      BY <2>8, ConcatProperties
    <3>3. a \o (c \o (rest \o r)) = a \o (d \o tail)
      BY <3>1, <2>5, <2>9 DEF Regrouped
    <3> QED BY <3>2, <3>3, <2>3, <2>5, CancelLeft
  <2>11. IsStart(c, d) \/ IsStart(d, c)
    BY <2>3, <2>5, <2>8, <2>10, SameTextBegins
  <2>12. c = d
    BY <2>3, <2>8, <2>11 DEF IsPrefixCode
  <2>13. \A i \in 1..n + 1 : i \in 1..n \/ i = n + 1
    OBVIOUS
  <2> QED BY <2>1, <2>7, <2>12, <2>13, <1>0 DEF c, d
<1>3. Nat \subseteq T
  <2> HIDE DEF T
  <2> QED BY <1>1, <1>2, SetInduction
<1> QED BY <1>0, <1>3 DEF IsStart
-----------------------------------------------------------------------------
(* Texts spelled in the words of a code                                    *)

\* Different members of D have words that do not begin with each other.
IsCode(w, D, S) ==
    /\ w \in [D -> Seq(S)]
    /\ \A c, d \in D : Len(w[c]) # 0 /\ (IsStart(w[c], w[d]) => c = d)

AreWords(ws, w, s) == Len(ws) = Len(s) /\ \A i \in 1..Len(s) : ws[i] = w[s[i]]
Words(w, s) == [i \in DOMAIN s |-> w[s[i]]]
Spelled(w, s) == FlattenSeq(Words(w, s))

\* A sequence begins with another, and the rest follows.
LEMMA StartAndRest ==
    ASSUME NEW S, NEW a \in Seq(S), NEW b \in Seq(S), IsStart(a, b)
    PROVE  \E r \in Seq(S) : b = a \o r
<1>1. Len(a) \in Nat /\ Len(b) \in Nat /\ Len(a) <= Len(b) /\ \A i \in 1..Len(a) : a[i] = b[i]
  BY LenProperties DEF IsStart
<1> DEFINE r == SubSeq(b, Len(a) + 1, Len(b))
<1>2. r \in Seq(S) /\ IsPart(r, b, Len(a), Len(b))
  <2>1. Len(b) <= Len(b)
    BY <1>1
  <2> QED BY <1>1, <2>1, PartProperties
<1> HIDE DEF r
<1>3. /\ Len(a \o r) = Len(a) + Len(r) /\ a \o r \in Seq(S)
      /\ (\A i \in 1..Len(a) : (a \o r)[i] = a[i]) /\ (\A i \in 1..Len(r) : (a \o r)[Len(a) + i] = r[i])
  BY <1>2, JoinProperties DEF IsJoin
<1>4. Len(r) = Len(b) - Len(a) /\ \A i \in 1..Len(b) - Len(a) : r[i] = b[Len(a) + i]
  BY <1>2 DEF IsPart
<1>5. Len(a \o r) = Len(b)
  BY <1>1, <1>3, <1>4
<1>6. \A i \in 1..Len(b) : b[i] = (a \o r)[i]
  <2> TAKE i \in 1..Len(b)
  <2>1. CASE i <= Len(a)
    <3>1. i \in 1..Len(a)
      BY <2>1
    <3> QED BY <3>1, <1>1, <1>3
  <2>2. CASE ~(i <= Len(a))
    <3>1. PICK k \in 1..Len(b) - Len(a) : i = Len(a) + k
      <4>1. i - Len(a) \in 1..Len(b) - Len(a) /\ i = Len(a) + (i - Len(a))
        BY <2>2, <1>1
      <4> QED BY <4>1
    <3> QED BY <3>1, <1>3, <1>4
  <2> QED BY <2>1, <2>2
<1>7. b = a \o r
  BY <1>3, <1>5, <1>6, SeqEqual
<1> QED BY <1>2, <1>7

LEMMA JoinStarts ==
    ASSUME NEW S, NEW a \in Seq(S), NEW r \in Seq(S)
    PROVE  IsStart(a, a \o r)
<1>1. /\ Len(a) \in Nat /\ Len(r) \in Nat /\ Len(a \o r) = Len(a) + Len(r)
      /\ \A i \in 1..Len(a) : (a \o r)[i] = a[i]
  BY JoinProperties DEF IsJoin
<1>2. Len(a) <= Len(a \o r)
  BY <1>1
<1> QED BY <1>1, <1>2 DEF IsStart

LEMMA StartsAreSame ==
    ASSUME NEW S, NEW a \in Seq(S), NEW b \in Seq(S), IsStart(a, b), Len(b) <= Len(a)
    PROVE  a = b
<1>1. Len(a) \in Nat /\ Len(b) \in Nat
  BY LenProperties
<1>2. Len(a) = Len(b) /\ \A i \in 1..Len(a) : a[i] = b[i]
  BY <1>1 DEF IsStart
<1> QED BY <1>2, SeqEqual

LEMMA WordsFacts ==
    ASSUME NEW D, NEW S, NEW w, IsCode(w, D, S), NEW s \in Seq(D)
    PROVE  /\ Words(w, s) \in Seq(Seq(S)) /\ Words(w, s) \in Seq({w[d] : d \in D})
           /\ AreWords(Words(w, s), w, s)
           /\ Spelled(w, s) \in Seq(S)
           /\ Len(s) \in Nat /\ \A i \in 1..Len(s) : s[i] \in D
<1>1. Len(s) \in Nat /\ DOMAIN s = 1..Len(s) /\ \A i \in 1..Len(s) : s[i] \in D
  BY LenProperties, ElementOfSeq
<1>2. w \in [D -> Seq(S)]
  BY DEF IsCode
<1>3. /\ Words(w, s) \in [1..Len(s) -> Seq(S)] /\ Words(w, s) \in [1..Len(s) -> {w[d] : d \in D}]
      /\ \A i \in 1..Len(s) : Words(w, s)[i] = w[s[i]]
  BY <1>1, <1>2 DEF Words
<1> DEFINE ws == Words(w, s)
           C == {w[d] : d \in D}
<1>4. ws \in Seq(Seq(S)) /\ Len(ws) = Len(s) /\ ws \in Seq(C)
  <2> HIDE DEF ws, C
  <2> QED BY <1>1, <1>3, FunctionIsSeq DEF ws, C
<1>5. Spelled(w, s) \in Seq(S)
  BY <1>4, FlattenType DEF Spelled
<1> QED BY <1>1, <1>3, <1>4, <1>5 DEF AreWords

LEMMA SpelledJoin ==
    ASSUME NEW D, NEW S, NEW w, IsCode(w, D, S), NEW s \in Seq(D), NEW t \in Seq(D)
    PROVE  Spelled(w, s \o t) = Spelled(w, s) \o Spelled(w, t)
<1> DEFINE st == s \o t
           a == Words(w, s)
           b == Words(w, t)
           ab == Words(w, st)
<1>1. /\ st \in Seq(D) /\ Len(s) \in Nat /\ Len(t) \in Nat /\ Len(st) = Len(s) + Len(t)
      /\ (\A i \in 1..Len(s) : st[i] = s[i]) /\ (\A i \in 1..Len(t) : st[Len(s) + i] = t[i])
  BY JoinProperties DEF IsJoin
<1> HIDE DEF st
<1>2. /\ a \in Seq(Seq(S)) /\ Len(a) = Len(s) /\ (\A i \in 1..Len(s) : a[i] = w[s[i]])
      /\ b \in Seq(Seq(S)) /\ Len(b) = Len(t) /\ (\A i \in 1..Len(t) : b[i] = w[t[i]])
      /\ ab \in Seq(Seq(S)) /\ Len(ab) = Len(st) /\ (\A i \in 1..Len(st) : ab[i] = w[st[i]])
  <2>1. a \in Seq(Seq(S)) /\ AreWords(a, w, s)
    BY WordsFacts
  <2>2. b \in Seq(Seq(S)) /\ AreWords(b, w, t)
    BY WordsFacts
  <2>3. ab \in Seq(Seq(S)) /\ AreWords(ab, w, st)
    BY <1>1, WordsFacts
  <2> HIDE DEF a, b, ab
  <2> QED BY <2>1, <2>2, <2>3 DEF AreWords
<1>3. Spelled(w, s) = FlattenSeq(a) /\ Spelled(w, t) = FlattenSeq(b) /\ Spelled(w, st) = FlattenSeq(ab)
  BY DEF Spelled
<1> HIDE DEF a, b, ab
<1>4. /\ a \o b \in Seq(Seq(S)) /\ Len(a \o b) = Len(a) + Len(b)
      /\ (\A i \in 1..Len(a) : (a \o b)[i] = a[i]) /\ (\A i \in 1..Len(b) : (a \o b)[Len(a) + i] = b[i])
  <2>1. ASSUME NEW T, a \in Seq(T), b \in Seq(T) PROVE a \o b \in Seq(T) /\ IsJoin(a \o b, a, b)
    BY <2>1, JoinProperties
  <2>2. a \o b \in Seq(Seq(S)) /\ IsJoin(a \o b, a, b)
    BY <2>1, <1>2
  <2> QED BY <2>2 DEF IsJoin
<1>5. \A i \in 1..Len(ab) : ab[i] = (a \o b)[i]
  <2> TAKE i \in 1..Len(ab)
  <2>0. i \in 1..Len(st) /\ ab[i] = w[st[i]]
    BY <1>2
  <2>1. CASE i <= Len(s)
    <3>1. i \in 1..Len(s)
      BY <2>0, <2>1, <1>1
    <3> QED BY <3>1, <2>0, <1>1, <1>2, <1>4
  <2>2. CASE ~(i <= Len(s))
    <3>1. PICK k \in 1..Len(t) : i = Len(s) + k
      <4>1. i - Len(s) \in 1..Len(t) /\ i = Len(s) + (i - Len(s))
        BY <2>0, <2>2, <1>1
      <4> QED BY <4>1
    <3>2. st[i] = t[k] /\ (a \o b)[i] = b[k] /\ b[k] = w[t[k]]
      BY <3>1, <1>1, <1>2, <1>4
    <3> QED BY <3>2, <2>0
  <2> QED BY <2>1, <2>2
<1>6. ab = a \o b
  <2>1. Len(ab) = Len(a \o b)
    BY <1>1, <1>2, <1>4
  <2> QED BY <2>1, <1>2, <1>4, <1>5, SeqEqual
<1>7. FlattenSeq(ab) = FlattenSeq(a) \o FlattenSeq(b)
  BY <1>2, <1>6, FlattenJoin
<1> QED BY <1>3, <1>7 DEF st

\* What is spelled begins with each other as the texts do.
LEMMA SpelledStarts ==
    ASSUME NEW D, NEW S, NEW w, IsCode(w, D, S), NEW s \in Seq(D), NEW t \in Seq(D)
    PROVE  IsStart(Spelled(w, s), Spelled(w, t)) <=> IsStart(s, t)
<1> DEFINE a == Spelled(w, s)
           b == Spelled(w, t)
           ws == Words(w, s)
           wt == Words(w, t)
           C == {w[d] : d \in D}
<1>1. /\ Len(s) \in Nat /\ ws \in Seq(C) /\ Len(ws) = Len(s) /\ a \in Seq(S)
      /\ (\A i \in 1..Len(s) : s[i] \in D /\ ws[i] = w[s[i]])
      /\ Len(t) \in Nat /\ wt \in Seq(C) /\ Len(wt) = Len(t) /\ b \in Seq(S)
      /\ (\A i \in 1..Len(t) : t[i] \in D /\ wt[i] = w[t[i]])
  <2>1. /\ Len(s) \in Nat /\ ws \in Seq(C) /\ a \in Seq(S) /\ AreWords(ws, w, s)
        /\ \A i \in 1..Len(s) : s[i] \in D
    BY WordsFacts
  <2>2. /\ Len(t) \in Nat /\ wt \in Seq(C) /\ b \in Seq(S) /\ AreWords(wt, w, t)
        /\ \A i \in 1..Len(t) : t[i] \in D
    BY WordsFacts
  <2> HIDE DEF a, b, ws, wt, C
  <2> QED BY <2>1, <2>2 DEF AreWords
<1>2. a = FlattenSeq(ws) /\ b = FlattenSeq(wt)
  BY DEF Spelled
<1>3. C \in SUBSET Seq(S) /\ IsPrefixCode(C)
  BY DEF IsCode, IsPrefixCode
<1>4. \A c, d \in D : w[c] = w[d] => c = d
  <2> SUFFICES ASSUME NEW c \in D, NEW d \in D, w[c] = w[d] PROVE c = d
    OBVIOUS
  <2>1. Len(w[c]) \in Nat
    BY LenProperties DEF IsCode
  <2>2. IsStart(w[c], w[d])
    BY <2>1 DEF IsStart
  <2> QED BY <2>2 DEF IsCode
<1> HIDE DEF a, b, ws, wt, C
<1>5. ASSUME IsStart(a, b) PROVE IsStart(s, t)
  <2>1. PICK r \in Seq(S) : b = a \o r
    BY <1>1, <1>5, StartAndRest
  <2>2. IsStart(ws, wt)
    BY <1>1, <1>2, <1>3, <2>1, WordByWord
  <2>3. Len(s) <= Len(t) /\ \A i \in 1..Len(s) : ws[i] = wt[i] /\ i \in 1..Len(t)
    BY <2>2, <1>1 DEF IsStart
  <2>4. \A i \in 1..Len(s) : s[i] = t[i]
    BY <2>3, <1>1, <1>4
  <2> QED BY <2>3, <2>4 DEF IsStart
<1>6. ASSUME IsStart(s, t) PROVE IsStart(a, b)
  <2>1. PICK r \in Seq(D) : t = s \o r
    BY <1>6, StartAndRest
  <2>2. b = a \o Spelled(w, r)
    BY <2>1, SpelledJoin DEF a, b
  <2>3. Spelled(w, r) \in Seq(S)
    BY <2>1, WordsFacts
  <2> QED BY <2>2, <2>3, <1>1, JoinStarts
<1> QED BY <1>5, <1>6 DEF a, b

\* Words of one length, spelled in the words of a code, are a code.
LEMMA CodeOfCode ==
    ASSUME NEW D, NEW S, NEW w, IsCode(w, D, S), NEW E, NEW n \in Nat, n # 0,
           NEW v \in [E -> [1..n -> D]], \A c, d \in E : v[c] = v[d] => c = d
    PROVE  IsCode([c \in E |-> Spelled(w, v[c])], E, S)
<1> DEFINE x == [c \in E |-> Spelled(w, v[c])]
<1>1. \A c \in E : v[c] \in Seq(D) /\ Len(v[c]) = n
  BY FunctionIsSeq
<1>2. x \in [E -> Seq(S)]
  BY <1>1, WordsFacts
<1>3. ASSUME NEW c \in E PROVE Len(x[c]) # 0
  <2> SUFFICES ASSUME Len(Spelled(w, v[c])) = 0 PROVE FALSE
    OBVIOUS
  <2>1. <<>> \in Seq(D) /\ Len(<<>>) = 0
    BY EmptySeq
  <2>2. Spelled(w, <<>>) \in Seq(S) /\ Len(Spelled(w, <<>>)) \in Nat
    BY <2>1, WordsFacts, LenProperties
  <2>3. IsStart(Spelled(w, v[c]), Spelled(w, <<>>))
    BY <2>2 DEF IsStart
  <2>4. IsStart(v[c], <<>>)
    BY <2>1, <2>3, <1>1, SpelledStarts
  <2> QED BY <2>1, <2>4, <1>1 DEF IsStart
<1>4. ASSUME NEW c \in E, NEW d \in E, IsStart(x[c], x[d]) PROVE c = d
  <2>1. IsStart(Spelled(w, v[c]), Spelled(w, v[d]))
    BY <1>4
  <2>2. IsStart(v[c], v[d])
    BY <2>1, <1>1, SpelledStarts
  <2>3. Len(v[d]) <= Len(v[c])
    BY <1>1
  <2>4. v[c] = v[d]
    BY <2>2, <2>3, <1>1, StartsAreSame
  <2> QED BY <2>4
<1> QED BY <1>2, <1>3, <1>4 DEF IsCode
=============================================================================
