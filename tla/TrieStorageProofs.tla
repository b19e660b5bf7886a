--------------------------- MODULE TrieStorageProofs ---------------------------
(***************************************************************************)
(* Proofs about the storages of a trie: the types, what a mapped file      *)
(* answers and what its cache keeps, and that the storages implement their *)
(* contract.  The invariant IInv says that the contents of the storages    *)
(* have the right types, that the file is the beginning of what was to be  *)
(* written, and that the cache has what the file has, in the order of the  *)
(* accesses.                                                               *)
(***************************************************************************)
EXTENDS TrieStorage, FlattenLemmas

-----------------------------------------------------------------------------
LEMMA RadixProperties ==
    /\ TopByte \in Nat /\ Radix \in Nat \ {0} /\ Radix = TopByte + 1
    /\ BaseHalf \in Nat \ {0} /\ 2 * BaseHalf * Radix \in Nat /\ Byte = 0..Radix - 1
    /\ 2 * BaseHalf * Radix = Radix * (2 * BaseHalf)
<1>1. TopByte \in Nat /\ Radix \in Nat \ {0} /\ Radix = TopByte + 1
  BY TopByteAssumption DEF Radix
<1>2. BaseHalf \in Nat \ {0}
  BY WordAssumption
<1>3. Byte = 0..Radix - 1
  BY <1>1 DEF Byte
<1> HIDE DEF Radix
<1>4. 2 * BaseHalf * Radix \in Nat /\ 2 * BaseHalf * Radix = Radix * (2 * BaseHalf)
  BY <1>1, <1>2, SMT
<1> QED BY <1>1, <1>2, <1>3, <1>4

\* Every word is some bits of a base and a check, and those of another word if one
\* of the two differs.
Packed(bits, check) == Radix * bits + check

LEMMA WordParts ==
    /\ \A word \in WordType :
          /\ word \div Radix \in 0..2 * BaseHalf - 1 /\ CheckOf(word) \in Byte
          /\ word = Packed(word \div Radix, CheckOf(word))
    /\ \A bits \in 0..2 * BaseHalf - 1, check \in Byte :
          /\ Packed(bits, check) \in WordType
          /\ Packed(bits, check) \div Radix = bits /\ CheckOf(Packed(bits, check)) = check
<1> USE RadixProperties
<1> HIDE DEF Radix
<1>1. ASSUME NEW word \in WordType
      PROVE  /\ word \div Radix \in 0..2 * BaseHalf - 1 /\ CheckOf(word) \in Byte
             /\ word = Packed(word \div Radix, CheckOf(word))
  <2> DEFINE q == word \div Radix
             r == word % Radix
  <2>1. word \in Nat /\ word < 2 * BaseHalf * Radix
    BY DEF WordType
  <2>2. q \in Int /\ r \in 0..Radix - 1 /\ word = Radix * q + r
    <3>1. word \in Int /\ Radix \in Nat \ {0}
      BY <2>1
    <3>2. /\ word \div Radix \in Int /\ word % Radix \in 0..Radix - 1
          /\ word = Radix * (word \div Radix) + (word % Radix)
      BY <3>1, QuotientAndRemainder
    <3> QED BY <3>2
  <2> HIDE DEF q, r
  <2>3. q >= 0
    <3> SUFFICES ASSUME q <= -1 PROVE FALSE
      BY <2>2
    <3>1. Radix * q <= -Radix
      BY <2>2, SMT
    <3> QED BY <3>1, <2>1, <2>2, SMT
  <2>4. q <= 2 * BaseHalf - 1
    <3> SUFFICES ASSUME q >= 2 * BaseHalf PROVE FALSE
      BY <2>2
    <3>1. Radix * q >= Radix * (2 * BaseHalf)
      BY <2>2, SMT
    <3> QED BY <3>1, <2>1, <2>2, SMT
  <2> QED BY <2>2, <2>3, <2>4 DEF q, r, CheckOf, Packed
<1>2. ASSUME NEW bits \in 0..2 * BaseHalf - 1, NEW check \in Byte
      PROVE  /\ Packed(bits, check) \in WordType
             /\ Packed(bits, check) \div Radix = bits /\ CheckOf(Packed(bits, check)) = check
  <2>1. bits \in Int /\ check \in 0..Radix - 1
    OBVIOUS
  <2>2. Packed(bits, check) \div Radix = bits /\ CheckOf(Packed(bits, check)) = check
    BY <2>1, OneQuotient DEF Packed, CheckOf
  <2>3. Radix * bits >= 0 /\ Radix * bits <= Radix * (2 * BaseHalf - 1)
    BY SMT
  <2>4. Radix * (2 * BaseHalf - 1) = Radix * (2 * BaseHalf) - Radix /\ Radix * bits \in Int
    BY SMT
  <2>5. Packed(bits, check) \in WordType
    BY <2>1, <2>3, <2>4 DEF WordType, Packed
  <2> QED BY <2>2, <2>5
<1> QED BY <1>1, <1>2

\* Setting one of the two leaves the other, and getting it gives what was set.
LEMMA SettingParts ==
    ASSUME NEW word \in WordType
    PROVE  /\ BaseOf(word) \in -BaseHalf..BaseHalf - 1 /\ CheckOf(word) \in Byte
           /\ \A base \in -BaseHalf..BaseHalf - 1 :
                 /\ WithBase(word, base) \in WordType
                 /\ BaseOf(WithBase(word, base)) = base
                 /\ CheckOf(WithBase(word, base)) = CheckOf(word)
           /\ \A check \in Byte :
                 /\ WithCheck(word, check) \in WordType
                 /\ BaseOf(WithCheck(word, check)) = BaseOf(word)
                 /\ CheckOf(WithCheck(word, check)) = check
<1> USE RadixProperties
<1> HIDE DEF Radix
<1>1. /\ word \div Radix \in 0..2 * BaseHalf - 1 /\ CheckOf(word) \in Byte
      /\ word = Packed(word \div Radix, CheckOf(word))
  BY WordParts
<1>2. BaseOf(word) \in -BaseHalf..BaseHalf - 1
  BY <1>1 DEF BaseOf
<1>3. ASSUME NEW base \in -BaseHalf..BaseHalf - 1
      PROVE  /\ WithBase(word, base) \in WordType
             /\ BaseOf(WithBase(word, base)) = base
             /\ CheckOf(WithBase(word, base)) = CheckOf(word)
  <2> DEFINE bits == base % (2 * BaseHalf)
  <2>1. bits = IF base >= 0 THEN base ELSE base + 2 * BaseHalf
    <3>1. CASE base >= 0
      <4>1. base = 2 * BaseHalf * 0 + base /\ base \in 0..2 * BaseHalf - 1 /\ 2 * BaseHalf \in Nat \ {0}
        BY <3>1
      <4> QED BY <4>1, <3>1
    <3>2. CASE base < 0
      <4> DEFINE m == 2 * BaseHalf
                 r == base + m
      <4>1. m \in Nat \ {0} /\ r \in 0..m - 1 /\ -1 \in Int
        BY <3>2
      <4>2. base = m * (-1) + r
        BY <4>1, SMT
      <4> HIDE DEF m, r
      <4>3. (m * (-1) + r) % m = r
        BY <4>1, OneQuotient
      <4> QED BY <4>2, <4>3, <3>2 DEF m, r
    <3> QED BY <3>1, <3>2
  <2>2. bits \in 0..2 * BaseHalf - 1 /\ (bits >= BaseHalf <=> base < 0)
    BY <2>1
  <2> HIDE DEF bits
  <2>3. WithBase(word, base) = Packed(bits, CheckOf(word))
    BY DEF WithBase, bits, Packed
  <2>4. /\ Packed(bits, CheckOf(word)) \in WordType
        /\ Packed(bits, CheckOf(word)) \div Radix = bits
        /\ CheckOf(Packed(bits, CheckOf(word))) = CheckOf(word)
    BY <1>1, <2>2, WordParts
  <2>5. BaseOf(WithBase(word, base)) = base
    BY <2>1, <2>2, <2>3, <2>4 DEF BaseOf
  <2> QED BY <2>3, <2>4, <2>5
<1>4. ASSUME NEW check \in Byte
      PROVE  /\ WithCheck(word, check) \in WordType
             /\ BaseOf(WithCheck(word, check)) = BaseOf(word)
             /\ CheckOf(WithCheck(word, check)) = check
  <2> DEFINE bits == word \div Radix
  <2>0. Radix * bits \in Int
    BY <1>1, SMT
  <2>1. WithCheck(word, check) = Packed(bits, check)
    <3>1. bits \in Int /\ CheckOf(word) \in Int /\ word = Radix * bits + CheckOf(word) /\ check \in Int
      BY <1>1 DEF Packed
    <3> HIDE DEF bits
    <3> QED BY <3>1, <2>0 DEF WithCheck, Packed
  <2>2. /\ Packed(bits, check) \in WordType
        /\ Packed(bits, check) \div Radix = bits
        /\ CheckOf(Packed(bits, check)) = check
    BY <1>1, WordParts
  <2>3. BaseOf(WithCheck(word, check)) = BaseOf(word)
    BY <2>1, <2>2 DEF BaseOf
  <2> QED BY <2>1, <2>2, <2>3
<1> QED BY <1>1, <1>2, <1>3, <1>4

\* A vacant cell has base 0 and the largest check.
LEMMA VacantParts ==
    VacantWord \in WordType /\ BaseOf(VacantWord) = 0 /\ CheckOf(VacantWord) = TopByte
<1> USE RadixProperties
<1> HIDE DEF Radix
<1>1. Radix * 0 + TopByte = TopByte /\ 0 \in 0..2 * BaseHalf - 1 /\ TopByte \in Byte
  BY SMT
<1>2. Packed(0, TopByte) = VacantWord
  BY <1>1 DEF Packed, VacantWord
<1>3. /\ VacantWord \in WordType /\ VacantWord \div Radix = 0 /\ CheckOf(VacantWord) = TopByte
  BY <1>1, <1>2, WordParts
<1>4. BaseOf(VacantWord) = 0
  BY <1>3 DEF BaseOf
<1> QED BY <1>3, <1>4

-----------------------------------------------------------------------------
(* Arrays that grow                                                        *)

Longer(a, b) == IF a > b THEN a ELSE b

IsGrown(grown, array, size, new) ==
    /\ Len(grown) = Longer(size, Len(array))
    /\ \A i \in 1..Longer(size, Len(array)) :
          grown[i] = IF i <= Len(array) THEN array[i] ELSE new

LEMMA GrownProperties ==
    ASSUME NEW S, NEW array \in Seq(S), NEW new \in S, NEW size \in Nat
    PROVE  Grown(array, size, new) \in Seq(S) /\ IsGrown(Grown(array, size, new), array, size, new)
<1> DEFINE n == Longer(size, Len(array)) - Len(array)
           rest == [i \in 1..size - Len(array) |-> new]
<1>1. Len(array) \in Nat /\ n \in Nat /\ n + Len(array) = Longer(size, Len(array))
  BY LenProperties DEF Longer
<1>2. 1..size - Len(array) = 1..n
  BY <1>1 DEF Longer
<1>3. rest = [i \in 1..n |-> new]
  BY <1>2
<1> HIDE DEF n
<1>4. rest \in Seq(S) /\ Len(rest) = n /\ \A i \in 1..n : rest[i] = new
  <2>1. rest \in [1..n -> S]
    BY <1>3
  <2> HIDE DEF rest
  <2>2. rest \in Seq(S) /\ Len(rest) = n
    BY <1>1, <2>1, FunctionIsSeq
  <2> QED BY <2>2, <1>3
<1> HIDE DEF rest
<1>5. /\ array \o rest \in Seq(S) /\ Len(array \o rest) = Len(array) + n
      /\ \A i \in 1..Len(array) + n :
            (array \o rest)[i] = IF i <= Len(array) THEN array[i] ELSE rest[i - Len(array)]
  BY <1>4, ConcatProperties
<1>6. \A i \in 1..Len(array) + n : i <= Len(array) \/ i - Len(array) \in 1..n
  BY <1>1
<1>7. Grown(array, size, new) = array \o rest
  BY DEF Grown, rest
<1>8. \A i \in 1..Len(array) + n :
         (array \o rest)[i] = IF i <= Len(array) THEN array[i] ELSE new
  BY <1>4, <1>5, <1>6
<1>9. n + Len(array) = Len(array) + n
  BY <1>1
<1> HIDE DEF Grown
<1> QED BY <1>1, <1>5, <1>7, <1>8, <1>9 DEF IsGrown

IsReplaced(replaced, array, index, new, element) ==
    /\ Len(replaced) = Longer(index + 1, Len(array))
    /\ \A i \in 1..Longer(index + 1, Len(array)) :
          replaced[i] =
             IF i = index + 1 THEN element ELSE IF i <= Len(array) THEN array[i] ELSE new

LEMMA ReplacedProperties ==
    ASSUME NEW S, NEW array \in Seq(S), NEW new \in S, NEW index \in Nat, NEW element \in S
    PROVE  /\ Replaced(array, index, new, element) \in Seq(S)
           /\ IsReplaced(Replaced(array, index, new, element), array, index, new, element)
<1> DEFINE size == index + 1
           grown == Grown(array, size, new)
<1>1. grown \in Seq(S) /\ IsGrown(grown, array, size, new)
  <2>1. size \in Nat
    OBVIOUS
  <2> HIDE DEF size
  <2> QED BY <2>1, GrownProperties
<1> HIDE DEF grown
<1>2. Len(array) \in Nat /\ Len(grown) \in Nat /\ size \in 1..Len(grown) /\ grown \in [1..Len(grown) -> S]
  <2>1. Len(grown) = Longer(size, Len(array))
    BY <1>1 DEF IsGrown
  <2> QED BY <1>1, <2>1, LenProperties DEF Longer
<1> DEFINE replaced == [grown EXCEPT ![size] = element]
<1>3. Replaced(array, index, new, element) = replaced
  BY DEF Replaced, grown
<1> HIDE DEF size
<1>4. /\ replaced \in [1..Len(grown) -> S]
      /\ \A i \in 1..Len(grown) : replaced[i] = IF i = size THEN element ELSE grown[i]
  BY <1>2
<1> HIDE DEF replaced
<1>5. replaced \in Seq(S) /\ Len(replaced) = Len(grown)
  BY <1>2, <1>4, FunctionIsSeq
<1>6. IsReplaced(replaced, array, index, new, element)
  BY <1>1, <1>4, <1>5 DEF IsGrown, IsReplaced, size
<1> QED BY <1>3, <1>5, <1>6
-----------------------------------------------------------------------------
(* The list of a cache                                                     *)

LEMMA NewestProperties ==
    ASSUME NEW list \in Seq(Nat), NEW n \in Nat
    PROVE  /\ Newest(list, n) \in Seq(Nat)
           /\ Len(Newest(list, n)) = IF n < Len(list) THEN n ELSE Len(list)
           /\ \A i \in 1..Len(Newest(list, n)) : Newest(list, n)[i] = list[i]
<1> DEFINE m == IF n < Len(list) THEN n ELSE Len(list)
<1>1. Len(list) \in Nat /\ m \in 0..Len(list)
  BY LenProperties
<1>2. Min({n, Len(list)}) = m
  <2> DEFINE least(x) == x \in {n, Len(list)} /\ \A y \in {n, Len(list)} : x <= y
  <2>1. least(m)
    BY <1>1
  <2>2. \A x : least(x) => x = m
    BY <1>1
  <2>3. (CHOOSE x \in {n, Len(list)} : \A y \in {n, Len(list)} : x <= y) = m
    BY <2>1, <2>2
  <2> HIDE DEF m
  <2> QED BY <2>3 DEF Min
<1> HIDE DEF m
<1>3. Newest(list, n) = SubSeq(list, 1, m)
  BY <1>2 DEF Newest
<1>4. 0 \in Nat /\ m \in Nat /\ 0 <= m /\ m <= Len(list) /\ m - 0 = m
  BY <1>1
<1>5. SubSeq(list, 0 + 1, m) \in Seq(Nat) /\ IsPart(SubSeq(list, 0 + 1, m), list, 0, m)
  BY <1>4, PartProperties
<1>6. SubSeq(list, 1, m) = SubSeq(list, 0 + 1, m)
  OBVIOUS
<1>7. Newest(list, n) \in Seq(Nat) /\ Len(Newest(list, n)) = m
      /\ \A i \in 1..m : Newest(list, n)[i] = list[i]
  BY <1>3, <1>4, <1>5, <1>6 DEF IsPart
<1> QED BY <1>7 DEF m

LEMMA NewestDistinct ==
    ASSUME NEW list \in Seq(Nat), NEW n \in Nat, IsInjective(list)
    PROVE  IsInjective(Newest(list, n)) /\ Range(Newest(list, n)) \subseteq Range(list)
<1> DEFINE new == Newest(list, n)
<1>1. /\ new \in Seq(Nat) /\ DOMAIN new = 1..Len(new) /\ DOMAIN list = 1..Len(list)
      /\ \A i \in 1..Len(new) : new[i] = list[i] /\ i \in 1..Len(list)
  BY NewestProperties, LenProperties
<1> HIDE DEF new
<1> QED BY <1>1 DEF IsInjective, Range, new

LEMMA PrependDistinct ==
    ASSUME NEW list \in Seq(Nat), NEW index \in Nat, IsInjective(list), index \notin Range(list)
    PROVE  /\ <<index>> \o list \in Seq(Nat) /\ Len(<<index>> \o list) = Len(list) + 1
           /\ IsInjective(<<index>> \o list) /\ Range(<<index>> \o list) = {index} \cup Range(list)
<1> DEFINE new == <<index>> \o list
<1>1. /\ new \in Seq(Nat) /\ Len(new) = Len(list) + 1 /\ Len(list) \in Nat
      /\ DOMAIN new = 1..Len(list) + 1 /\ DOMAIN list = 1..Len(list)
      /\ \A i \in 1..Len(list) + 1 : new[i] = IF i = 1 THEN index ELSE list[i - 1]
  <2>1. <<index>> \in Seq(Nat) /\ Len(<<index>>) = 1 /\ <<index>>[1] = index
    OBVIOUS
  <2>2. /\ new \in Seq(Nat) /\ Len(new) = 1 + Len(list) /\ Len(list) \in Nat
        /\ \A i \in 1..1 + Len(list) :
              new[i] = IF i <= 1 THEN <<index>>[i] ELSE list[i - 1]
    BY <2>1, ConcatProperties, LenProperties
  <2> HIDE DEF new
  <2> QED BY <2>1, <2>2, LenProperties
<1> HIDE DEF new
<1>2. \A i \in 1..Len(list) + 1 : i = 1 \/ i - 1 \in 1..Len(list)
  BY <1>1
<1>3. \A i \in 1..Len(list) : i + 1 \in 1..Len(list) + 1 /\ new[i + 1] = list[i]
  <2> TAKE i \in 1..Len(list)
  <2>1. i + 1 \in 1..Len(list) + 1 /\ i + 1 # 1 /\ (i + 1) - 1 = i
    BY <1>1
  <2> QED BY <2>1, <1>1
<1>4. IsInjective(new)
  <2> SUFFICES ASSUME NEW a \in 1..Len(list) + 1, NEW b \in 1..Len(list) + 1, new[a] = new[b]
               PROVE  a = b
    BY <1>1 DEF IsInjective
  <2>1. CASE a = 1 /\ b = 1
    BY <2>1
  <2>2. CASE a = 1 /\ b # 1
    <3>1. new[b] = list[b - 1] /\ b - 1 \in 1..Len(list) /\ new[a] = index
      BY <2>2, <1>1, <1>2
    <3> QED BY <3>1, <1>1 DEF Range
  <2>3. CASE a # 1 /\ b = 1
    <3>1. new[a] = list[a - 1] /\ a - 1 \in 1..Len(list) /\ new[b] = index
      BY <2>3, <1>1, <1>2
    <3> QED BY <3>1, <1>1 DEF Range
  <2>4. CASE a # 1 /\ b # 1
    <3>1. /\ new[a] = list[a - 1] /\ a - 1 \in 1..Len(list)
          /\ new[b] = list[b - 1] /\ b - 1 \in 1..Len(list)
      BY <2>4, <1>1, <1>2
    <3>2. a - 1 = b - 1
      BY <3>1, <1>1 DEF IsInjective
    <3> QED BY <3>2
  <2> QED BY <2>1, <2>2, <2>3, <2>4
<1>5. Range(new) = {index} \cup Range(list)
  <2>1. ASSUME NEW x \in Range(new) PROVE x \in {index} \cup Range(list)
    <3>1. PICK i \in 1..Len(list) + 1 : x = new[i]
      BY <1>1 DEF Range
    <3>2. CASE i = 1
      BY <3>1, <3>2, <1>1
    <3>3. CASE i # 1
      <4>1. i - 1 \in DOMAIN list /\ x = list[i - 1]
        BY <3>1, <3>3, <1>1, <1>2
      <4> QED BY <4>1 DEF Range
    <3> QED BY <3>2, <3>3
  <2>2. index \in Range(new)
    <3>1. 1 \in DOMAIN new /\ new[1] = index
      BY <1>1
    <3> QED BY <3>1 DEF Range
  <2>3. ASSUME NEW x \in Range(list) PROVE x \in Range(new)
    <3>1. PICK i \in 1..Len(list) : x = list[i]
      BY <1>1 DEF Range
    <3>2. i + 1 \in DOMAIN new /\ new[i + 1] = x
      BY <3>1, <1>1, <1>3
    <3> QED BY <3>2 DEF Range
  <2> QED BY <2>1, <2>2, <2>3
<1> QED BY <1>1, <1>4, <1>5 DEF new

LEMMA RemoveDistinct ==
    ASSUME NEW list \in Seq(Nat), NEW index \in Nat, IsInjective(list)
    PROVE  /\ RemoveFirst(list, index) \in Seq(Nat) /\ IsInjective(RemoveFirst(list, index))
           /\ Range(RemoveFirst(list, index)) = Range(list) \ {index}
           /\ index \in Range(list) => Len(RemoveFirst(list, index)) = Len(list) - 1
           /\ index \notin Range(list) => RemoveFirst(list, index) = list
<1>0. Len(list) \in Nat /\ DOMAIN list = 1..Len(list) /\ \A i \in 1..Len(list) : list[i] \in Nat
  BY LenProperties, ElementOfSeq
<1>1. CASE index \notin Range(list)
  <2>1. ~\E i \in 1..Len(list) : list[i] = index
    BY <1>0, <1>1 DEF Range
  <2>2. RemoveFirst(list, index) = list
    BY <2>1 DEF RemoveFirst
  <2> QED BY <2>2, <1>1
<1>2. CASE index \in Range(list)
  <2>1. PICK k \in 1..Len(list) : list[k] = index
    BY <1>0, <1>2 DEF Range
  <2>2. SelectInSeq(list, LAMBDA v : v = index) = k
    <3>1. {i \in 1..Len(list) : list[i] = index} = {k}
      BY <2>1, <1>0 DEF IsInjective
    <3>2. Min({k}) = k
      <4>1. \A x \in {k} : x = k
        OBVIOUS
      <4> QED BY <4>1, <2>1 DEF Min
    <3> QED BY <3>1, <3>2 DEF SelectInSeq
  <2> DEFINE before == SubSeq(list, 1, k - 1)
             after == SubSeq(list, k + 1, Len(list))
             new == before \o after
  <2>3. RemoveFirst(list, index) = new
    BY <2>1, <2>2 DEF RemoveFirst, RemoveAt
  <2>4. /\ before \in Seq(Nat) /\ Len(before) = k - 1
        /\ \A i \in 1..k - 1 : before[i] = list[i]
    <3>1. 0 \in Nat /\ k - 1 \in Nat /\ 0 <= k - 1 /\ k - 1 <= Len(list) /\ (k - 1) - 0 = k - 1
      BY <1>0, <2>1
    <3>2. SubSeq(list, 0 + 1, k - 1) \in Seq(Nat) /\ IsPart(SubSeq(list, 0 + 1, k - 1), list, 0, k - 1)
      BY <3>1, PartProperties
    <3>3. before = SubSeq(list, 0 + 1, k - 1)
      OBVIOUS
    <3> HIDE DEF before
    <3> QED BY <3>1, <3>2, <3>3 DEF IsPart
  <2>5. /\ after \in Seq(Nat) /\ Len(after) = Len(list) - k
        /\ \A i \in 1..Len(list) - k : after[i] = list[k + i]
    <3>1. k \in Nat /\ k <= Len(list)
      BY <1>0, <2>1
    <3>2. after \in Seq(Nat) /\ IsPart(after, list, k, Len(list))
      BY <1>0, <3>1, PartProperties
    <3> HIDE DEF after
    <3> QED BY <3>2 DEF IsPart
  <2> HIDE DEF before, after
  <2>6. /\ new \in Seq(Nat) /\ Len(new) = Len(list) - 1 /\ DOMAIN new = 1..Len(list) - 1
        /\ \A i \in 1..Len(list) - 1 : new[i] = IF i < k THEN list[i] ELSE list[i + 1]
    <3>1. /\ new \in Seq(Nat) /\ Len(new) = Len(before) + Len(after)
          /\ \A i \in 1..Len(before) + Len(after) :
                new[i] = IF i <= Len(before) THEN before[i] ELSE after[i - Len(before)]
      BY <2>4, <2>5, ConcatProperties
    <3>2. Len(before) + Len(after) = Len(list) - 1
      BY <2>1, <2>4, <2>5, <1>0
    <3> HIDE DEF new
    <3>3. ASSUME NEW i \in 1..Len(list) - 1
          PROVE  new[i] = IF i < k THEN list[i] ELSE list[i + 1]
      <4>1. CASE i < k
        <5>1. i <= Len(before) /\ i \in 1..k - 1
          BY <4>1, <2>1, <2>4
        <5> QED BY <5>1, <3>1, <3>2, <2>4, <4>1
      <4>2. CASE i >= k
        <5>1. ~(i <= Len(before)) /\ i - Len(before) = i - (k - 1) /\ i - (k - 1) \in 1..Len(list) - k
          BY <4>2, <2>1, <2>4, <1>0
        <5>2. k + (i - (k - 1)) = i + 1
          BY <2>1
        <5>3. new[i] = after[i - (k - 1)]
          BY <5>1, <3>1, <3>2
        <5>4. after[i - (k - 1)] = list[k + (i - (k - 1))]
          BY <5>1, <2>5
        <5> QED BY <5>2, <5>3, <5>4, <4>2, <2>1
      <4> QED BY <4>1, <4>2, <2>1
    <3>4. DOMAIN new = 1..Len(new)
      BY <3>1, LenProperties
    <3> QED BY <3>1, <3>2, <3>3, <3>4
  <2> HIDE DEF new
  <2> DEFINE place(i) == IF i < k THEN i ELSE i + 1
  <2>7a. \A i \in 1..Len(list) - 1 : place(i) \in 1..Len(list) /\ place(i) # k
    BY <1>0, <2>1
  <2>7b. \A i \in 1..Len(list) - 1 : new[i] = list[place(i)]
    BY <2>6
  <2>7c. \A i, j \in 1..Len(list) - 1 : place(i) = place(j) => i = j
    BY <1>0, <2>1
  <2>8. \A i \in 1..Len(list) : i # k => \E j \in 1..Len(list) - 1 : place(j) = i
    <3> TAKE i \in 1..Len(list)
    <3>1. CASE i < k
      <4>1. i \in 1..Len(list) - 1 /\ place(i) = i
        BY <3>1, <1>0, <2>1
      <4> QED BY <4>1
    <3>2. CASE i > k
      <4>1. i - 1 \in 1..Len(list) - 1 /\ place(i - 1) = i
        BY <3>2, <1>0, <2>1
      <4> QED BY <4>1
    <3> QED BY <3>1, <3>2, <2>1
  <2> HIDE DEF place
  <2>9. IsInjective(new)
    <3> SUFFICES ASSUME NEW i \in 1..Len(list) - 1, NEW j \in 1..Len(list) - 1, new[i] = new[j]
                 PROVE  i = j
      BY <2>6 DEF IsInjective
    <3>1. list[place(i)] = list[place(j)]
      BY <2>7b
    <3>2. place(i) = place(j)
      BY <3>1, <2>7a, <1>0 DEF IsInjective
    <3> QED BY <3>2, <2>7c
  <2>10. Range(new) = Range(list) \ {index}
    <3>1. \A i \in 1..Len(list) : list[i] = index => i = k
      BY <2>1, <1>0 DEF IsInjective
    <3>2. ASSUME NEW x \in Range(new) PROVE x \in Range(list) \ {index}
      <4>1. PICK i \in 1..Len(list) - 1 : x = new[i]
        BY <2>6 DEF Range
      <4> QED BY <4>1, <2>7a, <2>7b, <3>1, <1>0 DEF Range
    <3>3. ASSUME NEW x \in Range(list) \ {index} PROVE x \in Range(new)
      <4>1. PICK i \in 1..Len(list) : x = list[i] /\ i # k
        BY <1>0, <2>1 DEF Range
      <4>2. PICK j \in 1..Len(list) - 1 : place(j) = i
        BY <4>1, <2>8
      <4> QED BY <4>1, <4>2, <2>6, <2>7b DEF Range
    <3> QED BY <3>2, <3>3
  <2> QED BY <2>3, <2>6, <2>9, <2>10, <1>2
<1> QED BY <1>1, <1>2

-----------------------------------------------------------------------------
(* The file                                                                *)

\* An element of the value array, and the contents of an entity.
Element == {<<>>} \cup {<<object>> : object \in codec.objects}
Content == [cells : Seq(WordType), values : Seq(Element)]

Chunks(entity) == [i \in DOMAIN entity.values |-> ValueUnits(entity.values[i])]

\* Where the value with the index begins, after all before it.
PlaceOf(entity, n) == Len(entity.cells) + 3 + Len(FlattenSeq(SubSeq(Chunks(entity), 1, n)))

LEMMA CodecFacts ==
    ASSUME codec \in Codecs
    PROVE  /\ codec.fixed \in Nat
           /\ \A object \in codec.objects :
                 /\ ToValue(object) \in Seq(Byte) /\ FromValue(ToValue(object)) = object
                 /\ ToValue(object) \in Seq(Nat) /\ Len(ToValue(object)) \in Nat
                 /\ codec.fixed > 0 => Len(ToValue(object)) = codec.fixed
<1>1. Byte \subseteq Nat
  BY RadixProperties
<1>2. \A object \in codec.objects : ToValue(object) \in Seq(Byte)
  BY CodecAssumption DEF ToValue
<1>3. \A object \in codec.objects : ToValue(object) \in Seq(Nat) /\ Len(ToValue(object)) \in Nat
  BY <1>1, <1>2, SeqMonotonic, LenProperties
<1>4. codec.fixed \in Nat
  BY CodecAssumption
<1>5. \A object \in codec.objects :
        /\ FromValue(ToValue(object)) = object
        /\ codec.fixed > 0 => Len(ToValue(object)) = codec.fixed
  BY CodecAssumption DEF ToValue, FromValue
<1> QED BY <1>2, <1>3, <1>4, <1>5

LEMMA UninitializedIsSeq ==
    ASSUME NEW fixed \in Nat
    PROVE  Uninitialized(fixed) \in Seq(Nat) /\ Len(Uninitialized(fixed)) = fixed
<1>1. Uninitialized(fixed) \in [1..fixed -> Nat]
  BY RadixProperties DEF Uninitialized
<1> HIDE DEF Uninitialized
<1> QED BY <1>1, FunctionIsSeq

\* One element is a size and as many bytes, or as many bytes as all have.
LEMMA ValueUnitsProperties ==
    ASSUME codec \in Codecs, NEW value \in Element
    PROVE  /\ ValueUnits(value) \in Seq(Nat) /\ Len(ValueUnits(value)) \in Nat
           /\ codec.fixed > 0 => Len(ValueUnits(value)) = codec.fixed
           /\ codec.fixed = 0 =>
                 /\ Len(ValueUnits(value)) = ValueUnits(value)[1] + 1
                 /\ value = <<>> => ValueUnits(value)[1] = 0
                 /\ value # <<>> =>
                       /\ ValueUnits(value)[1] = Len(ToValue(Head(value)))
                       /\ \A i \in 1..Len(ToValue(Head(value))) :
                             ValueUnits(value)[i + 1] = ToValue(Head(value))[i]
<1>0. codec.fixed \in Nat
  BY CodecFacts
<1>1. CASE value = <<>>
  <2>1. CASE codec.fixed = 0
    <3>1. ValueUnits(value) = <<0>>
      BY <1>1, <2>1 DEF ValueUnits
    <3> QED BY <3>1, <1>1, <2>1
  <2>2. CASE codec.fixed > 0
    <3>1. ValueUnits(value) = Uninitialized(codec.fixed)
      BY <1>1, <2>2, <1>0 DEF ValueUnits
    <3> QED BY <3>1, <2>2, <1>0, UninitializedIsSeq
  <2> QED BY <2>1, <2>2, <1>0
<1>2. CASE value # <<>>
  <2>1. PICK object \in codec.objects : value = <<object>>
    BY <1>2 DEF Element
  <2>2. Head(value) = object
    BY <2>1
  <2> DEFINE bytes == ToValue(object)
  <2>3. /\ bytes \in Seq(Nat) /\ Len(bytes) \in Nat
        /\ codec.fixed > 0 => Len(bytes) = codec.fixed
    BY CodecFacts
  <2> HIDE DEF bytes
  <2>4. CASE codec.fixed = 0
    <3> DEFINE size == <<Len(bytes)>>
               both == size \o bytes
    <3>1. ValueUnits(value) = both
      BY <1>2, <2>2, <2>4 DEF ValueUnits, bytes
    <3>2. size \in Seq(Nat) /\ Len(size) = 1 /\ size[1] = Len(bytes)
      BY <2>3
    <3> HIDE DEF size
    <3>3. both \in Seq(Nat) /\ IsJoin(both, size, bytes)
      BY <2>3, <3>2, JoinProperties
    <3> HIDE DEF both
    <3>4. /\ Len(both) = 1 + Len(bytes) /\ both[1] = Len(bytes)
          /\ \A i \in 1..Len(bytes) : both[1 + i] = bytes[i]
      BY <3>2, <3>3 DEF IsJoin
    <3>5. \A i \in 1..Len(bytes) : i + 1 = 1 + i
      BY <2>3
    <3> QED BY <3>1, <3>3, <3>4, <3>5, <2>2, <2>3, <2>4, <1>2 DEF bytes
  <2>5. CASE codec.fixed > 0
    <3>1. ValueUnits(value) = bytes
      BY <1>2, <2>2, <2>5, <1>0 DEF ValueUnits, bytes
    <3> QED BY <3>1, <2>3, <2>5
  <2> QED BY <2>4, <2>5, <1>0
<1> QED BY <1>1, <1>2

LEMMA ChunksType ==
    ASSUME codec \in Codecs, NEW entity \in Content
    PROVE  /\ Chunks(entity) \in Seq(Seq(Nat)) /\ Len(Chunks(entity)) = Len(entity.values)
           /\ Len(entity.values) \in Nat /\ Len(entity.cells) \in Nat
           /\ \A i \in 1..Len(entity.values) :
                 entity.values[i] \in Element /\ Chunks(entity)[i] = ValueUnits(entity.values[i])
<1>1. /\ entity.values \in Seq(Element) /\ Len(entity.values) \in Nat /\ Len(entity.cells) \in Nat
      /\ DOMAIN entity.values = 1..Len(entity.values)
      /\ \A i \in 1..Len(entity.values) : entity.values[i] \in Element
  BY LenProperties, ElementOfSeq DEF Content
<1>2. Chunks(entity) \in [1..Len(entity.values) -> Seq(Nat)]
  BY <1>1, ValueUnitsProperties DEF Chunks
<1>3. \A i \in 1..Len(entity.values) : Chunks(entity)[i] = ValueUnits(entity.values[i])
  BY <1>1 DEF Chunks
<1> HIDE DEF Chunks
<1>4. Chunks(entity) \in Seq(Seq(Nat)) /\ Len(Chunks(entity)) = Len(entity.values)
  BY <1>1, <1>2, FunctionIsSeq
<1> QED BY <1>1, <1>3, <1>4

\* Where the words and the bytes of an entity are.
IsLaidOut(units, entity, flat) ==
    /\ Len(units) = Len(entity.cells) + 3 + Len(flat)
    /\ units[1] = Len(entity.cells)
    /\ \A i \in 1..Len(entity.cells) : units[1 + i] = entity.cells[i]
    /\ units[Len(entity.cells) + 2] = Len(entity.values)
    /\ units[Len(entity.cells) + 3] = codec.fixed
    /\ \A i \in 1..Len(flat) : units[Len(entity.cells) + 3 + i] = flat[i]

LEMMA UnitsLayout ==
    ASSUME codec \in Codecs, NEW entity \in Content
    PROVE  /\ Units(entity) \in Seq(Nat) /\ FlattenSeq(Chunks(entity)) \in Seq(Nat)
           /\ Len(FlattenSeq(Chunks(entity))) \in Nat
           /\ IsLaidOut(Units(entity), entity, FlattenSeq(Chunks(entity)))
<1> DEFINE flat == FlattenSeq(Chunks(entity))
           cells == entity.cells
           first == <<Len(cells)>>
           sizes == <<Len(entity.values), codec.fixed>>
<1>1. flat \in Seq(Nat) /\ Len(flat) \in Nat /\ Len(entity.values) \in Nat
  <2>1. Chunks(entity) \in Seq(Seq(Nat)) /\ Len(entity.values) \in Nat
    BY ChunksType
  <2>2. flat \in Seq(Nat)
    BY <2>1, FlattenType
  <2> QED BY <2>1, <2>2, LenProperties
<1>2. cells \in Seq(Nat) /\ Len(cells) \in Nat
  <2>1. cells \in Seq(WordType)
    BY DEF Content
  <2>2. WordType \subseteq Nat
    BY DEF WordType
  <2> QED BY <2>1, <2>2, SeqMonotonic, LenProperties
<1>3. /\ first \in Seq(Nat) /\ Len(first) = 1 /\ first[1] = Len(cells)
      /\ sizes \in Seq(Nat) /\ Len(sizes) = 2 /\ sizes[1] = Len(entity.values)
      /\ sizes[2] = codec.fixed
  BY <1>1, <1>2, CodecFacts
<1>4. Units(entity) = ((first \o cells) \o sizes) \o flat
  BY DEF Units, Chunks
<1> HIDE DEF flat, cells, first, sizes
<1> DEFINE a == first \o cells
           b == a \o sizes
           c == b \o flat
<1>5. a \in Seq(Nat) /\ IsJoin(a, first, cells)
  BY <1>2, <1>3, JoinProperties
<1> HIDE DEF a
<1>6. b \in Seq(Nat) /\ IsJoin(b, a, sizes)
  BY <1>3, <1>5, JoinProperties
<1> HIDE DEF b
<1>7. c \in Seq(Nat) /\ IsJoin(c, b, flat)
  BY <1>1, <1>6, JoinProperties
<1> HIDE DEF c
<1>8. /\ Len(a) = 1 + Len(cells) /\ a[1] = Len(cells)
      /\ \A i \in 1..Len(cells) : a[1 + i] = cells[i]
  BY <1>3, <1>5 DEF IsJoin
<1>9. /\ Len(b) = Len(cells) + 3 /\ \A i \in 1..Len(cells) + 1 : b[i] = a[i]
      /\ b[Len(cells) + 2] = Len(entity.values) /\ b[Len(cells) + 3] = codec.fixed
  <2>1. Len(b) = Len(cells) + 3
    BY <1>2, <1>3, <1>6, <1>8 DEF IsJoin
  <2>2. \A i \in 1..Len(cells) + 1 : b[i] = a[i]
    BY <1>2, <1>6, <1>8 DEF IsJoin
  <2>3. b[Len(a) + 1] = sizes[1] /\ b[Len(a) + 2] = sizes[2]
    BY <1>3, <1>6 DEF IsJoin
  <2>4. Len(a) + 1 = Len(cells) + 2 /\ Len(a) + 2 = Len(cells) + 3
    BY <1>2, <1>8
  <2> QED BY <2>1, <2>2, <2>3, <2>4, <1>3
<1>10. /\ Len(c) = Len(cells) + 3 + Len(flat) /\ \A i \in 1..Len(cells) + 3 : c[i] = b[i]
       /\ \A i \in 1..Len(flat) : c[Len(cells) + 3 + i] = flat[i]
  BY <1>7, <1>9 DEF IsJoin
<1>11. c[1] = Len(cells) /\ \A i \in 1..Len(cells) : c[1 + i] = cells[i]
  <2>1. /\ 1 \in 1..Len(cells) + 3 /\ 1 \in 1..Len(cells) + 1
        /\ \A i \in 1..Len(cells) : 1 + i \in 1..Len(cells) + 3 /\ 1 + i \in 1..Len(cells) + 1
    BY <1>2
  <2> QED BY <2>1, <1>8, <1>9, <1>10
<1>12. c[Len(cells) + 2] = Len(entity.values) /\ c[Len(cells) + 3] = codec.fixed
  BY <1>2, <1>9, <1>10
<1>13. IsLaidOut(c, entity, flat)
  BY <1>10, <1>11, <1>12 DEF IsLaidOut, cells
<1>14. Units(entity) = c
  BY <1>4 DEF a, b, c
<1> QED BY <1>1, <1>7, <1>13, <1>14 DEF flat

\* Where one value is.
IsAt(units, entity, n) ==
    /\ PlaceOf(entity, n) \in Nat /\ PlaceOf(entity, n + 1) \in Nat
    /\ PlaceOf(entity, n + 1) = PlaceOf(entity, n) + Len(Chunks(entity)[n + 1])
    /\ PlaceOf(entity, n + 1) <= Len(units)
    /\ \A k \in 1..Len(Chunks(entity)[n + 1]) :
          units[PlaceOf(entity, n) + k] = Chunks(entity)[n + 1][k]

LEMMA Places ==
    ASSUME codec \in Codecs, NEW entity \in Content
    PROVE  /\ PlaceOf(entity, 0) = Len(entity.cells) + 3
           /\ PlaceOf(entity, Len(entity.values)) = Len(Units(entity))
           /\ \A n \in 0..Len(entity.values) - 1 : IsAt(Units(entity), entity, n)
<1> DEFINE ss == Chunks(entity)
           units == Units(entity)
           flat == FlattenSeq(ss)
           start == Len(entity.cells) + 3
<1>1. /\ ss \in Seq(Seq(Nat)) /\ Len(ss) = Len(entity.values) /\ Len(ss) \in Nat
      /\ start \in Nat
  BY ChunksType
<1>2. units \in Seq(Nat) /\ flat \in Seq(Nat) /\ IsLaidOut(units, entity, flat)
  BY UnitsLayout
<1>2a. \A n : PlaceOf(entity, n) = start + Len(FlattenSeq(SubSeq(ss, 1, n)))
  BY DEF PlaceOf
<1>2b. Len(units) = start + Len(flat) /\ \A i \in 1..Len(flat) : units[start + i] = flat[i]
  BY <1>2 DEF IsLaidOut
<1> HIDE DEF ss, units, start
<1>3. PlaceOf(entity, 0) = start
  <2>1. SubSeq(ss, 1, 0) = <<>>
    BY SubSeqEmpty
  <2>2. Len(FlattenSeq(SubSeq(ss, 1, 0))) = 0
    BY <2>1, FlattenEmpty, EmptySeq
  <2>3. PlaceOf(entity, 0) = start + Len(FlattenSeq(SubSeq(ss, 1, 0)))
    BY <1>2a
  <2> QED BY <2>2, <2>3, <1>1
<1>4. PlaceOf(entity, Len(entity.values)) = Len(units)
  <2>1. SubSeq(ss, 1, Len(ss)) = ss
    BY <1>1, SubSeqFull
  <2> QED BY <2>1, <1>1, <1>2a, <1>2b
<1>5. ASSUME NEW n \in 0..Len(entity.values) - 1
      PROVE  IsAt(units, entity, n)
  <2> DEFINE before == FlattenSeq(SubSeq(ss, 1, n))
             upto == FlattenSeq(SubSeq(ss, 1, n + 1))
             it == ss[n + 1]
  <2>1. n \in 0..Len(ss) - 1
    BY <1>1
  <2>2. /\ upto = before \o it /\ before \in Seq(Nat) /\ it \in Seq(Nat)
        /\ \E rest \in Seq(Nat) : flat = (before \o it) \o rest
    BY <1>1, <2>1, FlattenNext
  <2>3. PICK rest \in Seq(Nat) : flat = (before \o it) \o rest
    BY <2>2
  <2>3a. PlaceOf(entity, n) = start + Len(before) /\ PlaceOf(entity, n + 1) = start + Len(upto)
    BY <1>2a
  <2> HIDE DEF before, upto, it, flat
  <2>4. upto \in Seq(Nat) /\ IsJoin(upto, before, it) /\ Len(before) \in Nat /\ Len(it) \in Nat
    BY <2>2, JoinProperties
  <2>5. IsJoin(flat, upto, rest) /\ Len(upto) \in Nat /\ Len(rest) \in Nat
    BY <2>2, <2>3, <2>4, JoinProperties
  <2>6. /\ Len(upto) = Len(before) + Len(it) /\ Len(flat) = Len(upto) + Len(rest)
        /\ Len(units) = start + Len(flat)
    BY <2>4, <2>5, <1>2b DEF IsJoin
  <2>7. /\ PlaceOf(entity, n) \in Nat /\ PlaceOf(entity, n + 1) \in Nat
        /\ PlaceOf(entity, n + 1) = PlaceOf(entity, n) + Len(it)
        /\ PlaceOf(entity, n + 1) <= Len(units)
    <3> DEFINE here == PlaceOf(entity, n)
               next == PlaceOf(entity, n + 1)
               b == Len(before)
               s == Len(it)
               u == Len(upto)
               r == Len(rest)
               w == Len(units)
    <3>1. /\ here = start + b /\ next = start + u /\ u = b + s /\ w = start + (u + r)
          /\ start \in Nat /\ b \in Nat /\ s \in Nat /\ r \in Nat
      BY <1>1, <2>3a, <2>4, <2>5, <2>6
    <3> SUFFICES here \in Nat /\ next \in Nat /\ next = here + s /\ next <= w
      OBVIOUS
    <3> HIDE DEF here, next, b, s, u, r, w, start
    <3> QED BY <3>1
  <2>8. ASSUME NEW k \in 1..Len(it) PROVE units[PlaceOf(entity, n) + k] = it[k]
    <3>1. upto[Len(before) + k] = it[k]
      BY <2>4 DEF IsJoin
    <3>2. Len(before) + k \in 1..Len(upto) /\ Len(before) + k \in 1..Len(flat)
      <4> DEFINE b == Len(before)
                 s == Len(it)
                 u == Len(upto)
                 r == Len(rest)
                 f == Len(flat)
      <4>1. u = b + s /\ f = u + r /\ k \in 1..s /\ b \in Nat /\ s \in Nat /\ r \in Nat
        BY <2>4, <2>5, <2>6
      <4> SUFFICES b + k \in 1..u /\ b + k \in 1..f
        OBVIOUS
      <4> HIDE DEF b, s, u, r, f
      <4> QED BY <4>1
    <3>3. flat[Len(before) + k] = upto[Len(before) + k]
      BY <3>2, <2>5 DEF IsJoin
    <3>4. units[start + (Len(before) + k)] = flat[Len(before) + k]
      BY <3>2, <1>2b
    <3>5. PlaceOf(entity, n) + k = start + (Len(before) + k)
      BY <2>3a, <2>4, <1>1
    <3> QED BY <3>1, <3>3, <3>4, <3>5
  <2> QED BY <2>7, <2>8 DEF IsAt, it, ss
<1> QED BY <1>3, <1>4, <1>5 DEF units, start

\* Values of a fixed size need no places of their own.
LEMMA FixedPlaces ==
    ASSUME codec \in Codecs, NEW entity \in Content, codec.fixed > 0
    PROVE  \A n \in 0..Len(entity.values) :
              PlaceOf(entity, n) = Len(entity.cells) + 3 + codec.fixed * n
<1> DEFINE C == Len(entity.cells) + 3
           F == codec.fixed
           T == {n \in Nat : n <= Len(entity.values) => PlaceOf(entity, n) = C + F * n}
<1>1. C \in Nat /\ F \in Nat /\ Len(entity.values) \in Nat
  BY ChunksType, CodecFacts
<1>2. 0 \in T
  <2>1. PlaceOf(entity, 0) = C /\ C = C + F * 0
    BY <1>1, Places
  <2> QED BY <2>1
<1>3. ASSUME NEW n \in Nat, n \in T PROVE n + 1 \in T
  <2> SUFFICES ASSUME n + 1 <= Len(entity.values) PROVE PlaceOf(entity, n + 1) = C + F * (n + 1)
    OBVIOUS
  <2>1. n \in 0..Len(entity.values) - 1 /\ n + 1 \in 1..Len(entity.values) /\ n <= Len(entity.values)
    BY <1>1
  <2>2. PlaceOf(entity, n + 1) = PlaceOf(entity, n) + Len(Chunks(entity)[n + 1])
    BY <2>1, Places DEF IsAt
  <2>3. Len(Chunks(entity)[n + 1]) = F
    <3>1. entity.values[n + 1] \in Element /\ Chunks(entity)[n + 1] = ValueUnits(entity.values[n + 1])
      BY <2>1, ChunksType
    <3> QED BY <3>1, ValueUnitsProperties
  <2>4. PlaceOf(entity, n) = C + F * n
    BY <1>3, <2>1
  <2>5. F * (n + 1) = F * n + F /\ F * n \in Int
    BY <1>1, SMT
  <2> HIDE DEF C, F
  <2> QED BY <2>2, <2>3, <2>4, <2>5, <1>1
<1>4. Nat \subseteq T
  <2> HIDE DEF T
  <2> QED BY <1>2, <1>3, SetInduction
<1> QED BY <1>1, <1>4

-----------------------------------------------------------------------------
(* Reading the file                                                        *)

IsBeginning(part, whole) ==
    /\ part \in Seq(Nat) /\ Len(part) <= Len(whole)
    /\ \A i \in 1..Len(part) : part[i] = whole[i]

LEMMA ReadPart ==
    ASSUME NEW whole \in Seq(Nat), IsBeginning(file, whole),
           NEW from \in Nat, NEW to \in Nat, from <= to, to <= Len(file),
           NEW part \in Seq(Nat), Len(part) = to - from,
           \A k \in 1..Len(part) : whole[from + k] = part[k]
    PROVE  SubSeq(file, from + 1, to) = part
<1> DEFINE read == SubSeq(file, from + 1, to)
<1>1. file \in Seq(Nat) /\ Len(file) \in Nat /\ \A i \in 1..Len(file) : file[i] = whole[i]
  BY LenProperties DEF IsBeginning
<1>2. read \in Seq(Nat) /\ IsPart(read, file, from, to)
  BY <1>1, PartProperties
<1> HIDE DEF read
<1>3. Len(read) = Len(part) /\ \A i \in 1..Len(part) : read[i] = file[from + i]
  BY <1>2 DEF IsPart
<1>4. \A i \in 1..Len(part) : from + i \in 1..Len(file)
  <2>1. Len(file) \in Nat /\ Len(part) = to - from
    BY <1>1
  <2> QED BY <2>1
<1>5. \A i \in 1..Len(part) : read[i] = part[i]
  BY <1>1, <1>3, <1>4
<1>6. read = part
  BY <1>2, <1>3, <1>5, SeqEqual
<1> QED BY <1>6 DEF read

\* What a file keeps of a value.
Kept(value) == IF value # <<>> /\ KeptInFile(Head(value)) THEN value ELSE <<>>
State(at, values, failed) == [at |-> at, values |-> values, failed |-> failed]


LEMMA StateParts ==
    ASSUME NEW at, NEW values, NEW failed
    PROVE  /\ State(at, values, failed).at = at
           /\ State(at, values, failed).values = values
           /\ State(at, values, failed).failed = failed
BY DEF State

\* A value that is read from one place to another, or not read.
Outcome(at, values, from, size, isNone, fails) ==
    IF fails THEN State(at, values, TRUE)
    ELSE State(from + size,
               Append(values, IF isNone THEN <<>>
                              ELSE <<FromValue(SubSeq(file, from + 1, from + size))>>),
               FALSE)

LEMMA FixedValueFrom ==
    ASSUME NEW fixed \in Nat \ {0}, NEW at, NEW values, NEW failed \in BOOLEAN
    PROVE  ValueFrom(fixed, State(at, values, failed)) =
             Outcome(at, values, at, fixed,
                     SubSeq(file, at + 1, at + fixed) = Uninitialized(fixed),
                     failed \/ at + fixed > Len(file))
<1>1. fixed > 0 /\ fixed # 0
  OBVIOUS
<1> DEFINE s == State(at, values, failed)
<1>2. s.at = at /\ s.failed = failed /\ s.values = values
  BY StateParts
<1> HIDE DEF s
<1>3. CASE failed \/ at + fixed > Len(file)
  BY <1>1, <1>2, <1>3 DEF ValueFrom, Outcome, State
<1>4. CASE ~(failed \/ at + fixed > Len(file))
  BY <1>1, <1>2, <1>4 DEF ValueFrom, Outcome, State
<1> QED BY <1>3, <1>4 DEF s

LEMMA SizedValueFrom ==
    ASSUME NEW at, NEW values, NEW failed \in BOOLEAN
    PROVE  ValueFrom(0, State(at, values, failed)) =
             Outcome(at, values, at + 1, file[at + 1], file[at + 1] = 0,
                     failed \/ at >= Len(file) \/ (at + 1) + file[at + 1] > Len(file))
<1>1. ~(0 > 0)
  OBVIOUS
<1> DEFINE s == State(at, values, failed)
<1>2. s.at = at /\ s.failed = failed /\ s.values = values
  BY StateParts
<1> HIDE DEF s
<1>3. CASE failed \/ at >= Len(file) \/ (at + 1) + file[at + 1] > Len(file)
  BY <1>1, <1>2, <1>3 DEF ValueFrom, Outcome, State
<1>4. CASE ~(failed \/ at >= Len(file) \/ (at + 1) + file[at + 1] > Len(file))
  BY <1>1, <1>2, <1>4 DEF ValueFrom, Outcome, State
<1> QED BY <1>3, <1>4 DEF s

LEMMA NoValueFrom ==
    ASSUME codec \in Codecs, NEW at, NEW values
    PROVE  ValueFrom(codec.fixed, State(at, values, TRUE)) = State(at, values, TRUE)
<1>1. CASE codec.fixed = 0
  <2>1. ValueFrom(0, State(at, values, TRUE)) = State(at, values, TRUE)
    BY SizedValueFrom DEF Outcome
  <2> QED BY <1>1, <2>1
<1>2. CASE codec.fixed \in Nat \ {0}
  BY <1>2, FixedValueFrom DEF Outcome
<1> QED BY <1>1, <1>2, CodecFacts

\* A value is read if all of it is in the file.
LEMMA NextValueFrom ==
    ASSUME codec \in Codecs, NEW entity \in Content, IsBeginning(file, Units(entity)),
           NEW n \in 0..Len(entity.values) - 1, PlaceOf(entity, n) <= Len(file), NEW values
    PROVE  ValueFrom(codec.fixed, State(PlaceOf(entity, n), values, FALSE)) =
             IF PlaceOf(entity, n + 1) <= Len(file)
               THEN State(PlaceOf(entity, n + 1), Append(values, Kept(entity.values[n + 1])), FALSE)
             ELSE State(PlaceOf(entity, n), values, TRUE)
<1> DEFINE units == Units(entity)
           at == PlaceOf(entity, n)
           next == PlaceOf(entity, n + 1)
           value == entity.values[n + 1]
           chunk == ValueUnits(value)
<1>1. /\ units \in Seq(Nat) /\ codec.fixed \in Nat /\ n + 1 \in 1..Len(entity.values)
      /\ Len(entity.values) \in Nat /\ Len(file) \in Nat
  BY UnitsLayout, CodecFacts, ChunksType, LenProperties DEF IsBeginning
<1>2. value \in Element /\ Chunks(entity)[n + 1] = chunk
  BY <1>1, ChunksType
<1>3. /\ at \in Nat /\ next \in Nat /\ next = at + Len(chunk) /\ next <= Len(units)
      /\ \A k \in 1..Len(chunk) : units[at + k] = chunk[k]
  BY <1>2, Places DEF IsAt
<1>4. chunk \in Seq(Nat) /\ Len(chunk) \in Nat
  BY <1>2, ValueUnitsProperties
<1>5. value # <<>> => /\ Head(value) \in codec.objects /\ <<Head(value)>> = value
                      /\ ToValue(Head(value)) \in Seq(Nat) /\ Len(ToValue(Head(value))) \in Nat
                      /\ FromValue(ToValue(Head(value))) = Head(value)
  <2> SUFFICES ASSUME value # <<>>
               PROVE  /\ Head(value) \in codec.objects /\ <<Head(value)>> = value
                      /\ ToValue(Head(value)) \in Seq(Nat) /\ Len(ToValue(Head(value))) \in Nat
                      /\ FromValue(ToValue(Head(value))) = Head(value)
    OBVIOUS
  <2>1. PICK object \in codec.objects : value = <<object>>
    BY <1>2 DEF Element
  <2>2. Head(value) = object
    BY <2>1
  <2> HIDE DEF value
  <2> QED BY <2>1, <2>2, CodecFacts
<1>6. \A i \in 1..Len(file) : file[i] = units[i]
  BY DEF IsBeginning
<1>7. /\ codec.fixed > 0 => Len(chunk) = codec.fixed
      /\ codec.fixed = 0 =>
            /\ Len(chunk) = chunk[1] + 1
            /\ value = <<>> => chunk[1] = 0
            /\ value # <<>> => /\ chunk[1] = Len(ToValue(Head(value)))
                               /\ \A i \in 1..Len(ToValue(Head(value))) :
                                     chunk[i + 1] = ToValue(Head(value))[i]
  BY <1>2, ValueUnitsProperties
<1>8. codec.fixed > 0 => /\ value = <<>> => chunk = Uninitialized(codec.fixed)
                         /\ value # <<>> => chunk = ToValue(Head(value))
  BY <1>1 DEF ValueUnits
<1> DEFINE kept == Kept(value)
<1> SUFFICES ValueFrom(codec.fixed, State(at, values, FALSE)) =
               IF next <= Len(file) THEN State(next, Append(values, kept), FALSE)
               ELSE State(at, values, TRUE)
  OBVIOUS
<1> HIDE DEF units, at, next, value, chunk
<1>9. CASE codec.fixed > 0
  <2> DEFINE read == SubSeq(file, at + 1, at + codec.fixed)
             isNone == read = Uninitialized(codec.fixed)
  <2>1. ValueFrom(codec.fixed, State(at, values, FALSE)) =
          Outcome(at, values, at, codec.fixed, isNone, FALSE \/ at + codec.fixed > Len(file))
    <3>1. codec.fixed \in Nat \ {0} /\ FALSE \in BOOLEAN
      BY <1>1, <1>9
    <3> QED BY <3>1, FixedValueFrom
  <2>2. next = at + codec.fixed
    BY <1>3, <1>7, <1>9
  <2>3. CASE next <= Len(file)
    <3>1. read = chunk
      <4>1. /\ at <= next /\ Len(chunk) = next - at /\ IsBeginning(file, units)
        BY <1>1, <1>3, <1>4, <1>7, <1>9, <2>2 DEF units
      <4>2. SubSeq(file, at + 1, next) = chunk
        BY <4>1, <1>1, <1>3, <1>4, <2>3, ReadPart
      <4> QED BY <4>2, <2>2
    <3>2. (IF isNone THEN <<>> ELSE <<FromValue(read)>>) = kept
      <4>1. CASE value = <<>>
        BY <4>1, <1>8, <1>9, <3>1 DEF Kept
      <4>2. CASE value # <<>>
        BY <4>2, <1>5, <1>8, <1>9, <3>1 DEF Kept, KeptInFile
      <4> QED BY <4>1, <4>2
    <3>3. ~(FALSE \/ at + codec.fixed > Len(file))
      BY <1>1, <1>3, <2>2, <2>3
    <3> QED BY <2>1, <2>2, <2>3, <3>2, <3>3 DEF Outcome
  <2>4. CASE ~(next <= Len(file))
    <3>1. at + codec.fixed > Len(file)
      BY <1>1, <1>3, <2>2, <2>4
    <3> QED BY <2>1, <2>4, <3>1 DEF Outcome
  <2> QED BY <2>3, <2>4
<1>10. CASE codec.fixed = 0
  <2> DEFINE size == file[at + 1]
             from == at + 1
             read == SubSeq(file, from + 1, from + size)
             fails == FALSE \/ at >= Len(file) \/ from + size > Len(file)
  <2>1. ValueFrom(codec.fixed, State(at, values, FALSE)) =
          Outcome(at, values, from, size, size = 0, fails)
    <3>1. FALSE \in BOOLEAN
      OBVIOUS
    <3>2. ValueFrom(0, State(at, values, FALSE)) = Outcome(at, values, from, size, size = 0, fails)
      BY <3>1, SizedValueFrom
    <3> QED BY <3>2, <1>10
  <2>2. Len(chunk) = chunk[1] + 1 /\ chunk[1] \in Nat /\ 1 \in 1..Len(chunk)
    <3>1. Len(chunk) = chunk[1] + 1
      BY <1>7, <1>10
    <3>2. Len(chunk) # 0
      <4> SUFFICES ASSUME value # <<>> PROVE chunk[1] \in Nat
        BY <3>1, <1>7, <1>10
      <4> QED BY <1>5, <1>7, <1>10
    <3>3. 1 \in 1..Len(chunk)
      BY <3>2, <1>4
    <3> QED BY <3>1, <3>3, <1>4, ElementOfSeq
  <2>3. CASE at >= Len(file)
    <3>1. next > Len(file)
      BY <2>2, <2>3, <1>1, <1>3
    <3>2. ~(next <= Len(file))
      BY <3>1, <1>1, <1>3
    <3> QED BY <2>1, <2>3, <3>2 DEF Outcome
  <2>4. CASE at < Len(file)
    <3>1. size = chunk[1]
      <4>1. at + 1 \in 1..Len(file)
        BY <2>4, <1>1, <1>3
      <4> QED BY <4>1, <1>6, <1>3, <2>2
    <3>2. from + size = next /\ from \in Nat
      <4>1. at \in Nat /\ next = at + (chunk[1] + 1) /\ chunk[1] \in Nat
        BY <1>3, <2>2
      <4>2. (at + 1) + chunk[1] = next /\ at + 1 \in Nat
        BY <4>1
      <4> QED BY <3>1, <4>2
    <3>3. CASE next <= Len(file)
      <4>1. ~fails
        BY <2>4, <3>2, <3>3, <1>1, <1>3
      <4>2. (IF size = 0 THEN <<>> ELSE <<FromValue(read)>>) = kept
        <5>1. CASE value = <<>>
          BY <5>1, <1>7, <1>10, <3>1 DEF Kept
        <5>2. CASE value # <<>>
          <6> DEFINE bytes == ToValue(Head(value))
          <6>1. bytes \in Seq(Nat) /\ Len(bytes) \in Nat /\ size = Len(bytes)
            BY <5>2, <1>5, <1>7, <1>10, <3>1
          <6>2. \A k \in 1..Len(bytes) : units[from + k] = bytes[k]
            <7> TAKE k \in 1..Len(bytes)
            <7>1. k + 1 \in 1..Len(chunk) /\ at + (k + 1) = from + k
              <8>1. at \in Nat /\ Len(bytes) \in Nat /\ Len(chunk) = Len(bytes) + 1
                BY <6>1, <3>1, <2>2, <1>3
              <8> HIDE DEF bytes
              <8> QED BY <8>1
            <7>2. chunk[k + 1] = bytes[k]
              BY <5>2, <1>7, <1>10
            <7> QED BY <7>1, <7>2, <1>3
          <6>3. SubSeq(file, from + 1, next) = bytes
            <7>1. from <= next /\ Len(bytes) = next - from /\ IsBeginning(file, units)
              BY <3>2, <6>1, <2>2, <3>1 DEF units
            <7>2. /\ from \in Nat /\ next \in Nat /\ next <= Len(file) /\ units \in Seq(Nat)
                  /\ bytes \in Seq(Nat)
              BY <1>1, <1>3, <3>2, <3>3, <6>1
            <7> HIDE DEF bytes, from
            <7> QED BY <7>1, <7>2, <6>2, ReadPart
          <6>4. read = bytes
            BY <6>3, <3>2
          <6>5. size = 0 <=> bytes = <<>>
            BY <6>1, EmptySeq
          <6>6. size # 0 <=> KeptInFile(Head(value))
            BY <6>5, <1>10 DEF KeptInFile
          <6>7. <<FromValue(read)>> = value
            BY <6>4, <5>2, <1>5
          <6> QED BY <6>6, <6>7, <5>2 DEF Kept
        <5> QED BY <5>1, <5>2
      <4> QED BY <2>1, <3>2, <3>3, <4>1, <4>2 DEF Outcome
    <3>4. CASE ~(next <= Len(file))
      <4>1. fails
        BY <3>2, <3>4, <1>1, <1>3
      <4> QED BY <2>1, <3>4, <4>1 DEF Outcome
    <3> QED BY <3>3, <3>4
  <2>5. at >= Len(file) \/ at < Len(file)
    BY <1>1, <1>3
  <2> QED BY <2>3, <2>4, <2>5
<1>11. codec.fixed > 0 \/ codec.fixed = 0
  BY <1>1
<1> QED BY <1>9, <1>10, <1>11

ReadsOn(f, fixed, start, count) ==
    f = [n \in 0..count |-> IF n = 0 THEN State(start, <<>>, FALSE) ELSE ValueFrom(fixed, f[n - 1])]

LEMMA ReadingExists ==
    ASSUME NEW fixed, NEW start, NEW count \in Nat
    PROVE  \E f : ReadsOn(f, fixed, start, count)
<1> DEFINE T == {n \in Nat : \E f : ReadsOn(f, fixed, start, n)}
<1>1. 0 \in T
  <2> DEFINE f == [n \in 0..0 |-> State(start, <<>>, FALSE)]
  <2>1. f = [n \in 0..0 |-> IF n = 0 THEN State(start, <<>>, FALSE) ELSE ValueFrom(fixed, f[n - 1])]
    <3>1. \A n \in 0..0 : n = 0
      OBVIOUS
    <3> QED BY <3>1
  <2> QED BY <2>1 DEF ReadsOn
<1>2. ASSUME NEW n \in Nat, n \in T PROVE n + 1 \in T
  <2>1. PICK f : ReadsOn(f, fixed, start, n)
    BY <1>2
  <2> DEFINE g == [i \in 0..n + 1 |-> IF i = n + 1 THEN ValueFrom(fixed, f[n]) ELSE f[i]]
             Step(h, i) == IF i = 0 THEN State(start, <<>>, FALSE) ELSE ValueFrom(fixed, h[i - 1])
  <2>2. \A i \in 0..n : f[i] = Step(f, i)
    BY <2>1 DEF ReadsOn
  <2>3. ASSUME NEW i \in 0..n + 1 PROVE g[i] = Step(g, i)
    <3>1. CASE i = n + 1
      <4>1. g[i] = ValueFrom(fixed, f[n]) /\ g[i - 1] = f[n] /\ i # 0
        BY <3>1
      <4> HIDE DEF g
      <4> QED BY <4>1
    <3>2. CASE i # n + 1
      <4>1. i \in 0..n /\ g[i] = f[i] /\ (i # 0 => g[i - 1] = f[i - 1])
        BY <3>2
      <4> HIDE DEF g
      <4> QED BY <4>1, <2>2
    <3> QED BY <3>1, <3>2
  <2>4. g = [i \in 0..n + 1 |-> g[i]]
    OBVIOUS
  <2> HIDE DEF g
  <2>5. g = [i \in 0..n + 1 |-> Step(g, i)]
    BY <2>3, <2>4
  <2>6. ReadsOn(g, fixed, start, n + 1)
    BY <2>5 DEF ReadsOn
  <2> QED BY <2>6
<1>3. Nat \subseteq T
  <2> HIDE DEF T
  <2> QED BY <1>1, <1>2, SetInduction
<1> QED BY <1>3

IsReading(f, fixed, start, count) ==
    /\ ValuesFrom(fixed, start, count) = f[count]
    /\ f[0] = State(start, <<>>, FALSE)
    /\ \A n \in 0..count - 1 : f[n + 1] = ValueFrom(fixed, f[n])

LEMMA ValuesFromReads ==
    ASSUME NEW fixed, NEW start, NEW count \in Nat
    PROVE  \E f : IsReading(f, fixed, start, count)
<1> DEFINE f == CHOOSE f : ReadsOn(f, fixed, start, count)
<1>1. ReadsOn(f, fixed, start, count)
  BY ReadingExists
<1>2. ValuesFrom(fixed, start, count) = f[count]
  BY DEF ValuesFrom, ReadsOn, State
<1> HIDE DEF f
<1>3. \A n \in 0..count : f[n] = IF n = 0 THEN State(start, <<>>, FALSE) ELSE ValueFrom(fixed, f[n - 1])
  BY <1>1 DEF ReadsOn
<1>4. f[0] = State(start, <<>>, FALSE)
  <2>1. 0 \in 0..count
    OBVIOUS
  <2> QED BY <2>1, <1>3, Zenon
<1>5. ASSUME NEW n \in 0..count - 1 PROVE f[n + 1] = ValueFrom(fixed, f[n])
  <2>1. n + 1 \in 0..count /\ n + 1 # 0 /\ (n + 1) - 1 = n
    OBVIOUS
  <2> QED BY <2>1, <1>3
<1> QED BY <1>2, <1>4, <1>5 DEF IsReading

\* The first values of an entity, as a file keeps them.
KeptUpTo(entity, n) == [i \in 1..n |-> Kept(entity.values[i])]

LEMMA KeptType ==
    ASSUME codec \in Codecs, NEW entity \in Content, NEW n \in 0..Len(entity.values)
    PROVE  /\ KeptUpTo(entity, n) \in Seq(Element) /\ Len(KeptUpTo(entity, n)) = n
           /\ \A i \in 1..n : KeptUpTo(entity, n)[i] = Kept(entity.values[i])
<1>1. Len(entity.values) \in Nat /\ \A i \in 1..Len(entity.values) : entity.values[i] \in Element
  BY ChunksType
<1>2. \A i \in 1..n : Kept(entity.values[i]) \in Element
  BY <1>1 DEF Kept, Element
<1>3. KeptUpTo(entity, n) \in [1..n -> Element] /\ n \in Nat
  BY <1>1, <1>2 DEF KeptUpTo
<1>4. \A i \in 1..n : KeptUpTo(entity, n)[i] = Kept(entity.values[i])
  BY DEF KeptUpTo
<1> HIDE DEF KeptUpTo
<1> QED BY <1>3, <1>4, FunctionIsSeq

LEMMA KeptNext ==
    ASSUME codec \in Codecs, NEW entity \in Content, NEW n \in 0..Len(entity.values) - 1
    PROVE  Append(KeptUpTo(entity, n), Kept(entity.values[n + 1])) = KeptUpTo(entity, n + 1)
<1> DEFINE a == KeptUpTo(entity, n)
           b == KeptUpTo(entity, n + 1)
           x == Kept(entity.values[n + 1])
           c == Append(a, x)
<1>0. Len(entity.values) \in Nat /\ n \in 0..Len(entity.values) /\ n + 1 \in 0..Len(entity.values)
  BY ChunksType
<1>1. a \in Seq(Element) /\ Len(a) = n /\ \A i \in 1..n : a[i] = Kept(entity.values[i])
  BY <1>0, KeptType
<1> DEFINE m == n + 1
<1>2. m \in 0..Len(entity.values)
  BY <1>0
<1> HIDE DEF m
<1>3. /\ KeptUpTo(entity, m) \in Seq(Element) /\ Len(KeptUpTo(entity, m)) = m
      /\ \A i \in 1..m : KeptUpTo(entity, m)[i] = Kept(entity.values[i])
  BY <1>2, KeptType
<1>4. b \in Seq(Element) /\ Len(b) = n + 1 /\ \A i \in 1..n + 1 : b[i] = Kept(entity.values[i])
  BY <1>3 DEF m
<1>5. x \in Element
  <2>1. n + 1 \in 1..Len(b) /\ b[n + 1] = x
    BY <1>0, <1>4
  <2> HIDE DEF b, x
  <2> QED BY <2>1, <1>4, ElementOfSeq
<1> HIDE DEF a, b, x
<1>6. /\ c \in Seq(Element) /\ Len(c) = n + 1 /\ c[n + 1] = x /\ \A i \in 1..n : c[i] = a[i]
  BY <1>1, <1>5, AppendProperties
<1> HIDE DEF c
<1>7. \A i \in 1..n + 1 : c[i] = b[i]
  <2> TAKE i \in 1..n + 1
  <2>1. i = n + 1 \/ i \in 1..n
    BY <1>0
  <2> QED BY <2>1, <1>1, <1>4, <1>6 DEF x
<1>8. c = b
  BY <1>4, <1>6, <1>7, SeqEqual
<1> QED BY <1>8 DEF a, b, c, x

\* All values are read, or the reading fails.
LEMMA ReadingAll ==
    ASSUME codec \in Codecs, NEW entity \in Content, IsBeginning(file, Units(entity)),
           Len(entity.cells) + 3 <= Len(file)
    PROVE  LET N == Len(entity.values)
               after == ValuesFrom(codec.fixed, Len(entity.cells) + 3, N)
           IN  IF Len(file) = Len(Units(entity))
                 THEN after.failed = FALSE /\ after.values = KeptUpTo(entity, N)
               ELSE after.failed = TRUE
<1> DEFINE N == Len(entity.values)
           start == Len(entity.cells) + 3
           place(n) == PlaceOf(entity, n)
           after == ValuesFrom(codec.fixed, start, N)
<1>1. N \in Nat /\ start \in Nat /\ Len(file) \in Nat
  BY ChunksType, LenProperties DEF IsBeginning
<1>2a. PICK f : IsReading(f, codec.fixed, start, N)
  <2> HIDE DEF N, start
  <2> QED BY <1>1, ValuesFromReads
<1>2. /\ after = f[N] /\ f[0] = State(start, <<>>, FALSE)
      /\ \A n \in 0..N - 1 : f[n + 1] = ValueFrom(codec.fixed, f[n])
  BY <1>2a DEF IsReading
<1>3. /\ place(0) = start /\ place(N) = Len(Units(entity))
      /\ \A n \in 0..N - 1 : /\ place(n) \in Nat /\ place(n + 1) \in Nat /\ place(n) <= place(n + 1)
  <2>1. place(0) = start /\ place(N) = Len(Units(entity))
    BY Places
  <2>2. ASSUME NEW n \in 0..N - 1
        PROVE  place(n) \in Nat /\ place(n + 1) \in Nat /\ place(n) <= place(n + 1)
    <3>1. /\ place(n) \in Nat /\ place(n + 1) \in Nat
          /\ place(n + 1) = place(n) + Len(Chunks(entity)[n + 1])
      BY <2>2, Places DEF IsAt
    <3>2. n + 1 \in 1..Len(Chunks(entity)) /\ Chunks(entity) \in Seq(Seq(Nat))
      BY <1>1, <2>2, ChunksType
    <3>3. Chunks(entity)[n + 1] \in Seq(Nat)
      BY <3>2, ElementOfSeq
    <3>4. Len(Chunks(entity)[n + 1]) \in Nat
      BY <3>3, LenProperties
    <3> HIDE DEF place
    <3> QED BY <3>1, <3>4
  <2> QED BY <2>1, <2>2
<1> DEFINE Done(n) == IF place(n) <= Len(file) THEN f[n] = State(place(n), KeptUpTo(entity, n), FALSE)
                      ELSE \E at, values : f[n] = State(at, values, TRUE)
           T == {n \in Nat : n <= N => Done(n)}
<1>4. 0 \in T
  <2>1. KeptUpTo(entity, 0) = <<>>
    BY DEF KeptUpTo
  <2> HIDE DEF place
  <2>2. Done(0)
    BY <2>1, <1>2, <1>3
  <2> HIDE DEF Done
  <2> QED BY <2>2
<1>5. ASSUME NEW n \in Nat, n \in T PROVE n + 1 \in T
  <2> SUFFICES ASSUME n + 1 <= N PROVE Done(n + 1)
    <3> HIDE DEF Done, N
    <3> QED OBVIOUS
  <2>1. n \in 0..N - 1 /\ n <= N
    BY <1>1
  <2>2. Done(n)
    BY <1>5, <2>1
  <2>3. f[n + 1] = ValueFrom(codec.fixed, f[n])
    BY <1>2, <2>1
  <2>4. place(n) \in Nat /\ place(n + 1) \in Nat /\ place(n) <= place(n + 1)
    BY <1>3, <2>1
  <2>5. CASE place(n) <= Len(file)
    <3>1. f[n] = State(place(n), KeptUpTo(entity, n), FALSE)
      BY <2>2, <2>5
    <3>2. ValueFrom(codec.fixed, State(place(n), KeptUpTo(entity, n), FALSE)) =
             IF place(n + 1) <= Len(file)
               THEN State(place(n + 1), Append(KeptUpTo(entity, n), Kept(entity.values[n + 1])), FALSE)
             ELSE State(place(n), KeptUpTo(entity, n), TRUE)
      BY <2>1, <2>5, NextValueFrom
    <3>3. Append(KeptUpTo(entity, n), Kept(entity.values[n + 1])) = KeptUpTo(entity, n + 1)
      BY <2>1, KeptNext
    <3> HIDE DEF place
    <3> QED BY <2>3, <3>1, <3>2, <3>3
  <2>6. CASE ~(place(n) <= Len(file))
    <3>1. PICK at, values : f[n] = State(at, values, TRUE)
      BY <2>2, <2>6
    <3>2. f[n + 1] = State(at, values, TRUE)
      BY <2>3, <3>1, NoValueFrom
    <3> HIDE DEF place
    <3>3. ~(place(n + 1) <= Len(file))
      BY <2>4, <2>6, <1>1
    <3> QED BY <3>2, <3>3
  <2> QED BY <2>5, <2>6
<1>6. Done(N)
  <2>1. Nat \subseteq T
    <3> HIDE DEF T
    <3> QED BY <1>4, <1>5, SetInduction
  <2> HIDE DEF Done
  <2> QED BY <2>1, <1>1
<1>7. Len(Units(entity)) \in Nat /\ Len(file) <= Len(Units(entity))
  BY UnitsLayout, LenProperties DEF IsBeginning
<1>8. CASE Len(file) = Len(Units(entity))
  <2>1. after = State(place(N), KeptUpTo(entity, N), FALSE)
    BY <1>2, <1>3, <1>6, <1>7, <1>8
  <2>2. after.failed = FALSE /\ after.values = KeptUpTo(entity, N)
    <3> HIDE DEF after, place
    <3>1. /\ State(place(N), KeptUpTo(entity, N), FALSE).failed = FALSE
          /\ State(place(N), KeptUpTo(entity, N), FALSE).values = KeptUpTo(entity, N)
      BY DEF State
    <3> QED BY <2>1, <3>1
  <2> QED BY <2>2, <1>8
<1>9. CASE Len(file) # Len(Units(entity))
  <2>1. ~(place(N) <= Len(file))
    <3> HIDE DEF place
    <3> QED BY <1>1, <1>3, <1>7, <1>9
  <2>2. PICK at, values : after = State(at, values, TRUE)
    BY <1>2, <1>6, <2>1
  <2>3. after.failed = TRUE
    <3> HIDE DEF after
    <3>1. State(at, values, TRUE).failed = TRUE
      BY DEF State
    <3> QED BY <2>2, <3>1
  <2> QED BY <2>3, <1>9
<1> QED BY <1>8, <1>9

LEMMA DeserializedIs ==
    ASSUME codec \in Codecs, NEW entity \in Content, IsBeginning(file, Units(entity))
    PROVE  IF Len(file) = Len(Units(entity))
             THEN /\ Deserialized.failed = FALSE /\ Deserialized.cells = entity.cells
                  /\ Deserialized.values = KeptUpTo(entity, Len(entity.values))
           ELSE Deserialized.failed = TRUE
<1> DEFINE units == Units(entity)
           C == Len(entity.cells)
<1>0. C \in Nat /\ Len(file) \in Nat
  BY ChunksType, LenProperties DEF IsBeginning
<1>1. /\ C \in Nat /\ file \in Seq(Nat) /\ Len(file) \in Nat /\ Len(entity.values) \in Nat
      /\ units \in Seq(Nat) /\ Len(units) \in Nat /\ Len(units) >= C + 3 /\ Len(file) <= Len(units)
      /\ units[1] = C /\ units[C + 2] = Len(entity.values) /\ units[C + 3] = codec.fixed
      /\ \A i \in 1..C : units[1 + i] = entity.cells[i]
      /\ \A i \in 1..Len(file) : file[i] = units[i]
  BY ChunksType, UnitsLayout, LenProperties DEF IsBeginning, IsLaidOut
<1>2. CASE Len(file) = 0
  <2>1. file = <<>>
    BY <1>1, <1>2, EmptySeq
  <2>2. Deserialized.failed = TRUE
    BY <2>1 DEF Deserialized
  <2>3. Len(file) # Len(units)
    BY <1>1, <1>2
  <2> QED BY <2>2, <2>3
<1>3. CASE Len(file) # 0 /\ Len(file) < C + 3
  <2>1. file # <<>> /\ file[1] = C
    <3>1. 1 \in 1..Len(file)
      BY <1>1, <1>3
    <3> QED BY <3>1, <1>1, <1>3, EmptySeq
  <2>2. Deserialized.failed = TRUE
    BY <2>1, <1>3 DEF Deserialized
  <2>3. Len(file) # Len(units)
    BY <1>1, <1>3
  <2> QED BY <2>2, <2>3
<1>4. CASE Len(file) # 0 /\ C + 3 <= Len(file)
  <2>1. file # <<>> /\ file[1] = C /\ file[C + 2] = Len(entity.values) /\ file[C + 3] = codec.fixed
    <3>1. 1 \in 1..Len(file) /\ C + 2 \in 1..Len(file) /\ C + 3 \in 1..Len(file)
      BY <1>0, <1>4
    <3> QED BY <3>1, <1>1, <1>4, EmptySeq
  <2> DEFINE after == ValuesFrom(codec.fixed, C + 3, Len(entity.values))
  <2>2. IF Len(file) = Len(units)
          THEN after.failed = FALSE /\ after.values = KeptUpTo(entity, Len(entity.values))
        ELSE after.failed = TRUE
    BY <1>4, ReadingAll
  <2> HIDE DEF after
  <2>3. /\ Deserialized.failed = after.failed /\ Deserialized.values = after.values
        /\ Deserialized.cells = SubSeq(file, 2, C + 1)
    <3>1. ~(file = <<>> \/ Len(file) < C + 3)
      BY <2>1, <1>1, <1>4
    <3> QED BY <3>1, <2>1 DEF Deserialized, after
  <2>4. SubSeq(file, 2, C + 1) = entity.cells
    <3> DEFINE cells == entity.cells
               to == C + 1
    <3>1. cells \in Seq(Nat)
      <4>1. cells \in Seq(WordType) /\ WordType \subseteq Nat
        BY DEF Content, WordType
      <4> QED BY <4>1, SeqMonotonic
    <3>2. /\ 1 \in Nat /\ to \in Nat /\ 1 <= to /\ to <= Len(file) /\ Len(cells) = to - 1
      BY <1>0, <1>4
    <3>3. \A k \in 1..Len(cells) : units[1 + k] = cells[k]
      BY <1>1
    <3> HIDE DEF to, cells
    <3>4. SubSeq(file, 1 + 1, to) = cells
      BY <1>1, <3>1, <3>2, <3>3, ReadPart
    <3> QED BY <3>4 DEF to, cells
  <2> QED BY <2>2, <2>3, <2>4
<1>5. Len(file) = 0 \/ (Len(file) # 0 /\ Len(file) < C + 3) \/ (Len(file) # 0 /\ C + 3 <= Len(file))
  BY <1>0
<1> QED BY <1>2, <1>3, <1>4, <1>5

-----------------------------------------------------------------------------
(* The inductive invariant                                                 *)

MemoryInv ==
    /\ codec \in Codecs /\ entities \in Seq(Content)
    /\ storages \in Seq([kind : {"memory", "shared"}, entity : 1..Len(entities)])

\* The file is the beginning of what was to be written.
FileInv ==
    /\ written \in [length : Nat, entity : Content] /\ file \in Seq(Nat)
    /\ written.length = 0 => file = <<>>
    /\ written.length # 0 => /\ written.length = Len(Units(written.entity))
                             /\ IsBeginning(file, Units(written.entity))

\* What the constructor has found in the file.
MappedInv ==
    /\ mapped \in [state : {"none", "opening", "open", "refused", "broken"},
                   capacity : Nat, offset : Nat]
    /\ mapped.state # "none" => mapped.capacity > 0 /\ written.length # 0
    /\ mapped.state \in {"none", "opening", "refused"} => orders = <<>>
    /\ mapped.state = "open" => Header = "read"
    /\ mapped.state = "refused" => Header = "failed"
    /\ mapped.state = "broken" => mapped.offset > 0

\* The list has what the map has, the last index asked for first, and the map has
\* what the file has.
CacheInv ==
    /\ orders \in Seq(Nat) /\ IsInjective(orders) /\ Len(orders) <= mapped.capacity
    /\ Range(orders) = DOMAIN cache /\ recent = orders
    /\ \A i \in DOMAIN cache :
          cache[i] = ValueInFile(i) /\ Reached(ValuePlace(i), FixedSize) = "read"

IInv == MemoryInv /\ FileInv /\ MappedInv /\ CacheInv

fileVars == <<codec, file, written>>

LEMMA FileInvStays == FileInv /\ UNCHANGED fileVars => FileInv'
BY DEF FileInv, fileVars, Content, Element, WordType, Units, ValueUnits, ToValue, Uninitialized, IsBeginning

LEMMA MappedInvStays == MappedInv /\ UNCHANGED <<fileVars, mapped, orders>> => MappedInv'
BY DEF MappedInv, fileVars, Header, Reached, CellCount, FixedSize

LEMMA CacheInvStays == CacheInv /\ UNCHANGED <<fileVars, mapped, cacheVars>> => CacheInv'
BY DEF CacheInv, fileVars, cacheVars, ValueInFile, Reached, ValuePlace, CellCount, FixedSize, FromValue

-----------------------------------------------------------------------------
(* The storages in memory                                                  *)

LEMMA EntityOfStorage ==
    ASSUME MemoryInv, NEW s \in DOMAIN storages
    PROVE  /\ s \in 1..Len(storages) /\ storages[s].entity \in 1..Len(entities)
           /\ Entity(s) = entities[storages[s].entity] /\ Entity(s) \in Content
           /\ storages[s].kind \in {"memory", "shared"}
           /\ storages[s] \in [kind : {"memory", "shared"}, entity : 1..Len(entities)]
<1>1. s \in 1..Len(storages)
  BY LenProperties DEF MemoryInv
<1>2. storages[s] \in [kind : {"memory", "shared"}, entity : 1..Len(entities)]
  BY <1>1, ElementOfSeq DEF MemoryInv
<1>3. storages[s].entity \in 1..Len(entities)
  BY <1>2
<1>4. entities[storages[s].entity] \in Content
  BY <1>3, ElementOfSeq DEF MemoryInv
<1> QED BY <1>1, <1>2, <1>3, <1>4 DEF Entity

LEMMA EntityPreserves ==
    ASSUME MemoryInv, NEW s \in DOMAIN storages, NEW entity \in Content,
           entities' = [entities EXCEPT ![storages[s].entity] = entity],
           UNCHANGED <<codec, storages>>
    PROVE  MemoryInv'
<1> DEFINE n == storages[s].entity
           new == [entities EXCEPT ![n] = entity]
<1>1. n \in 1..Len(entities) /\ entities \in Seq(Content)
  BY EntityOfStorage DEF MemoryInv
<1>2. entities \in [1..Len(entities) -> Content] /\ Len(entities) \in Nat
  BY <1>1, LenProperties
<1>3. entities' = new /\ codec' = codec /\ storages' = storages
  OBVIOUS
<1> HIDE DEF n
<1>4. new \in [1..Len(entities) -> Content]
  BY <1>1, <1>2
<1> HIDE DEF new
<1>5. new \in Seq(Content) /\ Len(new) = Len(entities)
  BY <1>2, <1>4, FunctionIsSeq
<1>6. Content' = Content
  BY <1>3 DEF Content, Element, WordType
<1> QED BY <1>3, <1>5, <1>6 DEF MemoryInv

LEMMA InEntityPreserves ==
    ASSUME MemoryInv, NEW s \in DOMAIN storages, NEW entity \in Content, InEntity(s, entity)
    PROVE  MemoryInv'
BY EntityPreserves DEF InEntity

\* The word of an index, which is vacant behind the end of the array.
LEMMA WordAtIs ==
    ASSUME MemoryInv, NEW s \in DOMAIN storages, NEW index \in Nat
    PROVE  WordAt(s, index) \in WordType
<1>1. Entity(s) \in Content /\ Entity(s) = entities[storages[s].entity]
  BY EntityOfStorage
<1>2. Entity(s).cells \in Seq(WordType)
  BY <1>1 DEF Content
<1>3. CASE index < Len(Entity(s).cells)
  <2>1. index + 1 \in 1..Len(Entity(s).cells)
    BY <1>2, <1>3, LenProperties
  <2>2. Entity(s).cells[index + 1] \in WordType
    BY <1>2, <2>1, ElementOfSeq
  <2> QED BY <2>2, <1>1, <1>3 DEF WordAt
<1>4. CASE ~(index < Len(Entity(s).cells))
  BY <1>1, <1>4, VacantParts DEF WordAt
<1> QED BY <1>3, <1>4

\* What the three operations that set something make of an entity.
LEMMA ChangedEntities ==
    ASSUME MemoryInv, NEW s \in DOMAIN storages, NEW index \in Nat
    PROVE  /\ \A word \in WordType :
                 /\ Replaced(Entity(s).cells, index, VacantWord, word) \in Seq(WordType)
                 /\ [Entity(s) EXCEPT !.cells = Replaced(@, index, VacantWord, word)] \in Content
           /\ \A value \in codec.objects :
                 /\ Replaced(Entity(s).values, index, <<>>, <<value>>) \in Seq(Element)
                 /\ [Entity(s) EXCEPT !.values = Replaced(@, index, <<>>, <<value>>)] \in Content
           /\ Grown(Entity(s).cells, index + 1, VacantWord) \in Seq(WordType)
           /\ [Entity(s) EXCEPT !.cells = Grown(@, index + 1, VacantWord)] \in Content
<1> DEFINE e == Entity(s)
<1>1. /\ e \in Content /\ e.cells \in Seq(WordType) /\ e.values \in Seq(Element)
      /\ VacantWord \in WordType /\ <<>> \in Element
  BY EntityOfStorage, VacantParts DEF Content, Element
<1> HIDE DEF e
<1>2. /\ \A cells \in Seq(WordType) : [e EXCEPT !.cells = cells] \in Content
      /\ \A values \in Seq(Element) : [e EXCEPT !.values = values] \in Content
  BY <1>1 DEF Content
<1>3. ASSUME NEW word \in WordType
      PROVE  Replaced(e.cells, index, VacantWord, word) \in Seq(WordType)
  BY <1>1, ReplacedProperties
<1>4. ASSUME NEW value \in codec.objects
      PROVE  Replaced(e.values, index, <<>>, <<value>>) \in Seq(Element)
  <2>1. <<value>> \in Element
    BY DEF Element
  <2> QED BY <1>1, <2>1, ReplacedProperties
<1>5. Grown(e.cells, index + 1, VacantWord) \in Seq(WordType)
  <2> DEFINE size == index + 1
  <2>1. size \in Nat
    OBVIOUS
  <2> HIDE DEF size
  <2>2. Grown(e.cells, size, VacantWord) \in Seq(WordType)
    BY <1>1, <2>1, GrownProperties
  <2> QED BY <2>2 DEF size
<1> QED BY <1>2, <1>3, <1>4, <1>5 DEF e

LEMMA LookAtEntities ==
    ASSUME MemoryInv, NEW s \in DOMAIN storages, NEW index \in Nat, LookAt(s, index)
    PROVE  /\ entities' = [entities EXCEPT ![storages[s].entity] =
                             [Entity(s) EXCEPT !.cells = Grown(@, index + 1, VacantWord)]]
           /\ UNCHANGED <<codec, storages, file, written, mapped, cacheVars>>
<1>1. entities \in [1..Len(entities) -> Content] /\ storages[s].entity \in 1..Len(entities)
  BY EntityOfStorage, LenProperties DEF MemoryInv
<1> QED BY <1>1 DEF LookAt, Entity

\* One more entity or storage.
LEMMA MoreEntities ==
    ASSUME MemoryInv, NEW entity \in Content, codec' = codec,
           entities' = Append(entities, entity)
    PROVE  entities' \in Seq(Content)' /\ Len(entities') = Len(entities) + 1 /\ Len(entities) \in Nat
<1>1. entities \in Seq(Content) /\ Content' = Content
  BY DEF MemoryInv, Content, Element, WordType
<1> QED BY <1>1, AppendProperties, LenProperties

LEMMA MoreStorages ==
    ASSUME MemoryInv, codec' = codec, entities' \in Seq(Content)', Len(entities') >= Len(entities),
           Len(entities') \in Nat, Len(entities) \in Nat,
           NEW storage \in [kind : {"memory", "shared"}, entity : 1..Len(entities')],
           storages' = Append(storages, storage)
    PROVE  MemoryInv'
<1> DEFINE S == [kind : {"memory", "shared"}, entity : 1..Len(entities)]
           T == [kind : {"memory", "shared"}, entity : 1..Len(entities')]
<1>1. storages \in Seq(S) /\ S \subseteq T
  BY DEF MemoryInv
<1> HIDE DEF S, T
<1>2. storages \in Seq(T)
  BY <1>1, SeqMonotonic
<1>3. storage \in T
  BY DEF T
<1>4. storages' \in Seq(T)
  BY <1>2, <1>3, AppendProperties
<1> QED BY <1>4 DEF MemoryInv, T

memoryFrame == <<fileVars, mapped, cacheVars>>

LEMMA ClonePreserves ==
    ASSUME MemoryInv, NEW s \in DOMAIN storages, Clone(s)
    PROVE  MemoryInv' /\ UNCHANGED memoryFrame
<1>1. UNCHANGED memoryFrame /\ codec' = codec
  BY DEF Clone, memoryFrame, fileVars
<1>2. Entity(s) \in Content /\ Len(entities) \in Nat
      /\ storages[s] \in [kind : {"memory", "shared"}, entity : 1..Len(entities)]
  BY EntityOfStorage, LenProperties DEF MemoryInv
<1>3. CASE storages[s].kind = "shared"
  <2>1. entities' = entities /\ storages' = Append(storages, storages[s])
    BY <1>3 DEF Clone
  <2>2. entities' \in Seq(Content)' /\ Len(entities') = Len(entities)
    BY <2>1, <1>1 DEF MemoryInv, Content, Element, WordType
  <2> QED BY <1>1, <1>2, <2>1, <2>2, MoreStorages
<1>4. CASE storages[s].kind # "shared"
  <2> DEFINE storage == [kind |-> "memory", entity |-> Len(entities) + 1]
  <2>1. entities' = Append(entities, Entity(s)) /\ storages' = Append(storages, storage)
    BY <1>4 DEF Clone
  <2>2. entities' \in Seq(Content)' /\ Len(entities') = Len(entities) + 1
    BY <1>1, <1>2, <2>1, MoreEntities
  <2>3. /\ storage \in [kind : {"memory", "shared"}, entity : 1..Len(entities')]
        /\ Len(entities') \in Nat /\ Len(entities') >= Len(entities)
    BY <1>2, <2>2
  <2> HIDE DEF storage
  <2> QED BY <1>1, <1>2, <2>1, <2>2, <2>3, MoreStorages
<1> QED BY <1>3, <1>4, <1>1

LEMMA DestroyPreserves ==
    ASSUME MemoryInv, DestroyAll
    PROVE  MemoryInv' /\ UNCHANGED memoryFrame
<1>1. UNCHANGED memoryFrame /\ codec' = codec /\ entities' = <<>> /\ storages' = <<>>
  BY DEF DestroyAll, memoryFrame, fileVars
<1> QED BY <1>1, EmptySeq DEF MemoryInv

\* What is loaded is what was written, if all of it is there.
LEMMA LoadedIs ==
    ASSUME MemoryInv, FileInv, written.length # 0, ~Deserialized.failed
    PROVE  /\ Len(file) = written.length
           /\ Deserialized.cells = written.entity.cells
           /\ Deserialized.values = KeptUpTo(written.entity, Len(written.entity.values))
           /\ [cells |-> Deserialized.cells, values |-> Deserialized.values] \in Content
<1> DEFINE e == written.entity
<1>1. /\ codec \in Codecs /\ e \in Content /\ IsBeginning(file, Units(e))
      /\ written.length = Len(Units(e))
  BY DEF MemoryInv, FileInv
<1>2. /\ Len(file) = Len(Units(e)) /\ Deserialized.cells = e.cells
      /\ Deserialized.values = KeptUpTo(e, Len(e.values))
  BY <1>1, DeserializedIs
<1>3. KeptUpTo(e, Len(e.values)) \in Seq(Element)
  <2>1. Len(e.values) \in 0..Len(e.values)
    BY <1>1, ChunksType
  <2> QED BY <1>1, <2>1, KeptType
<1>4. e.cells \in Seq(WordType)
  BY <1>1 DEF Content
<1> HIDE DEF e
<1>5. [cells |-> e.cells, values |-> KeptUpTo(e, Len(e.values))] \in Content
  BY <1>3, <1>4 DEF Content
<1> QED BY <1>1, <1>2, <1>5 DEF e

LEMMA LoadPreserves ==
    ASSUME MemoryInv, FileInv, NEW kind \in {"memory", "shared"}, Load(kind)
    PROVE  MemoryInv' /\ UNCHANGED memoryFrame
<1>1. UNCHANGED memoryFrame /\ codec' = codec
  BY DEF Load, memoryFrame, fileVars
<1>2. written.length # 0 /\ Len(entities) \in Nat
  BY LenProperties DEF Load, FileInv, MemoryInv
<1>3. CASE Deserialized.failed
  <2>1. UNCHANGED <<codec, entities, storages>>
    BY <1>1, <1>3 DEF Load
  <2> QED BY <2>1, <1>1 DEF MemoryInv, Content, Element, WordType
<1>4. CASE ~Deserialized.failed
  <2> DEFINE entity == [cells |-> Deserialized.cells, values |-> Deserialized.values]
             storage == [kind |-> kind, entity |-> Len(entities) + 1]
  <2>1. entities' = Append(entities, entity) /\ storages' = Append(storages, storage)
    BY <1>4 DEF Load
  <2>2. entity \in Content
    BY <1>2, <1>4, LoadedIs
  <2> HIDE DEF entity
  <2>3. entities' \in Seq(Content)' /\ Len(entities') = Len(entities) + 1
    BY <1>1, <2>1, <2>2, MoreEntities
  <2>4. /\ storage \in [kind : {"memory", "shared"}, entity : 1..Len(entities')]
        /\ Len(entities') \in Nat /\ Len(entities') >= Len(entities)
    BY <1>2, <2>3
  <2> HIDE DEF storage
  <2> QED BY <1>1, <1>2, <2>1, <2>3, <2>4, MoreStorages
<1> QED BY <1>3, <1>4, <1>1

-----------------------------------------------------------------------------
(* The file and what is mapped                                             *)

LEMMA SerializePreserves ==
    ASSUME MemoryInv, NEW s \in DOMAIN storages, Serialize(s)
    PROVE  FileInv'
<1> DEFINE e == Entity(s)
           units == Units(e)
<1>1. e \in Content /\ codec \in Codecs /\ codec' = codec
  BY EntityOfStorage DEF MemoryInv, Serialize, memoryVars
<1>2. /\ units \in Seq(Nat) /\ Len(units) \in Nat /\ Len(units) # 0
  <2>1. /\ units \in Seq(Nat) /\ Len(FlattenSeq(Chunks(e))) \in Nat /\ Len(e.cells) \in Nat
        /\ Len(units) = Len(e.cells) + 3 + Len(FlattenSeq(Chunks(e)))
    BY <1>1, UnitsLayout, ChunksType DEF IsLaidOut
  <2> HIDE DEF e, units
  <2> QED BY <2>1
<1>3. PICK size \in 0..Len(units) : file' = SubSeq(units, 1, size)
  BY DEF Serialize
<1>4. written' = [length |-> Len(units), entity |-> e]
  BY DEF Serialize
<1> HIDE DEF e, units
<1>5. file' \in Seq(Nat) /\ IsPart(file', units, 0, size)
  <2>1. 0 \in Nat /\ size \in Nat /\ 0 <= size /\ size <= Len(units)
    BY <1>2
  <2>2. SubSeq(units, 0 + 1, size) \in Seq(Nat) /\ IsPart(SubSeq(units, 0 + 1, size), units, 0, size)
    BY <1>2, <2>1, PartProperties
  <2>3. file' = SubSeq(units, 0 + 1, size)
    BY <1>3
  <2> QED BY <2>2, <2>3
<1>6. /\ Len(file') = size /\ \A i \in 1..size : file'[i] = units[i]
  <2>1. size - 0 = size /\ \A i \in 1..size : 0 + i = i
    BY <1>2
  <2> QED BY <1>5, <2>1 DEF IsPart
<1>7. Units(written.entity)' = units
  <2>1. written'.entity = e
    BY <1>4
  <2> QED BY <1>1, <2>1 DEF Units, ValueUnits, ToValue, Uninitialized, units
<1>8. Content' = Content
  BY <1>1 DEF Content, Element, WordType
<1>9. /\ written' \in [length : Nat, entity : Content] /\ written'.length = Len(units)
  BY <1>1, <1>2, <1>4
<1>10. IsBeginning(file, Units(written.entity))'
  BY <1>2, <1>5, <1>6, <1>7 DEF IsBeginning
<1> QED BY <1>2, <1>5, <1>7, <1>8, <1>9, <1>10 DEF FileInv

\* What can be read lies before the end of the file, and only a content offset lets
\* one read behind it.
LEMMA ReachedIs ==
    ASSUME FileInv, MappedInv, NEW at \in Nat, NEW size \in Nat
    PROVE  /\ Reached(at, size) = "read" <=> at + size <= Len(file)
           /\ Reached(at, size) = "outside" => mapped.offset > 0 /\ at + size > Len(file)
           /\ Reached(at, size) = "failed" => at + size > Len(file)
           /\ Reached(at, size) \in {"read", "outside", "failed"}
<1>1. Len(file) \in Nat /\ mapped.offset \in Nat
  BY LenProperties DEF FileInv, MappedInv
<1> DEFINE offset == mapped.offset
           length == Len(file)
           end == at + size
<1>2. length \in Nat /\ offset \in Nat /\ end \in Nat
  BY <1>1
<1>3. Reached(at, size) = IF end > offset + length THEN "failed"
                          ELSE IF end > length THEN "outside" ELSE "read"
  BY DEF Reached
<1> HIDE DEF offset, length, end
<1>4. CASE end > offset + length
  BY <1>2, <1>3, <1>4 DEF end, offset, length
<1>5. CASE ~(end > offset + length) /\ end > length
  BY <1>2, <1>3, <1>5 DEF end, offset, length
<1>6. CASE ~(end > offset + length) /\ ~(end > length)
  BY <1>2, <1>3, <1>6 DEF end, offset, length
<1> QED BY <1>4, <1>5, <1>6

\* What the first words of the file are.
LEMMA FirstWords ==
    ASSUME MemoryInv, FileInv, written.length # 0
    PROVE  /\ Len(file) >= 1 => CellCount = Len(written.entity.cells) /\ CellCount \in Nat
           /\ Len(file) >= CellCount + 3 /\ CellCount \in Nat => FixedSize = codec.fixed
           /\ Len(written.entity.cells) \in Nat /\ codec.fixed \in Nat /\ Len(file) \in Nat
           /\ Len(file) <= written.length /\ written.length >= Len(written.entity.cells) + 3
           /\ written.length \in Nat
<1> DEFINE e == written.entity
           units == Units(e)
           C == Len(e.cells)
<1>1. /\ codec \in Codecs /\ e \in Content /\ IsBeginning(file, units) /\ written.length = Len(units)
      /\ Len(file) \in Nat
  BY LenProperties DEF MemoryInv, FileInv
<1>2. /\ C \in Nat /\ codec.fixed \in Nat /\ Len(FlattenSeq(Chunks(e))) \in Nat
      /\ Len(units) = C + 3 + Len(FlattenSeq(Chunks(e)))
      /\ units[1] = C /\ units[C + 3] = codec.fixed
  BY <1>1, UnitsLayout, ChunksType, CodecFacts DEF IsLaidOut
<1>3. Len(file) <= Len(units) /\ \A i \in 1..Len(file) : file[i] = units[i]
  BY <1>1 DEF IsBeginning
<1> HIDE DEF units, C
<1>4. ASSUME Len(file) >= 1 PROVE CellCount = C
  <2>1. 1 \in 1..Len(file)
    BY <1>1, <1>4
  <2> QED BY <2>1, <1>2, <1>3 DEF CellCount
<1>5. ASSUME Len(file) >= CellCount + 3, CellCount \in Nat PROVE FixedSize = codec.fixed
  <2>1. CellCount = C
    BY <1>1, <1>4, <1>5
  <2>2. C + 3 \in 1..Len(file)
    BY <1>1, <1>2, <1>5, <2>1
  <2> QED BY <2>1, <2>2, <1>2, <1>3 DEF FixedSize
<1>6. Len(units) \in Nat /\ Len(units) >= C + 3
  BY <1>2
<1> QED BY <1>1, <1>2, <1>3, <1>4, <1>5, <1>6 DEF C

\* What the constructor has found.
LEMMA HeaderIs ==
    ASSUME MemoryInv, FileInv, MappedInv, written.length # 0
    PROVE  /\ Header \in {"read", "failed", "outside"}
           /\ Header = "read" => /\ CellCount = Len(written.entity.cells) /\ CellCount \in Nat
                                 /\ FixedSize = codec.fixed /\ FixedSize > 0 /\ FixedSize \in Nat
           /\ Header = "outside" => mapped.offset > 0
           /\ Header = "failed" => codec.fixed = 0 \/ Len(file) < written.length
<1>0. /\ Len(file) >= 1 => CellCount = Len(written.entity.cells) /\ CellCount \in Nat
      /\ Len(file) >= CellCount + 3 /\ CellCount \in Nat => FixedSize = codec.fixed
      /\ Len(written.entity.cells) \in Nat /\ codec.fixed \in Nat /\ Len(file) \in Nat
      /\ Len(file) <= written.length /\ written.length >= Len(written.entity.cells) + 3
      /\ written.length \in Nat
  BY FirstWords
<1>1. /\ Reached(0, 1) = "read" <=> 0 + 1 <= Len(file)
      /\ Reached(0, 1) = "outside" => mapped.offset > 0
      /\ Reached(0, 1) = "failed" => 0 + 1 > Len(file)
      /\ Reached(0, 1) \in {"read", "outside", "failed"}
  <2>1. 0 \in Nat /\ 1 \in Nat
    OBVIOUS
  <2> QED BY <2>1, ReachedIs
<1>2. CASE Reached(0, 1) # "read"
  <2>1. Header = Reached(0, 1)
    BY <1>2 DEF Header
  <2>2. Reached(0, 1) = "failed" => Len(file) < written.length
    BY <1>0, <1>1
  <2> QED BY <2>1, <2>2, <1>1, <1>2
<1>3. CASE Reached(0, 1) = "read"
  <2> DEFINE at == CellCount + 2
  <2>1. CellCount = Len(written.entity.cells) /\ CellCount \in Nat /\ at \in Nat /\ 1 \in Nat
    BY <1>0, <1>1, <1>3
  <2> HIDE DEF at
  <2>2. /\ Reached(at, 1) = "read" <=> at + 1 <= Len(file)
        /\ Reached(at, 1) = "outside" => mapped.offset > 0
        /\ Reached(at, 1) = "failed" => at + 1 > Len(file)
        /\ Reached(at, 1) \in {"read", "outside", "failed"}
    BY <2>1, ReachedIs
  <2>3. Header = IF Reached(at, 1) # "read" THEN Reached(at, 1)
                 ELSE IF FixedSize = 0 THEN "failed" ELSE "read"
    BY <1>3 DEF Header, at
  <2>4. CASE Reached(at, 1) # "read"
    <3>1. Header = Reached(at, 1)
      BY <2>3, <2>4
    <3>2. Reached(at, 1) = "failed" => Len(file) < written.length
      BY <1>0, <2>1, <2>2 DEF at
    <3> QED BY <3>1, <3>2, <2>2, <2>4
  <2>5. CASE Reached(at, 1) = "read"
    <3>1. FixedSize = codec.fixed
      BY <1>0, <2>1, <2>2, <2>5 DEF at
    <3>2. Header = IF FixedSize = 0 THEN "failed" ELSE "read"
      BY <2>3, <2>5
    <3>3. codec.fixed \in Nat /\ (codec.fixed = 0 \/ codec.fixed > 0)
      BY <1>0
    <3> QED BY <2>1, <3>1, <3>2, <3>3
  <2> QED BY <2>4, <2>5
<1> QED BY <1>2, <1>3

LEMMA MapPreserves ==
    ASSUME MemoryInv, FileInv, MappedInv, CacheInv,
           NEW capacity \in Capacities, NEW offset \in ContentOffsets, Map(capacity, offset)
    PROVE  MappedInv' /\ CacheInv'
<1>1. /\ capacity \in Nat /\ capacity > 0 /\ offset \in Nat
      /\ mapped' = [state |-> "opening", capacity |-> capacity, offset |-> offset]
      /\ UNCHANGED <<memoryVars, file, written, cacheVars>> /\ written.length # 0 /\ orders = <<>>
  BY MappingAssumption DEF Map, MappedInv, FileInv
<1>2. MappedInv'
  BY <1>1 DEF MappedInv, cacheVars
<1>3. Len(orders) = 0 /\ DOMAIN cache = {}
  <2>1. Len(<<>>) = 0 /\ DOMAIN <<>> = {}
    OBVIOUS
  <2> QED BY <2>1, <1>1 DEF CacheInv, Range
<1>4. CacheInv'
  BY <1>1, <1>3 DEF CacheInv, cacheVars
<1> QED BY <1>2, <1>4

LEMMA ReadHeaderPreserves ==
    ASSUME MemoryInv, FileInv, MappedInv, CacheInv, ReadHeader
    PROVE  MappedInv' /\ CacheInv'
<1>1. /\ mapped.state = "opening" /\ written.length # 0 /\ mapped.capacity > 0 /\ orders = <<>>
      /\ UNCHANGED <<memoryVars, file, written, cacheVars>>
  BY DEF ReadHeader, MappedInv
<1>2. mapped' = [mapped EXCEPT !.state = IF Header = "read" THEN "open"
                                         ELSE IF Header = "failed" THEN "refused" ELSE "broken"]
  BY DEF ReadHeader
<1>3. /\ mapped'.capacity = mapped.capacity /\ mapped'.offset = mapped.offset
      /\ mapped'.state = IF Header = "read" THEN "open"
                         ELSE IF Header = "failed" THEN "refused" ELSE "broken"
      /\ mapped' \in [state : {"none", "opening", "open", "refused", "broken"},
                      capacity : Nat, offset : Nat]
  BY <1>2 DEF MappedInv
<1>4. Header' = Header
  BY <1>1, <1>3 DEF Header, Reached, CellCount, FixedSize
<1>5. Header \in {"read", "failed", "outside"} /\ (Header = "outside" => mapped.offset > 0)
  BY <1>1, HeaderIs
<1>6. MappedInv'
  BY <1>1, <1>3, <1>4, <1>5 DEF MappedInv, cacheVars
<1>7. CacheInv'
  BY <1>1, <1>3 DEF CacheInv, cacheVars, memoryVars, ValueInFile, Reached, ValuePlace, CellCount,
     FixedSize, FromValue
<1> QED BY <1>6, <1>7

LEMMA BeyondPreserves ==
    ASSUME MemoryInv, FileInv, MappedInv, CacheInv, NEW index \in ValueIndex, Beyond(index)
    PROVE  MappedInv' /\ CacheInv'
<1>1. /\ mapped.state = "open" /\ written.length # 0 /\ mapped.capacity > 0 /\ Header = "read"
      /\ UNCHANGED <<memoryVars, file, written, cacheVars>>
      /\ mapped' = [mapped EXCEPT !.state = "broken"]
  BY DEF Beyond, MappedInv
<1>2. /\ mapped'.capacity = mapped.capacity /\ mapped'.offset = mapped.offset
      /\ mapped'.state = "broken"
      /\ mapped' \in [state : {"none", "opening", "open", "refused", "broken"},
                      capacity : Nat, offset : Nat]
  BY <1>1 DEF MappedInv
<1>3. mapped.offset > 0
  <2>1. CellCount \in Nat /\ FixedSize \in Nat /\ index \in Nat
    BY <1>1, HeaderIs, IndexAssumption
  <2>2. ValuePlace(index) \in Nat
    <3>1. FixedSize * index \in Nat
      BY <2>1, SMT
    <3> QED BY <3>1, <2>1 DEF ValuePlace
  <2> QED BY <2>1, <2>2, ReachedIs DEF Beyond
<1>4. MappedInv'
  BY <1>1, <1>2, <1>3 DEF MappedInv, cacheVars
<1>5. CacheInv'
  BY <1>1, <1>2 DEF CacheInv, cacheVars, memoryVars, ValueInFile, Reached, ValuePlace, CellCount,
     FixedSize, FromValue
<1> QED BY <1>4, <1>5

LEMMA HitPreserves ==
    ASSUME MappedInv, CacheInv, NEW index \in ValueIndex, Hit(index)
    PROVE  MappedInv' /\ CacheInv'
<1>1. /\ mapped.state = "open" /\ index \in Range(orders) /\ index \in Nat
      /\ UNCHANGED <<memoryVars, file, written, mapped, cache>>
      /\ orders' = <<index>> \o RemoveFirst(orders, index)
      /\ recent' = Newest(<<index>> \o RemoveFirst(orders, index), mapped.capacity)
  BY IndexAssumption DEF Hit, CacheInv, Touched, Recently
<1>2. /\ orders \in Seq(Nat) /\ IsInjective(orders) /\ Len(orders) <= mapped.capacity
      /\ mapped.capacity \in Nat /\ Len(orders) \in Nat
  BY LenProperties DEF CacheInv, MappedInv
<1> DEFINE rest == RemoveFirst(orders, index)
           new == <<index>> \o rest
<1>3. /\ rest \in Seq(Nat) /\ IsInjective(rest) /\ Range(rest) = Range(orders) \ {index}
      /\ Len(rest) = Len(orders) - 1
  BY <1>1, <1>2, RemoveDistinct
<1> HIDE DEF rest
<1>4. /\ new \in Seq(Nat) /\ Len(new) = Len(rest) + 1 /\ IsInjective(new)
      /\ Range(new) = {index} \cup Range(rest)
  BY <1>1, <1>3, PrependDistinct
<1> HIDE DEF new
<1>5. Len(new) = Len(orders) /\ Range(new) = Range(orders)
  BY <1>1, <1>2, <1>3, <1>4
<1>6. Newest(new, mapped.capacity) = new
  <2> DEFINE kept == Newest(new, mapped.capacity)
  <2>1. /\ kept \in Seq(Nat) /\ Len(kept) = IF mapped.capacity < Len(new) THEN mapped.capacity ELSE Len(new)
        /\ \A i \in 1..Len(kept) : kept[i] = new[i]
    BY <1>2, <1>4, NewestProperties
  <2> HIDE DEF kept
  <2>2. Len(kept) = Len(new)
    BY <2>1, <1>2, <1>5
  <2>3. kept = new
    BY <2>1, <2>2, <1>4, SeqEqual
  <2> QED BY <2>3 DEF kept
<1>7. orders' = new /\ recent' = new
  BY <1>1, <1>6 DEF new, rest
<1>8. MappedInv'
  BY <1>1 DEF MappedInv, memoryVars, Header, Reached, CellCount, FixedSize
<1>9. /\ orders' \in Seq(Nat) /\ IsInjective(orders') /\ Len(orders') <= mapped'.capacity
      /\ Range(orders') = DOMAIN cache' /\ recent' = orders'
  BY <1>1, <1>2, <1>4, <1>5, <1>7 DEF CacheInv
<1>10. \A i \in DOMAIN cache' :
          cache'[i] = ValueInFile(i)' /\ Reached(ValuePlace(i), FixedSize)' = "read"
  BY <1>1 DEF CacheInv, memoryVars, ValueInFile, Reached, ValuePlace, CellCount, FixedSize, FromValue
<1>11. CacheInv'
  BY <1>9, <1>10 DEF CacheInv
<1> QED BY <1>8, <1>11

LEMMA MissPreserves ==
    ASSUME MappedInv, CacheInv, NEW index \in ValueIndex, Miss(index)
    PROVE  MappedInv' /\ CacheInv'
<1>1. /\ mapped.state = "open" /\ index \notin Range(orders) /\ index \in Nat
      /\ UNCHANGED <<memoryVars, file, written, mapped>>
      /\ orders' = <<index>> \o Staying
      /\ recent' = Newest(<<index>> \o RemoveFirst(orders, index), mapped.capacity)
      /\ Reached(ValuePlace(index), FixedSize) = "read"
      /\ cache' = [i \in {index} \cup Range(Staying) |->
                     IF i = index THEN ValueInFile(index) ELSE cache[i]]
  BY IndexAssumption DEF Miss, CacheInv, Recently
<1>2. /\ orders \in Seq(Nat) /\ IsInjective(orders) /\ Len(orders) <= mapped.capacity
      /\ mapped.capacity \in Nat /\ Len(orders) \in Nat /\ mapped.capacity - 1 \in Nat
  BY <1>1, LenProperties DEF CacheInv, MappedInv
<1> DEFINE n == mapped.capacity - 1
           staying == Newest(orders, n)
           new == <<index>> \o staying
<1>3. /\ staying \in Seq(Nat) /\ Len(staying) = IF n < Len(orders) THEN n ELSE Len(orders)
      /\ \A i \in 1..Len(staying) : staying[i] = orders[i]
      /\ IsInjective(staying) /\ Range(staying) \subseteq Range(orders)
  <2>1. n \in Nat
    BY <1>2
  <2> HIDE DEF n
  <2> QED BY <2>1, <1>2, NewestProperties, NewestDistinct
<1>4. staying = Staying
  BY DEF Staying
<1> HIDE DEF staying
<1>5. /\ new \in Seq(Nat) /\ Len(new) = Len(staying) + 1 /\ IsInjective(new)
      /\ Range(new) = {index} \cup Range(staying)
  BY <1>1, <1>3, PrependDistinct
<1>6. /\ Len(new) <= mapped.capacity /\ Len(staying) \in Nat
      /\ Len(new) = IF mapped.capacity < Len(orders) + 1 THEN mapped.capacity ELSE Len(orders) + 1
  <2>1. Len(staying) \in Nat
    BY <1>3, LenProperties
  <2> HIDE DEF new
  <2> QED BY <2>1, <1>2, <1>3, <1>5
<1>7. recent' = new
  <2> DEFINE all == <<index>> \o orders
             kept == Newest(all, mapped.capacity)
             first == <<index>>
  <2>1. RemoveFirst(orders, index) = orders
    BY <1>1, <1>2, RemoveDistinct
  <2>2. first \in Seq(Nat) /\ Len(first) = 1 /\ first[1] = index
    BY <1>1
  <2>3. all = first \o orders /\ new = first \o staying
    OBVIOUS
  <2> HIDE DEF all, new, first
  <2>4. all \in Seq(Nat) /\ IsJoin(all, first, orders) /\ IsJoin(new, first, staying)
    BY <2>2, <2>3, <1>2, <1>3, JoinProperties
  <2>9. Len(all) = Len(orders) + 1
    BY <2>2, <2>4, <1>2 DEF IsJoin
  <2>5. /\ kept \in Seq(Nat)
        /\ Len(kept) = IF mapped.capacity < Len(all) THEN mapped.capacity ELSE Len(all)
        /\ \A i \in 1..Len(kept) : kept[i] = all[i]
    <3>1. all \in Seq(Nat) /\ mapped.capacity \in Nat
      BY <2>4, <1>2
    <3> QED BY <3>1, NewestProperties
  <2> HIDE DEF kept
  <2>6. Len(kept) = Len(new)
    BY <2>5, <2>9, <1>6
  <2>7. \A i \in 1..Len(new) : kept[i] = new[i]
    <3> SUFFICES ASSUME NEW i \in 1..Len(new) PROVE all[i] = new[i]
      BY <2>5, <2>6
    <3>1. CASE i = 1
      <4>1. 1 \in 1..Len(first)
        BY <2>2
      <4> QED BY <4>1, <3>1, <2>4 DEF IsJoin
    <3>2. CASE i # 1
      <4>1. i - 1 \in 1..Len(staying) /\ i - 1 \in 1..Len(orders) /\ 1 + (i - 1) = i
        <5> DEFINE s == Len(staying)
                   o == Len(orders)
        <5>1. /\ i \in 1..s + 1 /\ i # 1 /\ s \in Nat /\ o \in Nat /\ mapped.capacity \in Nat
              /\ s = IF mapped.capacity - 1 < o THEN mapped.capacity - 1 ELSE o
          BY <3>2, <1>2, <1>3, <1>5, <1>6 DEF n
        <5> SUFFICES i - 1 \in 1..s /\ i - 1 \in 1..o /\ 1 + (i - 1) = i
          OBVIOUS
        <5> HIDE DEF s, o
        <5> QED BY <5>1
      <4>2. all[1 + (i - 1)] = orders[i - 1] /\ new[1 + (i - 1)] = staying[i - 1]
        BY <4>1, <2>2, <2>4 DEF IsJoin
      <4> QED BY <4>1, <4>2, <1>3
    <3> QED BY <3>1, <3>2
  <2>8. kept = new
    BY <2>5, <2>6, <2>7, <1>5, SeqEqual
  <2> QED BY <2>1, <2>8, <1>1 DEF kept, all, first
<1>8. orders' = new
  BY <1>1, <1>4
<1> HIDE DEF new, n
<1>9. MappedInv'
  BY <1>1 DEF MappedInv, memoryVars, Header, Reached, CellCount, FixedSize
<1>10. DOMAIN cache' = Range(new) /\ DOMAIN cache = Range(orders)
  BY <1>1, <1>4, <1>5 DEF CacheInv
<1>11. \A i \in DOMAIN cache' :
          cache'[i] = ValueInFile(i) /\ Reached(ValuePlace(i), FixedSize) = "read"
  <2> TAKE i \in DOMAIN cache'
  <2>1. CASE i = index
    BY <2>1, <1>1
  <2>2. CASE i # index
    <3>1. i \in Range(staying) /\ i \in DOMAIN cache /\ cache'[i] = cache[i]
      BY <2>2, <1>1, <1>3, <1>4, <1>5, <1>10
    <3> QED BY <3>1 DEF CacheInv
  <2> QED BY <2>1, <2>2
<1>12. \A i : /\ ValueInFile(i)' = ValueInFile(i)
             /\ Reached(ValuePlace(i), FixedSize)' = Reached(ValuePlace(i), FixedSize)
  BY <1>1 DEF memoryVars, ValueInFile, Reached, ValuePlace, CellCount, FixedSize, FromValue
<1>13. CacheInv'
  <2>1. mapped' = mapped
    BY <1>1
  <2> QED BY <2>1, <1>5, <1>6, <1>7, <1>8, <1>10, <1>11, <1>12 DEF CacheInv
<1> QED BY <1>9, <1>13

-----------------------------------------------------------------------------
(* The invariant                                                           *)

LEMMA InitSatisfies == Init => IInv
<1> SUFFICES ASSUME Init PROVE IInv
  OBVIOUS
<1>1. NewEntity \in Content
  <2>1. <<VacantWord>> \in Seq(WordType)
    BY VacantParts
  <2>2. <<>> \in Seq(Element)
    OBVIOUS
  <2> QED BY <2>1, <2>2 DEF NewEntity, Content
<1>2. MemoryInv
  <2>1. codec \in Codecs /\ entities = <<NewEntity>>
        /\ \E kind \in {"memory", "shared"} : storages = <<[kind |-> kind, entity |-> 1]>>
    BY DEF Init
  <2>2. entities \in Seq(Content) /\ Len(entities) = 1
    BY <2>1, <1>1
  <2>3. storages \in Seq([kind : {"memory", "shared"}, entity : 1..1])
    BY <2>1
  <2> QED BY <2>1, <2>2, <2>3 DEF MemoryInv
<1>3. FileInv
  BY <1>1 DEF Init, FileInv
<1>4. MappedInv
  BY DEF Init, MappedInv
<1>5. CacheInv
  <2>1. orders = <<>> /\ cache = <<>> /\ recent = <<>> /\ mapped.capacity = 0
    BY DEF Init
  <2>2. DOMAIN cache = {} /\ Range(orders) = {} /\ IsInjective(orders) /\ Len(orders) = 0
    BY <2>1 DEF Range, IsInjective
  <2> QED BY <2>1, <2>2 DEF CacheInv
<1> QED BY <1>2, <1>3, <1>4, <1>5 DEF IInv

\* What only concerns the storages in memory leaves the file and the map alone.
LEMMA FramePreserves ==
    ASSUME IInv, MemoryInv', UNCHANGED memoryFrame
    PROVE  IInv'
<1>1. UNCHANGED fileVars /\ UNCHANGED <<fileVars, mapped, orders>>
      /\ UNCHANGED <<fileVars, mapped, cacheVars>>
  BY DEF memoryFrame, cacheVars
<1> QED BY <1>1, FileInvStays, MappedInvStays, CacheInvStays DEF IInv

LEMMA ChangePreserves ==
    ASSUME IInv, NEW s \in DOMAIN storages, NEW entity \in Content, InEntity(s, entity)
    PROVE  IInv'
<1>1. MemoryInv' /\ UNCHANGED memoryFrame
  BY InEntityPreserves DEF IInv, InEntity, memoryFrame, fileVars
<1> QED BY <1>1, FramePreserves

LEMMA SettingPreserves ==
    ASSUME IInv, NEW s \in DOMAIN storages
    PROVE  /\ \A index \in CellIndex, base \in Bases : SetBaseAt(s, index, base) => IInv'
           /\ \A index \in CellIndex, check \in Checks : SetCheckAt(s, index, check) => IInv'
           /\ \A index \in ValueIndex, value \in codec.objects : AddValueAt(s, index, value) => IInv'
<1>0. MemoryInv /\ CellIndex \subseteq Nat /\ ValueIndex \subseteq Nat
      /\ Bases \subseteq -BaseHalf..BaseHalf - 1 /\ Checks \subseteq Byte
  BY IndexAssumption, WordAssumption DEF IInv
<1>1. ASSUME NEW index \in CellIndex, NEW base \in Bases, SetBaseAt(s, index, base) PROVE IInv'
  <2> DEFINE word == WithBase(WordAt(s, index), base)
             entity == [Entity(s) EXCEPT !.cells = Replaced(@, index, VacantWord, word)]
  <2>1. word \in WordType
    BY <1>0, WordAtIs, SettingParts
  <2>2. InEntity(s, entity)
    BY <1>1 DEF SetBaseAt
  <2> HIDE DEF word
  <2>3. entity \in Content
    BY <1>0, <2>1, ChangedEntities
  <2> HIDE DEF entity
  <2> QED BY <2>2, <2>3, ChangePreserves
<1>2. ASSUME NEW index \in CellIndex, NEW check \in Checks, SetCheckAt(s, index, check) PROVE IInv'
  <2> DEFINE word == WithCheck(WordAt(s, index), check)
             entity == [Entity(s) EXCEPT !.cells = Replaced(@, index, VacantWord, word)]
  <2>1. word \in WordType
    BY <1>0, WordAtIs, SettingParts
  <2>2. InEntity(s, entity)
    BY <1>2 DEF SetCheckAt
  <2> HIDE DEF word
  <2>3. entity \in Content
    BY <1>0, <2>1, ChangedEntities
  <2> HIDE DEF entity
  <2> QED BY <2>2, <2>3, ChangePreserves
<1>3. ASSUME NEW index \in ValueIndex, NEW value \in codec.objects, AddValueAt(s, index, value)
      PROVE  IInv'
  <2> DEFINE entity == [Entity(s) EXCEPT !.values = Replaced(@, index, <<>>, <<value>>)]
  <2>1. InEntity(s, entity)
    BY <1>3 DEF AddValueAt
  <2>2. entity \in Content
    BY <1>0, ChangedEntities
  <2> HIDE DEF entity
  <2> QED BY <2>1, <2>2, ChangePreserves
<1> QED BY <1>1, <1>2, <1>3

LEMMA LookingPreserves ==
    ASSUME IInv, NEW s \in DOMAIN storages, NEW index \in CellIndex, LookAt(s, index)
    PROVE  IInv'
<1> DEFINE entity == [Entity(s) EXCEPT !.cells = Grown(@, index + 1, VacantWord)]
<1>1. MemoryInv /\ index \in Nat
  BY IndexAssumption DEF IInv
<1>2. /\ entities' = [entities EXCEPT ![storages[s].entity] = entity]
      /\ UNCHANGED <<codec, storages, file, written, mapped, cacheVars>>
  BY <1>1, LookAtEntities
<1>3. entity \in Content
  BY <1>1, ChangedEntities
<1> HIDE DEF entity
<1>4. MemoryInv'
  BY <1>1, <1>2, <1>3, EntityPreserves
<1>5. UNCHANGED memoryFrame
  BY <1>2 DEF memoryFrame, fileVars
<1> QED BY <1>4, <1>5, FramePreserves

LEMMA WritingPreserves ==
    ASSUME IInv, NEW s \in DOMAIN storages, Serialize(s)
    PROVE  IInv'
<1>1. /\ MemoryInv /\ FileInv /\ MappedInv /\ CacheInv /\ written.length = 0
      /\ UNCHANGED <<memoryVars, mapped, cacheVars>>
  BY DEF IInv, Serialize
<1>2. FileInv'
  BY <1>1, SerializePreserves
<1>3. MemoryInv'
  BY <1>1 DEF MemoryInv, memoryVars, Content, Element, WordType
<1>4. mapped.state = "none" /\ orders = <<>>
  BY <1>1 DEF MappedInv
<1>5. MappedInv'
  BY <1>1, <1>4 DEF MappedInv, cacheVars
<1>6. DOMAIN cache = {}
  <2>1. Range(<<>>) = {}
    BY DEF Range
  <2> QED BY <1>1, <1>4, <2>1 DEF CacheInv
<1>7. CacheInv'
  BY <1>1, <1>6 DEF CacheInv, cacheVars
<1> QED BY <1>2, <1>3, <1>5, <1>7 DEF IInv

\* Mapping the file and asking it leaves the memory and the file alone.
LEMMA MapFrame ==
    ASSUME IInv, UNCHANGED <<memoryVars, file, written>>
    PROVE  MemoryInv' /\ FileInv'
<1>1. MemoryInv'
  BY DEF IInv, MemoryInv, memoryVars, Content, Element, WordType
<1>2. UNCHANGED fileVars
  BY DEF fileVars, memoryVars
<1> QED BY <1>1, <1>2, FileInvStays DEF IInv

LEMMA NextPreserves == IInv /\ [Next]_vars => IInv'
<1> SUFFICES ASSUME IInv, [Next]_vars PROVE IInv'
  OBVIOUS
<1>0. MemoryInv /\ FileInv /\ MappedInv /\ CacheInv
  BY DEF IInv
<1>1. ASSUME NEW s \in DOMAIN storages, NEW index \in CellIndex, NEW base \in Bases,
             SetBaseAt(s, index, base)
      PROVE  IInv'
  BY <1>1, SettingPreserves
<1>2. ASSUME NEW s \in DOMAIN storages, NEW index \in CellIndex, NEW check \in Checks,
             SetCheckAt(s, index, check)
      PROVE  IInv'
  BY <1>2, SettingPreserves
<1>3. ASSUME NEW s \in DOMAIN storages, NEW index \in ValueIndex, NEW value \in codec.objects,
             AddValueAt(s, index, value)
      PROVE  IInv'
  BY <1>3, SettingPreserves
<1>4. ASSUME NEW s \in DOMAIN storages, NEW index \in CellIndex, LookAt(s, index) PROVE IInv'
  BY <1>4, LookingPreserves
<1>5. ASSUME NEW s \in DOMAIN storages, Clone(s) PROVE IInv'
  BY <1>0, <1>5, ClonePreserves, FramePreserves
<1>6. ASSUME NEW s \in DOMAIN storages, Serialize(s) PROVE IInv'
  BY <1>6, WritingPreserves
<1>7. CASE DestroyAll
  BY <1>0, <1>7, DestroyPreserves, FramePreserves
<1>8. ASSUME NEW kind \in {"memory", "shared"}, Load(kind) PROVE IInv'
  BY <1>0, <1>8, LoadPreserves, FramePreserves
<1>9. ASSUME NEW capacity \in Capacities, NEW offset \in ContentOffsets, Map(capacity, offset)
      PROVE  IInv'
  <2>1. MappedInv' /\ CacheInv'
    BY <1>0, <1>9, MapPreserves
  <2> QED BY <1>9, <2>1, MapFrame DEF Map, IInv
<1>10. CASE ReadHeader
  <2>1. MappedInv' /\ CacheInv'
    BY <1>0, <1>10, ReadHeaderPreserves
  <2> QED BY <1>10, <2>1, MapFrame DEF ReadHeader, IInv
<1>11. ASSUME NEW index \in ValueIndex, Hit(index) PROVE IInv'
  <2>1. MappedInv' /\ CacheInv'
    BY <1>0, <1>11, HitPreserves
  <2> QED BY <1>11, <2>1, MapFrame DEF Hit, IInv
<1>12. ASSUME NEW index \in ValueIndex, Miss(index) PROVE IInv'
  <2>1. MappedInv' /\ CacheInv'
    BY <1>0, <1>12, MissPreserves
  <2> QED BY <1>12, <2>1, MapFrame DEF Miss, IInv
<1>13. ASSUME NEW index \in ValueIndex, Beyond(index) PROVE IInv'
  <2>1. MappedInv' /\ CacheInv'
    BY <1>0, <1>13, BeyondPreserves
  <2> QED BY <1>13, <2>1, MapFrame DEF Beyond, IInv
<1>14. CASE UNCHANGED vars
  <2>1. MemoryInv' /\ UNCHANGED memoryFrame
    BY <1>0, <1>14 DEF vars, memoryVars, memoryFrame, fileVars, MemoryInv, Content, Element, WordType
  <2> QED BY <2>1, FramePreserves
<1>15. CASE Next
  BY <1>15, <1>1, <1>2, <1>3, <1>4, <1>5, <1>6, <1>7, <1>8, <1>9, <1>10, <1>11, <1>12, <1>13 DEF Next
<1> QED BY <1>14, <1>15

\* The storages' contents have the right types, the file is the beginning of what was
\* to be written, and the cache of a mapped file has what the file has.
THEOREM Invariance == Spec => []IInv
BY InitSatisfies, NextPreserves, PTL DEF Spec

-----------------------------------------------------------------------------
(* The types                                                               *)

LEMMA TypesFollow == IInv => TypeOK
<1> SUFFICES ASSUME IInv PROVE TypeOK
  OBVIOUS
<1>0. MemoryInv /\ FileInv /\ MappedInv /\ CacheInv
  BY DEF IInv
<1>1. ASSUME NEW n \in DOMAIN entities PROVE EntityType(entities[n])
  <2> DEFINE e == entities[n]
  <2>1. e \in Content
    BY <1>0, <1>1, LenProperties, ElementOfSeq DEF MemoryInv
  <2> HIDE DEF e
  <2>2. ASSUME NEW i \in DOMAIN e.cells PROVE e.cells[i] \in WordType
    BY <2>1, <2>2, LenProperties, ElementOfSeq DEF Content
  <2>3. ASSUME NEW i \in DOMAIN e.values
        PROVE  e.values[i] = <<>> \/ Head(e.values[i]) \in codec.objects
    <3> DEFINE value == e.values[i]
    <3>1. value \in Element
      BY <2>1, <2>3, LenProperties, ElementOfSeq DEF Content
    <3> HIDE DEF value
    <3>2. value = <<>> \/ Head(value) \in codec.objects
      BY <3>1 DEF Element
    <3> QED BY <3>2 DEF value
  <2> QED BY <2>2, <2>3 DEF EntityType, e
<1>2. ASSUME NEW s \in DOMAIN storages
      PROVE  storages[s].kind \in {"memory", "shared"} /\ storages[s].entity \in DOMAIN entities
  BY <1>0, <1>2, EntityOfStorage, LenProperties DEF MemoryInv
<1>3. Len(file) <= written.length
  <2>1. CASE written.length = 0
    BY <1>0, <2>1 DEF FileInv
  <2>2. CASE written.length # 0
    BY <1>0, <2>2 DEF FileInv, IsBeginning
  <2> QED BY <2>1, <2>2
<1>4. mapped.state \in {"none", "opening", "open", "refused", "broken"}
  BY <1>0 DEF MappedInv
<1>5. Len(orders) <= mapped.capacity /\ IsInjective(orders) /\ Range(orders) = DOMAIN cache
  BY <1>0 DEF CacheInv
<1> QED BY <1>1, <1>2, <1>3, <1>4, <1>5 DEF TypeOK

\* The indexes and the words are of their types, a file is never longer than what was
\* to be written, and the list of a cache and its map have the same indexes, at most
\* as many as its capacity.
THEOREM TypeCorrect == Spec => []TypeOK
BY Invariance, TypesFollow, PTL

\* The value that value_at() of the client has got a pointer to is in the cache as long
\* as it is one of the capacity's number of values asked for last.
THEOREM RecentStay == Spec => []RecentValuesStay
<1>1. IInv => RecentValuesStay
  BY DEF IInv, CacheInv, RecentValuesStay
<1> QED BY <1>1, Invariance, PTL
-----------------------------------------------------------------------------
(* What a mapped file answers                                              *)

\* What a storage that has loaded a file answers.
LEMMA RecoveredIs ==
    ASSUME codec \in Codecs, NEW entity \in Content
    PROVE  Contract!Recovered(Answers(entity)).values =
             [i \in ValueIndex |->
                IF i < Len(entity.values) THEN Kept(entity.values[i + 1]) ELSE <<>>]
<1> DEFINE value(i) == IF i < Len(entity.values) THEN entity.values[i + 1] ELSE <<>>
           all == [i \in ValueIndex |-> value(i)]
           lost == {object \in codec.objects : ~KeptInFile(object)}
           recovered == [i \in ValueIndex |->
                           IF all[i] # <<>> /\ Head(all[i]) \notin lost THEN all[i] ELSE <<>>]
<1>1. Contract!Recovered(Answers(entity)).values = recovered
  BY DEF Contract!Recovered, Answers
<1>2. ASSUME NEW i \in ValueIndex
      PROVE  recovered[i] = IF i < Len(entity.values) THEN Kept(entity.values[i + 1]) ELSE <<>>
  <2>1. i \in Nat /\ Len(entity.values) \in Nat
    BY IndexAssumption, ChunksType
  <2>2. all[i] = value(i)
    OBVIOUS
  <2>3. CASE i < Len(entity.values)
    <3> DEFINE v == entity.values[i + 1]
    <3>1. v \in Element
      <4>1. i + 1 \in 1..Len(entity.values)
        BY <2>1, <2>3
      <4> QED BY <4>1, ChunksType
    <3>2. all[i] = v
      BY <2>2, <2>3
    <3> HIDE DEF v
    <3>3. v # <<>> => Head(v) \in codec.objects
      BY <3>1 DEF Element
    <3>4. recovered[i] = IF v # <<>> /\ Head(v) \notin lost THEN v ELSE <<>>
      BY <3>2
    <3>5. recovered[i] = Kept(v)
      BY <3>3, <3>4 DEF Kept
    <3> QED BY <2>3, <3>5 DEF v
  <2>4. CASE ~(i < Len(entity.values))
    BY <2>2, <2>4
  <2> QED BY <2>3, <2>4
<1> QED BY <1>1, <1>2

LEMMA OneMore ==
    ASSUME NEW size \in Nat, NEW count \in Nat
    PROVE  size * (count + 1) = size * count + size /\ size * count \in Nat
BY SMT

LEMMA MappedValueIs ==
    ASSUME IInv, mapped.state = "open",
           NEW i \in ValueIndex, i \in 0..Len(written.entity.values) - 1
    PROVE  IF Returns(i) THEN MappedValue(i) = Kept(written.entity.values[i + 1])
           ELSE Len(file) < written.length
<1> DEFINE e == written.entity
           F == codec.fixed
           at == PlaceOf(e, i)
           next == PlaceOf(e, i + 1)
           kept == Kept(e.values[i + 1])
<1>0. MemoryInv /\ FileInv /\ MappedInv /\ CacheInv
  BY DEF IInv
<1>1. /\ written.length # 0 /\ codec \in Codecs /\ e \in Content /\ IsBeginning(file, Units(e))
      /\ written.length = Len(Units(e)) /\ Len(file) \in Nat /\ i \in Nat
  BY <1>0, LenProperties, IndexAssumption DEF MemoryInv, FileInv, MappedInv
<1>2. CellCount = Len(e.cells) /\ CellCount \in Nat /\ FixedSize = F /\ F \in Nat \ {0}
  BY <1>0, <1>1, HeaderIs DEF MappedInv
<1>3. Len(e.values) \in Nat /\ i \in 0..Len(e.values) /\ i + 1 \in 0..Len(e.values)
      /\ i \in 0..Len(e.values) - 1
  BY <1>1, ChunksType
<1>4. at = Len(e.cells) + 3 + F * i /\ next = Len(e.cells) + 3 + F * (i + 1)
  <2>1. \A n \in 0..Len(e.values) : PlaceOf(e, n) = Len(e.cells) + 3 + F * n
    <3>1. codec.fixed > 0 /\ codec \in Codecs /\ e \in Content
      BY <1>1, <1>2
    <3> HIDE DEF e
    <3> QED BY <3>1, FixedPlaces
  <2> QED BY <2>1, <1>3
<1>5. F * (i + 1) = F * i + F /\ F * i \in Nat
  BY <1>1, <1>2, OneMore
<1>6. ValuePlace(i) = at /\ next = at + F /\ at \in Nat
  <2>1. ValuePlace(i) = Len(e.cells) + 3 + F * i
    BY <1>2 DEF ValuePlace
  <2> DEFINE C == Len(e.cells)
             product == F * i
  <2>2. /\ at = C + 3 + product /\ next = C + 3 + (product + F) /\ C \in Nat
        /\ product \in Nat /\ F \in Nat /\ ValuePlace(i) = C + 3 + product
    BY <1>2, <1>4, <1>5, <2>1
  <2> HIDE DEF C, product, F, at, next
  <2> QED BY <2>2
<1>7. next <= written.length
  BY <1>1, <1>3, Places DEF IsAt
<1>8. Reached(ValuePlace(i), FixedSize) = "read" <=> next <= Len(file)
  <2>1. Reached(at, F) = "read" <=> at + F <= Len(file)
    BY <1>0, <1>2, <1>6, ReachedIs
  <2> QED BY <2>1, <1>2, <1>6
<1>9. ASSUME next <= Len(file) PROVE ValueInFile(i) = kept
  <2> DEFINE read == SubSeq(file, at + 1, at + F)
             isNone == read = Uninitialized(F)
             found == IF isNone THEN <<>> ELSE <<FromValue(read)>>
  <2>1. ValueInFile(i) = found
    BY <1>2, <1>6 DEF ValueInFile
  <2>2. ~(FALSE \/ at + F > Len(file)) /\ at <= Len(file)
    BY <1>1, <1>2, <1>6, <1>9
  <2>3. ValueFrom(F, State(at, <<>>, FALSE)) =
          Outcome(at, <<>>, at, F, isNone, FALSE \/ at + F > Len(file))
    <3>1. FALSE \in BOOLEAN
      OBVIOUS
    <3> QED BY <1>2, <3>1, FixedValueFrom
  <2>4. ValueFrom(F, State(at, <<>>, FALSE)) = State(next, Append(<<>>, kept), FALSE)
    <3>1. ValueFrom(F, State(at, <<>>, FALSE)) =
            IF next <= Len(file) THEN State(next, Append(<<>>, kept), FALSE)
            ELSE State(at, <<>>, TRUE)
      BY <1>1, <1>3, <2>2, NextValueFrom
    <3> QED BY <3>1, <1>9
  <2> HIDE DEF isNone, read, kept, next, at
  <2>5. Outcome(at, <<>>, at, F, isNone, FALSE \/ at + F > Len(file)) =
          State(at + F, Append(<<>>, found), FALSE)
    BY <2>2 DEF Outcome, read
  <2> HIDE DEF found
  <2>6. State(at + F, Append(<<>>, found), FALSE) = State(next, Append(<<>>, kept), FALSE)
    BY <2>3, <2>4, <2>5
  <2>7. Append(<<>>, found) = Append(<<>>, kept)
    <3> DEFINE a == Append(<<>>, found)
               b == Append(<<>>, kept)
    <3>1. State(at + F, a, FALSE).values = a /\ State(next, b, FALSE).values = b
      BY DEF State
    <3> QED BY <2>6, <3>1
  <2>8. Append(<<>>, found)[1] = found /\ Append(<<>>, kept)[1] = kept
    OBVIOUS
  <2> QED BY <2>1, <2>7, <2>8
<1>10. i \in DOMAIN cache => cache[i] = ValueInFile(i) /\ next <= Len(file)
  BY <1>0, <1>8 DEF CacheInv
<1> HIDE DEF next, kept
<1>11. CASE Returns(i)
  <2>1. next <= Len(file)
    BY <1>8, <1>10, <1>11 DEF Returns
  <2>2. MappedValue(i) = kept
    BY <2>1, <1>9, <1>10 DEF MappedValue
  <2> QED BY <2>2, <1>11 DEF kept
<1>12. CASE ~Returns(i)
  <2>1. ~(next <= Len(file))
    BY <1>8, <1>12 DEF Returns
  <2>2. next \in Nat /\ written.length \in Nat
    BY <1>0, <1>2, <1>6 DEF FileInv, next
  <2>3. Len(file) < written.length
    BY <2>1, <2>2, <1>1, <1>7
  <2> QED BY <2>3, <1>12
<1> QED BY <1>11, <1>12

\* value_at() of a mapped file gives what was written, whatever has been asked before,
\* or throws; it throws, and so does the constructor, only if the file is not complete
\* or has values of different sizes; and nothing is read behind the end of the file
\* unless a content offset is given.
THEOREM MappedAnswers == Spec => []MappedAnswersAsWritten
<1>1. IInv => MappedAnswersAsWritten
  <2> SUFFICES ASSUME IInv PROVE MappedAnswersAsWritten
    OBVIOUS
  <2>0. MemoryInv /\ FileInv /\ MappedInv
    BY DEF IInv
  <2>1. ASSUME mapped.state = "open", NEW i \in ValueIndex \cap 0..(Len(written.entity.values) - 1)
        PROVE  IF Returns(i)
                 THEN MappedValue(i) = Contract!Recovered(Answers(written.entity)).values[i]
                 ELSE Len(file) < written.length
    <3>1. i \in ValueIndex /\ i \in 0..Len(written.entity.values) - 1
      OBVIOUS
    <3>2. codec \in Codecs /\ written.entity \in Content /\ Len(written.entity.values) \in Nat
      BY <2>0, ChunksType DEF MemoryInv, FileInv
    <3>3. i < Len(written.entity.values)
      BY <3>1, <3>2
    <3>4. Contract!Recovered(Answers(written.entity)).values[i] = Kept(written.entity.values[i + 1])
      BY <3>1, <3>2, <3>3, RecoveredIs
    <3> QED BY <2>1, <3>1, <3>4, MappedValueIs
  <2>2. mapped.state = "refused" => codec.fixed = 0 \/ Len(file) < written.length
    BY <2>0, HeaderIs DEF MappedInv
  <2>3. mapped.offset = 0 => mapped.state # "broken"
    BY <2>0 DEF MappedInv
  <2> QED BY <2>1, <2>2, <2>3 DEF MappedAnswersAsWritten
<1> QED BY <1>1, Invariance, PTL

-----------------------------------------------------------------------------
(* The contract                                                            *)

\* What an array that grows has at an index.
At(array, i, new) == IF i < Len(array) THEN array[i + 1] ELSE new

LEMMA AtGrown ==
    ASSUME NEW S, NEW array \in Seq(S), NEW new \in S, NEW size \in Nat, NEW i \in Nat
    PROVE  At(Grown(array, size, new), i, new) = At(array, i, new)
<1> DEFINE grown == Grown(array, size, new)
<1>1. IsGrown(grown, array, size, new) /\ Len(array) \in Nat
  BY GrownProperties, LenProperties
<1> SUFFICES At(grown, i, new) = At(array, i, new)
  OBVIOUS
<1> HIDE DEF grown
<1>2. Len(grown) = Longer(size, Len(array)) /\ Len(grown) \in Nat /\ Len(grown) >= Len(array)
  BY <1>1 DEF IsGrown, Longer
<1>3. CASE i < Len(grown)
  <2>1. i + 1 \in 1..Longer(size, Len(array)) /\ (i + 1 <= Len(array) <=> i < Len(array))
    BY <1>1, <1>2, <1>3
  <2>2. grown[i + 1] = IF i + 1 <= Len(array) THEN array[i + 1] ELSE new
    BY <1>1, <2>1 DEF IsGrown
  <2> QED BY <1>3, <2>1, <2>2 DEF At
<1>4. CASE ~(i < Len(grown))
  <2>1. ~(i < Len(array))
    BY <1>1, <1>2, <1>4
  <2> QED BY <1>4, <2>1 DEF At
<1> QED BY <1>3, <1>4

LEMMA AtReplaced ==
    ASSUME NEW S, NEW array \in Seq(S), NEW new \in S, NEW index \in Nat, NEW element \in S,
           NEW i \in Nat
    PROVE  At(Replaced(array, index, new, element), i, new) =
             IF i = index THEN element ELSE At(array, i, new)
<1> DEFINE replaced == Replaced(array, index, new, element)
<1>1. IsReplaced(replaced, array, index, new, element) /\ Len(array) \in Nat
  BY ReplacedProperties, LenProperties
<1> SUFFICES At(replaced, i, new) = IF i = index THEN element ELSE At(array, i, new)
  OBVIOUS
<1> HIDE DEF replaced
<1>2. /\ Len(replaced) = Longer(index + 1, Len(array)) /\ Len(replaced) \in Nat
      /\ Len(replaced) >= Len(array) /\ Len(replaced) > index
  BY <1>1 DEF IsReplaced, Longer
<1>3. CASE i < Len(replaced)
  <2>1. /\ i + 1 \in 1..Longer(index + 1, Len(array)) /\ (i + 1 <= Len(array) <=> i < Len(array))
        /\ (i + 1 = index + 1 <=> i = index)
    BY <1>1, <1>2, <1>3
  <2>2. replaced[i + 1] = IF i + 1 = index + 1 THEN element
                          ELSE IF i + 1 <= Len(array) THEN array[i + 1] ELSE new
    BY <1>1, <2>1 DEF IsReplaced
  <2> QED BY <1>3, <2>1, <2>2 DEF At
<1>4. CASE ~(i < Len(replaced))
  <2>1. ~(i < Len(array)) /\ i # index
    BY <1>1, <1>2, <1>4
  <2> QED BY <1>4, <2>1 DEF At
<1> QED BY <1>3, <1>4

CellOf(word) == [base |-> BaseOf(word), check |-> CheckOf(word)]
CellType == [base : Int, check : Nat]
AnswerType == [cells : [CellIndex -> CellType], values : [ValueIndex -> Element]]

\* The answers of an entity are those of its arrays at every index.
LEMMA AnswersAre ==
    ASSUME NEW entity \in Content
    PROVE  /\ Answers(entity).cells =
                [i \in CellIndex |-> CellOf(At(entity.cells, i, VacantWord))]
           /\ Answers(entity).values = [i \in ValueIndex |-> At(entity.values, i, <<>>)]
           /\ Answers(entity) = [cells |-> Answers(entity).cells, values |-> Answers(entity).values]
           /\ Answers(entity) \in AnswerType
<1> DEFINE cells == [i \in CellIndex |-> CellOf(At(entity.cells, i, VacantWord))]
           values == [i \in ValueIndex |-> At(entity.values, i, <<>>)]
           found == [i \in CellIndex |-> IF i < Len(entity.cells)
                       THEN [base |-> BaseOf(entity.cells[i + 1]), check |-> CheckOf(entity.cells[i + 1])]
                       ELSE [base |-> 0, check |-> TopByte]]
<1>0. /\ entity.cells \in Seq(WordType) /\ entity.values \in Seq(Element)
      /\ Len(entity.cells) \in Nat /\ Len(entity.values) \in Nat
  BY LenProperties DEF Content
<1>1. Answers(entity) = [cells |-> found, values |-> values]
  BY DEF Answers, At
<1>2. found = cells
  <2>1. ASSUME NEW i \in CellIndex PROVE found[i] = cells[i]
    BY VacantParts DEF At, CellOf
  <2> QED BY <2>1
<1>3. cells \in [CellIndex -> CellType]
  <2>1. ASSUME NEW i \in CellIndex PROVE CellOf(At(entity.cells, i, VacantWord)) \in CellType
    <3> DEFINE word == At(entity.cells, i, VacantWord)
    <3>1. word \in WordType
      <4>1. CASE i < Len(entity.cells)
        <5>1. i + 1 \in 1..Len(entity.cells)
          BY <1>0, <4>1, IndexAssumption
        <5>2. entity.cells[i + 1] \in WordType
          BY <1>0, <5>1, ElementOfSeq
        <5> QED BY <4>1, <5>2 DEF At
      <4>2. CASE ~(i < Len(entity.cells))
        BY <4>2, VacantParts DEF At
      <4> QED BY <4>1, <4>2
    <3> HIDE DEF word
    <3>2. BaseOf(word) \in -BaseHalf..BaseHalf - 1 /\ CheckOf(word) \in Byte
      BY <3>1, SettingParts
    <3>3. BaseOf(word) \in Int /\ CheckOf(word) \in Nat
      BY <3>2, RadixProperties
    <3> QED BY <3>3 DEF CellOf, CellType, word
  <2> QED BY <2>1
<1>4. values \in [ValueIndex -> Element]
  <2>1. ASSUME NEW i \in ValueIndex PROVE At(entity.values, i, <<>>) \in Element
    <3>1. CASE i < Len(entity.values)
      <4>1. i + 1 \in 1..Len(entity.values)
        BY <1>0, <3>1, IndexAssumption
      <4>2. entity.values[i + 1] \in Element
        BY <1>0, <4>1, ElementOfSeq
      <4> QED BY <3>1, <4>2 DEF At
    <3>2. CASE ~(i < Len(entity.values))
      BY <3>2 DEF At, Element
    <3> QED BY <3>1, <3>2
  <2> QED BY <2>1
<1> HIDE DEF cells, values, found
<1>5. Answers(entity) = [cells |-> cells, values |-> values]
  BY <1>1, <1>2
<1>6. Answers(entity).cells = cells /\ Answers(entity).values = values
  BY <1>5
<1>7. Answers(entity) \in AnswerType
  BY <1>3, <1>4, <1>5 DEF AnswerType
<1> QED BY <1>5, <1>6, <1>7 DEF cells, values

\* Contents with the same elements at every index answer the same.
LEMMA SameAnswers ==
    ASSUME NEW a \in Content, NEW b \in Content,
           \A i \in CellIndex : At(a.cells, i, VacantWord) = At(b.cells, i, VacantWord),
           \A i \in ValueIndex : At(a.values, i, <<>>) = At(b.values, i, <<>>)
    PROVE  Answers(a) = Answers(b)
<1>1. Answers(a).cells = Answers(b).cells
  <2>1. /\ Answers(a).cells = [i \in CellIndex |-> CellOf(At(a.cells, i, VacantWord))]
        /\ Answers(b).cells = [i \in CellIndex |-> CellOf(At(b.cells, i, VacantWord))]
    BY AnswersAre
  <2> QED BY <2>1
<1>2. Answers(a).values = Answers(b).values
  <2>1. /\ Answers(a).values = [i \in ValueIndex |-> At(a.values, i, <<>>)]
        /\ Answers(b).values = [i \in ValueIndex |-> At(b.values, i, <<>>)]
    BY AnswersAre
  <2> QED BY <2>1
<1>3. /\ Answers(a) = [cells |-> Answers(a).cells, values |-> Answers(a).values]
      /\ Answers(b) = [cells |-> Answers(b).cells, values |-> Answers(b).values]
  BY AnswersAre
<1> QED BY <1>1, <1>2, <1>3

\* The answers when a base, a check or a value is set.
Based(answers, i, base)   == [answers EXCEPT !.cells[i].base = base]
Checked(answers, i, check) == [answers EXCEPT !.cells[i].check = check]
Valued(answers, i, value) == [answers EXCEPT !.values[i] = value]

WithCell(answers, i, cell) ==
    [cells |-> [k \in CellIndex |-> IF k = i THEN cell ELSE answers.cells[k]],
     values |-> answers.values]
WithValue(answers, i, value) ==
    [cells |-> answers.cells,
     values |-> [k \in ValueIndex |-> IF k = i THEN value ELSE answers.values[k]]]

LEMMA SettingACell ==
    ASSUME NEW answers \in AnswerType, NEW i \in CellIndex, NEW value
    PROVE  /\ Based(answers, i, value) =
                WithCell(answers, i, [base |-> value, check |-> answers.cells[i].check])
           /\ Checked(answers, i, value) =
                WithCell(answers, i, [base |-> answers.cells[i].base, check |-> value])
<1> DEFINE cell == answers.cells[i]
           based == [cell EXCEPT !.base = value]
           checked == [cell EXCEPT !.check = value]
<1>1. answers.cells \in [CellIndex -> CellType] /\ cell \in [base : Int, check : Nat]
  BY DEF AnswerType, CellType
<1> HIDE DEF cell
<1>2. /\ based = [base |-> value, check |-> cell.check]
      /\ checked = [base |-> cell.base, check |-> value]
  BY <1>1
<1>3. /\ [answers EXCEPT !.cells = [answers.cells EXCEPT ![i] = based]] =
           [cells |-> [answers.cells EXCEPT ![i] = based], values |-> answers.values]
      /\ [answers EXCEPT !.cells = [answers.cells EXCEPT ![i] = checked]] =
           [cells |-> [answers.cells EXCEPT ![i] = checked], values |-> answers.values]
  <2> HIDE DEF based, checked
  <2> QED BY DEF AnswerType
<1>4. /\ [answers EXCEPT !.cells[i].base = value] =
           [answers EXCEPT !.cells = [answers.cells EXCEPT ![i] = based]]
      /\ [answers EXCEPT !.cells[i].check = value] =
           [answers EXCEPT !.cells = [answers.cells EXCEPT ![i] = checked]]
  BY DEF cell
<1> HIDE DEF based, checked
<1>5. /\ [answers.cells EXCEPT ![i] = based] =
           [k \in CellIndex |-> IF k = i THEN based ELSE answers.cells[k]]
      /\ [answers.cells EXCEPT ![i] = checked] =
           [k \in CellIndex |-> IF k = i THEN checked ELSE answers.cells[k]]
  BY <1>1
<1> QED BY <1>2, <1>3, <1>4, <1>5 DEF cell, Based, Checked, WithCell

LEMMA SettingAValue ==
    ASSUME NEW answers \in AnswerType, NEW i \in ValueIndex, NEW value
    PROVE  Valued(answers, i, value) = WithValue(answers, i, value)
<1>1. answers.values \in [ValueIndex -> Element]
  BY DEF AnswerType
<1> DEFINE values == [answers.values EXCEPT ![i] = value]
<1>2. values = [k \in ValueIndex |-> IF k = i THEN value ELSE answers.values[k]]
  BY <1>1
<1>3. [answers EXCEPT !.values[i] = value] = [answers EXCEPT !.values = values]
  OBVIOUS
<1> HIDE DEF values
<1>4. [answers EXCEPT !.values = values] = [cells |-> answers.cells, values |-> values]
  BY DEF AnswerType
<1> QED BY <1>2, <1>3, <1>4 DEF Valued, WithValue

LEMMA AnswersOfCell ==
    ASSUME NEW entity \in Content, NEW index \in CellIndex, NEW word \in WordType
    PROVE  Answers([entity EXCEPT !.cells = Replaced(@, index, VacantWord, word)]) =
             WithCell(Answers(entity), index, CellOf(word))
<1> DEFINE cells == Replaced(entity.cells, index, VacantWord, word)
           changed == [entity EXCEPT !.cells = cells]
<1>1. /\ entity.cells \in Seq(WordType) /\ cells \in Seq(WordType) /\ VacantWord \in WordType
      /\ \A i \in CellIndex :
            At(cells, i, VacantWord) = IF i = index THEN word ELSE At(entity.cells, i, VacantWord)
  BY VacantParts, ReplacedProperties, AtReplaced, IndexAssumption DEF Content
<1> HIDE DEF cells
<1>2. changed \in Content /\ changed.cells = cells /\ changed.values = entity.values
  BY <1>1 DEF Content
<1> HIDE DEF changed
<1>3. /\ Answers(changed).cells = [k \in CellIndex |-> CellOf(At(cells, k, VacantWord))]
      /\ Answers(changed).values = [k \in ValueIndex |-> At(entity.values, k, <<>>)]
      /\ Answers(changed) = [cells |-> Answers(changed).cells, values |-> Answers(changed).values]
  BY <1>2, AnswersAre
<1>4. /\ Answers(entity).cells = [k \in CellIndex |-> CellOf(At(entity.cells, k, VacantWord))]
      /\ Answers(entity).values = [k \in ValueIndex |-> At(entity.values, k, <<>>)]
  BY AnswersAre
<1>5. Answers(changed).cells =
        [k \in CellIndex |-> IF k = index THEN CellOf(word) ELSE Answers(entity).cells[k]]
  BY <1>1, <1>3, <1>4
<1>6. Answers(changed) = WithCell(Answers(entity), index, CellOf(word))
  BY <1>3, <1>4, <1>5 DEF WithCell
<1> QED BY <1>6 DEF changed, cells

\* A base and a check that share a word are set one without the other.
LEMMA AnswersOfSetting ==
    ASSUME NEW entity \in Content, NEW index \in CellIndex
    PROVE  LET word == At(entity.cells, index, VacantWord)
           IN  /\ \A base \in -BaseHalf..BaseHalf - 1 :
                     Answers([entity EXCEPT !.cells =
                                Replaced(@, index, VacantWord, WithBase(word, base))]) =
                       Based(Answers(entity), index, base)
               /\ \A check \in Byte :
                     Answers([entity EXCEPT !.cells =
                                Replaced(@, index, VacantWord, WithCheck(word, check))]) =
                       Checked(Answers(entity), index, check)
<1> DEFINE word == At(entity.cells, index, VacantWord)
           answers == Answers(entity)
<1>1. answers \in AnswerType /\ answers.cells[index] = CellOf(word)
  <2>1. answers.cells = [k \in CellIndex |-> CellOf(At(entity.cells, k, VacantWord))]
    BY AnswersAre
  <2> QED BY <2>1, AnswersAre
<1>2. word \in WordType
  <2>1. entity.cells \in Seq(WordType) /\ Len(entity.cells) \in Nat /\ index \in Nat
    BY LenProperties, IndexAssumption DEF Content
  <2>2. CASE index < Len(entity.cells)
    <3>1. index + 1 \in 1..Len(entity.cells)
      BY <2>1, <2>2
    <3>2. entity.cells[index + 1] \in WordType
      BY <2>1, <3>1, ElementOfSeq
    <3> QED BY <2>2, <3>2 DEF At
  <2>3. CASE ~(index < Len(entity.cells))
    BY <2>3, VacantParts DEF At
  <2> QED BY <2>2, <2>3
<1> SUFFICES /\ \A base \in -BaseHalf..BaseHalf - 1 :
                   Answers([entity EXCEPT !.cells =
                              Replaced(@, index, VacantWord, WithBase(word, base))]) =
                     Based(answers, index, base)
             /\ \A check \in Byte :
                   Answers([entity EXCEPT !.cells =
                              Replaced(@, index, VacantWord, WithCheck(word, check))]) =
                     Checked(answers, index, check)
  OBVIOUS
<1> HIDE DEF word
<1>3. ASSUME NEW base \in -BaseHalf..BaseHalf - 1
      PROVE  Answers([entity EXCEPT !.cells =
                        Replaced(@, index, VacantWord, WithBase(word, base))]) =
               Based(answers, index, base)
  <2> DEFINE new == WithBase(word, base)
  <2>1. new \in WordType /\ CellOf(new) = [base |-> base, check |-> answers.cells[index].check]
    BY <1>1, <1>2, SettingParts DEF CellOf
  <2> HIDE DEF new
  <2>2. Answers([entity EXCEPT !.cells = Replaced(@, index, VacantWord, new)]) =
          WithCell(answers, index, CellOf(new))
    BY <2>1, AnswersOfCell
  <2> HIDE DEF answers
  <2>3. Based(answers, index, base) =
          WithCell(answers, index, [base |-> base, check |-> answers.cells[index].check])
    BY <1>1, SettingACell
  <2>4. Based(answers, index, base) =
          WithCell(answers, index, CellOf(new))
    BY <2>1, <2>3
  <2> QED BY <2>2, <2>4 DEF new
<1>4. ASSUME NEW check \in Byte
      PROVE  Answers([entity EXCEPT !.cells =
                        Replaced(@, index, VacantWord, WithCheck(word, check))]) =
               Checked(answers, index, check)
  <2> DEFINE new == WithCheck(word, check)
  <2>1. new \in WordType /\ CellOf(new) = [base |-> answers.cells[index].base, check |-> check]
    BY <1>1, <1>2, SettingParts DEF CellOf
  <2> HIDE DEF new
  <2>2. Answers([entity EXCEPT !.cells = Replaced(@, index, VacantWord, new)]) =
          WithCell(answers, index, CellOf(new))
    BY <2>1, AnswersOfCell
  <2> HIDE DEF answers
  <2>3. Checked(answers, index, check) =
          WithCell(answers, index, [base |-> answers.cells[index].base, check |-> check])
    BY <1>1, SettingACell
  <2>4. Checked(answers, index, check) =
          WithCell(answers, index, CellOf(new))
    BY <2>1, <2>3
  <2> QED BY <2>2, <2>4 DEF new
<1> QED BY <1>3, <1>4

LEMMA AnswersOfAdding ==
    ASSUME NEW entity \in Content, NEW index \in ValueIndex, NEW value \in Element
    PROVE  Answers([entity EXCEPT !.values = Replaced(@, index, <<>>, value)]) =
             Valued(Answers(entity), index, value)
<1> DEFINE values == Replaced(entity.values, index, <<>>, value)
           changed == [entity EXCEPT !.values = values]
           answers == Answers(entity)
<1>1. /\ entity.values \in Seq(Element) /\ values \in Seq(Element) /\ <<>> \in Element
      /\ \A i \in ValueIndex : At(values, i, <<>>) = IF i = index THEN value ELSE At(entity.values, i, <<>>)
  <2>1. <<>> \in Element /\ entity.values \in Seq(Element)
    BY DEF Element, Content
  <2>2. ASSUME NEW i \in ValueIndex
        PROVE  At(values, i, <<>>) = IF i = index THEN value ELSE At(entity.values, i, <<>>)
    <3> DEFINE new == <<>>
    <3>1. i \in Nat /\ index \in Nat /\ new \in Element
      BY <2>1, IndexAssumption
    <3> HIDE DEF new
    <3>2. At(Replaced(entity.values, index, new, value), i, new) =
            IF i = index THEN value ELSE At(entity.values, i, new)
      BY <2>1, <3>1, AtReplaced
    <3> QED BY <3>2 DEF new
  <2>3. values \in Seq(Element)
    BY <2>1, ReplacedProperties, IndexAssumption
  <2> QED BY <2>1, <2>2, <2>3
<1> SUFFICES Answers(changed) = Valued(answers, index, value)
  OBVIOUS
<1> HIDE DEF values
<1>2. changed \in Content /\ changed.values = values /\ changed.cells = entity.cells
  BY <1>1 DEF Content
<1> HIDE DEF changed
<1>3. /\ Answers(changed).cells = [k \in CellIndex |-> CellOf(At(entity.cells, k, VacantWord))]
      /\ Answers(changed).values = [k \in ValueIndex |-> At(values, k, <<>>)]
      /\ Answers(changed) = [cells |-> Answers(changed).cells, values |-> Answers(changed).values]
  BY <1>2, AnswersAre
<1>4. /\ answers.cells = [k \in CellIndex |-> CellOf(At(entity.cells, k, VacantWord))]
      /\ answers.values = [k \in ValueIndex |-> At(entity.values, k, <<>>)]
      /\ answers \in AnswerType
  BY AnswersAre
<1> HIDE DEF answers
<1>5. Answers(changed).values =
        [k \in ValueIndex |-> IF k = index THEN value ELSE answers.values[k]]
  BY <1>1, <1>3, <1>4
<1>6. Answers(changed).cells = answers.cells
  BY <1>3, <1>4
<1>7. Valued(answers, index, value) = WithValue(answers, index, value)
  BY <1>4, SettingAValue
<1>8. Valued(answers, index, value) =
        [cells |-> Answers(changed).cells, values |-> Answers(changed).values]
  BY <1>5, <1>6, <1>7 DEF WithValue
<1> QED BY <1>3, <1>8

LEMMA AnswersOfLooking ==
    ASSUME NEW entity \in Content, NEW index \in CellIndex
    PROVE  Answers([entity EXCEPT !.cells = Grown(@, index + 1, VacantWord)]) = Answers(entity)
<1> DEFINE size == index + 1
           cells == Grown(entity.cells, size, VacantWord)
           changed == [entity EXCEPT !.cells = cells]
<1> SUFFICES Answers(changed) = Answers(entity)
  OBVIOUS
<1>1. size \in Nat
  BY IndexAssumption
<1> HIDE DEF size
<1>2. /\ cells \in Seq(WordType)
      /\ \A i \in CellIndex : At(cells, i, VacantWord) = At(entity.cells, i, VacantWord)
  <2>1. entity.cells \in Seq(WordType) /\ VacantWord \in WordType /\ CellIndex \subseteq Nat
    BY VacantParts, IndexAssumption DEF Content
  <2>2. cells \in Seq(WordType)
    BY <1>1, <2>1, GrownProperties
  <2>3. ASSUME NEW i \in CellIndex PROVE At(cells, i, VacantWord) = At(entity.cells, i, VacantWord)
    BY <1>1, <2>1, AtGrown
  <2> QED BY <2>2, <2>3
<1> HIDE DEF cells
<1>3. changed \in Content /\ changed.cells = cells /\ changed.values = entity.values
  BY <1>2 DEF Content
<1> HIDE DEF changed
<1> QED BY <1>2, <1>3, SameAnswers

\* What the variables of the contract stand for.
Groups  == [n \in DOMAIN entities |-> Answers(entities[n])]
Members == [s \in DOMAIN storages |->
              [group |-> storages[s].entity, share |-> storages[s].kind = "shared"]]
Lost    == {value \in codec.objects : ~KeptInFile(value)}
Saved   == IF written.length > 0 /\ Len(file) = written.length
             THEN <<Answers(written.entity)>> ELSE <<>>

MemberType == [group : Nat, share : BOOLEAN]

LEMMA GroupsAndMembers ==
    ASSUME MemoryInv
    PROVE  /\ Groups \in [1..Len(entities) -> AnswerType] /\ Groups \in Seq(AnswerType)
           /\ Len(Groups) = Len(entities) /\ Len(entities) \in Nat
           /\ \A n \in 1..Len(entities) : Groups[n] = Answers(entities[n])
           /\ Members \in [1..Len(storages) -> MemberType] /\ Members \in Seq(MemberType)
           /\ DOMAIN Members = DOMAIN storages /\ Len(Members) = Len(storages) /\ Len(storages) \in Nat
           /\ \A s \in 1..Len(storages) :
                 /\ Members[s] = [group |-> storages[s].entity, share |-> storages[s].kind = "shared"]
                 /\ Members[s].group = storages[s].entity
                 /\ Members[s].share = (storages[s].kind = "shared")
<1>1. /\ Len(entities) \in Nat /\ DOMAIN entities = 1..Len(entities)
      /\ \A n \in 1..Len(entities) : entities[n] \in Content
      /\ Len(storages) \in Nat /\ DOMAIN storages = 1..Len(storages)
  BY LenProperties, ElementOfSeq DEF MemoryInv
<1>2. Groups \in [1..Len(entities) -> AnswerType]
  BY <1>1, AnswersAre DEF Groups
<1>3. \A n \in 1..Len(entities) : Groups[n] = Answers(entities[n])
  BY <1>1 DEF Groups
<1>4. /\ Members \in [1..Len(storages) -> MemberType] /\ DOMAIN Members = DOMAIN storages
      /\ \A s \in 1..Len(storages) :
            Members[s] = [group |-> storages[s].entity, share |-> storages[s].kind = "shared"]
  <2>1. ASSUME NEW s \in 1..Len(storages)
        PROVE  [group |-> storages[s].entity, share |-> storages[s].kind = "shared"] \in MemberType
    <3>1. storages[s].entity \in Nat
      BY <1>1, EntityOfStorage
    <3> QED BY <3>1 DEF MemberType
  <2> QED BY <1>1, <2>1 DEF Members
<1> HIDE DEF Groups, Members
<1>5. Groups \in Seq(AnswerType) /\ Len(Groups) = Len(entities)
  BY <1>1, <1>2, FunctionIsSeq
<1>6. Members \in Seq(MemberType) /\ Len(Members) = Len(storages)
  BY <1>1, <1>4, FunctionIsSeq
<1>7. \A s \in 1..Len(storages) : /\ Members[s].group = storages[s].entity
                                  /\ Members[s].share = (storages[s].kind = "shared")
  BY <1>4
<1> QED BY <1>1, <1>2, <1>3, <1>4, <1>5, <1>6, <1>7

LEMMA ContractSteps ==
    /\ Contract!vars = <<Lost, Groups, Members, Saved>>
    /\ \A s, i, x :
          /\ Contract!SetBase(s, i, x) <=>
                /\ Groups' = [Groups EXCEPT ![Members[s].group] = Based(Groups[Members[s].group], i, x)]
                /\ UNCHANGED <<Lost, Members, Saved>>
          /\ Contract!SetCheck(s, i, x) <=>
                /\ Groups' = [Groups EXCEPT ![Members[s].group] = Checked(Groups[Members[s].group], i, x)]
                /\ UNCHANGED <<Lost, Members, Saved>>
          /\ Contract!AddValue(s, i, x) <=>
                /\ Groups' = [Groups EXCEPT ![Members[s].group] = Valued(Groups[Members[s].group], i, <<x>>)]
                /\ UNCHANGED <<Lost, Members, Saved>>
    /\ \A s :
          /\ Contract!Clone(s) <=>
                /\ IF Members[s].share
                     THEN Groups' = Groups /\ Members' = Append(Members, Members[s])
                     ELSE /\ Groups' = Append(Groups, Groups[Members[s].group])
                          /\ Members' = Append(Members, [Members[s] EXCEPT !.group = Len(Groups) + 1])
                /\ UNCHANGED <<Lost, Saved>>
          /\ Contract!Save(s) <=>
                /\ Saved' \in {<<Groups[Members[s].group]>>, <<>>}
                /\ UNCHANGED <<Lost, Groups, Members>>
          /\ Contract!Load(s) <=>
                /\ Saved # <<>>
                /\ Groups' = Append(Groups, Contract!Recovered(Head(Saved)))
                /\ Members' = Append(Members, [group |-> Len(Groups) + 1, share |-> s])
                /\ UNCHANGED <<Lost, Saved>>
    /\ Contract!DestroyAll <=> Groups' = <<>> /\ Members' = <<>> /\ UNCHANGED <<Lost, Saved>>
BY DEF Contract!vars, Contract!SetBase, Contract!SetCheck, Contract!AddValue, Contract!Becomes,
   Contract!Clone, Contract!Save, Contract!Load, Contract!DestroyAll,
   Groups, Members, Lost, Saved, Based, Checked, Valued

LEMMA RecoveredParts ==
    ASSUME NEW entity \in Content
    PROVE  Contract!Recovered(Answers(entity)) =
             [cells |-> Answers(entity).cells, values |-> Contract!Recovered(Answers(entity)).values]
<1> DEFINE answers == Answers(entity)
           values == [i \in ValueIndex |->
                        IF answers.values[i] # <<>> /\ Head(answers.values[i]) \notin Lost
                          THEN answers.values[i] ELSE <<>>]
<1>1. answers \in [cells : [CellIndex -> CellType], values : [ValueIndex -> Element]]
  BY AnswersAre DEF AnswerType
<1> SUFFICES Contract!Recovered(answers) =
               [cells |-> answers.cells, values |-> Contract!Recovered(answers).values]
  OBVIOUS
<1> HIDE DEF answers
<1>2. Contract!Recovered(answers) = [answers EXCEPT !.values = values]
  BY DEF Contract!Recovered, Lost
<1> HIDE DEF values
<1>3. [answers EXCEPT !.values = values] = [cells |-> answers.cells, values |-> values]
  BY <1>1
<1> QED BY <1>2, <1>3

LEMMA LostAndSaved ==
    /\ UNCHANGED codec => UNCHANGED Lost
    /\ UNCHANGED <<file, written>> => UNCHANGED Saved
    /\ UNCHANGED storages => UNCHANGED Members
    /\ UNCHANGED entities => UNCHANGED Groups
BY DEF Lost, Saved, Members, Groups, KeptInFile, ToValue, Uninitialized

\* One group gets other contents.
LEMMA GroupChanges ==
    ASSUME MemoryInv, NEW s \in DOMAIN storages, NEW entity \in Content,
           entities' = [entities EXCEPT ![storages[s].entity] = entity],
           UNCHANGED <<codec, storages>>
    PROVE  /\ Groups' = [Groups EXCEPT ![Members[s].group] = Answers(entity)]
           /\ Groups[Members[s].group] = Answers(Entity(s))
           /\ Answers(entity) = Answers(Entity(s)) => Groups' = Groups
<1> DEFINE n == storages[s].entity
           new == [Groups EXCEPT ![n] = Answers(entity)]
<1>1. /\ n \in 1..Len(entities) /\ Entity(s) = entities[n] /\ s \in 1..Len(storages)
      /\ entities \in [1..Len(entities) -> Content] /\ DOMAIN entities = 1..Len(entities)
  BY EntityOfStorage, LenProperties DEF MemoryInv
<1>2. /\ Groups \in [1..Len(entities) -> AnswerType] /\ Members[s].group = n
      /\ \A k \in 1..Len(entities) : Groups[k] = Answers(entities[k])
  BY <1>1, GroupsAndMembers
<1>3. Groups' = [k \in DOMAIN entities' |-> Answers(entities'[k])]
  BY DEF Groups
<1> HIDE DEF n
<1>4. DOMAIN entities' = 1..Len(entities)
      /\ \A k \in 1..Len(entities) : entities'[k] = IF k = n THEN entity ELSE entities[k]
  BY <1>1 DEF n
<1>5. Groups' = [k \in 1..Len(entities) |-> IF k = n THEN Answers(entity) ELSE Groups[k]]
  BY <1>2, <1>3, <1>4
<1>6. new = [k \in 1..Len(entities) |-> IF k = n THEN Answers(entity) ELSE Groups[k]]
  BY <1>2
<1>7. Groups[n] = Answers(Entity(s))
  BY <1>1, <1>2
<1>8. ASSUME Answers(entity) = Answers(Entity(s)) PROVE Groups' = Groups
  <2>1. \A k \in 1..Len(entities) : (IF k = n THEN Answers(entity) ELSE Groups[k]) = Groups[k]
    BY <1>7, <1>8
  <2>2. Groups = [k \in 1..Len(entities) |-> Groups[k]]
    BY <1>2
  <2> HIDE DEF Groups
  <2> QED BY <1>5, <2>1, <2>2
<1> QED BY <1>2, <1>5, <1>6, <1>7, <1>8

\* There is one group more.
LEMMA GroupsGrow ==
    ASSUME MemoryInv, NEW entity \in Content, entities' = Append(entities, entity)
    PROVE  Groups' = Append(Groups, Answers(entity))
<1> DEFINE N == Len(entities)
           new == Append(Groups, Answers(entity))
           after == [k \in DOMAIN entities' |-> Answers(entities'[k])]
<1>1. /\ N \in Nat /\ Groups \in Seq(AnswerType) /\ Len(Groups) = N
      /\ \A k \in 1..N : Groups[k] = Answers(entities[k])
      /\ Answers(entity) \in AnswerType /\ entities \in Seq(Content)
  BY GroupsAndMembers, AnswersAre DEF MemoryInv
<1>2. /\ new \in Seq(AnswerType) /\ Len(new) = N + 1 /\ new[N + 1] = Answers(entity)
      /\ \A k \in 1..N : new[k] = Groups[k]
  BY <1>1, AppendProperties
<1>3. /\ entities' \in Seq(Content) /\ Len(entities') = N + 1 /\ entities'[N + 1] = entity
      /\ \A k \in 1..N : entities'[k] = entities[k]
  BY <1>1, AppendProperties
<1>4. DOMAIN entities' = 1..N + 1 /\ \A k \in 1..N + 1 : entities'[k] \in Content
  BY <1>3, LenProperties, ElementOfSeq
<1>5. Groups' = after
  BY DEF Groups
<1> HIDE DEF N, new
<1>6. after \in [1..N + 1 -> AnswerType] /\ \A k \in 1..N + 1 : after[k] = Answers(entities'[k])
  BY <1>4, AnswersAre
<1> HIDE DEF after
<1>7. after \in Seq(AnswerType) /\ Len(after) = N + 1
  <2>1. N + 1 \in Nat
    BY <1>1
  <2> DEFINE size == N + 1
  <2> HIDE DEF size
  <2> SUFFICES after \in Seq(AnswerType) /\ Len(after) = size
    BY DEF size
  <2>2. size \in Nat /\ after \in [1..size -> AnswerType]
    BY <1>6, <2>1 DEF size
  <2> QED BY <2>2, FunctionIsSeq
<1>8. \A k \in 1..N + 1 : after[k] = new[k]
  <2> TAKE k \in 1..N + 1
  <2>1. CASE k = N + 1
    BY <2>1, <1>2, <1>3, <1>6
  <2>2. CASE k # N + 1
    <3>1. k \in 1..N
      BY <2>2, <1>1
    <3> QED BY <3>1, <1>1, <1>2, <1>3, <1>6
  <2> QED BY <2>1, <2>2
<1>9. after = new
  BY <1>2, <1>7, <1>8, SeqEqual
<1> QED BY <1>5, <1>9 DEF new

\* There is one member more.
LEMMA MembersGrow ==
    ASSUME MemoryInv, NEW storage \in [kind : {"memory", "shared"}, entity : Nat],
           storages' = Append(storages, storage)
    PROVE  Members' = Append(Members, [group |-> storage.entity, share |-> storage.kind = "shared"])
<1> DEFINE N == Len(storages)
           S == [kind : {"memory", "shared"}, entity : Nat]
           member(x) == [group |-> x.entity, share |-> x.kind = "shared"]
           new == Append(Members, member(storage))
           after == [k \in DOMAIN storages' |-> member(storages'[k])]
<1>1. /\ N \in Nat /\ Members \in Seq(MemberType) /\ Len(Members) = N
      /\ \A k \in 1..N : Members[k] = member(storages[k])
  BY GroupsAndMembers
<1>2. \A x \in S : member(x) \in MemberType
  BY DEF MemberType
<1>3. storages \in Seq(S)
  <2> DEFINE T == [kind : {"memory", "shared"}, entity : 1..Len(entities)]
  <2>1. storages \in Seq(T) /\ T \subseteq S
    BY DEF MemoryInv
  <2> HIDE DEF S, T
  <2> QED BY <2>1, SeqMonotonic
<1>4. Members' = after
  BY DEF Members
<1>5. storage \in S
  OBVIOUS
<1> HIDE DEF S, N
<1>6. /\ storages' \in Seq(S) /\ Len(storages') = N + 1 /\ storages'[N + 1] = storage
      /\ \A k \in 1..N : storages'[k] = storages[k]
  BY <1>3, <1>5, AppendProperties DEF N
<1>7. DOMAIN storages' = 1..N + 1 /\ \A k \in 1..N + 1 : storages'[k] \in S
  BY <1>6, LenProperties, ElementOfSeq
<1> SUFFICES Members' = new
  OBVIOUS
<1> HIDE DEF member
<1>8. /\ new \in Seq(MemberType) /\ Len(new) = N + 1 /\ new[N + 1] = member(storage)
      /\ \A k \in 1..N : new[k] = Members[k]
  BY <1>1, <1>2, <1>5, AppendProperties
<1> HIDE DEF new
<1>9. after \in [1..N + 1 -> MemberType] /\ \A k \in 1..N + 1 : after[k] = member(storages'[k])
  BY <1>2, <1>7
<1> HIDE DEF after
<1>10. after \in Seq(MemberType) /\ Len(after) = N + 1
  <2> DEFINE size == N + 1
  <2>1. size \in Nat /\ after \in [1..size -> MemberType]
    BY <1>1, <1>9
  <2> SUFFICES after \in Seq(MemberType) /\ Len(after) = size
    OBVIOUS
  <2> HIDE DEF size
  <2> QED BY <2>1, FunctionIsSeq
<1>11. \A k \in 1..N + 1 : after[k] = new[k]
  <2> TAKE k \in 1..N + 1
  <2>1. CASE k = N + 1
    BY <2>1, <1>6, <1>8, <1>9
  <2>2. CASE k # N + 1
    <3>1. k \in 1..N
      BY <2>2, <1>1
    <3>2. after[k] = member(storages'[k]) /\ storages'[k] = storages[k]
      BY <3>1, <1>6, <1>9
    <3>3. new[k] = member(storages[k])
      BY <3>1, <1>1, <1>8
    <3> QED BY <3>2, <3>3
  <2> QED BY <2>1, <2>2
<1>12. after = new
  BY <1>8, <1>10, <1>11, SeqEqual
<1> QED BY <1>4, <1>12

LEMMA SettingImplements ==
    ASSUME IInv, NEW s \in DOMAIN storages
    PROVE  /\ \A index \in CellIndex, base \in Bases :
                 SetBaseAt(s, index, base) => Contract!SetBase(s, index, base)
           /\ \A index \in CellIndex, check \in Checks :
                 SetCheckAt(s, index, check) => Contract!SetCheck(s, index, check)
           /\ \A index \in ValueIndex, value \in codec.objects :
                 AddValueAt(s, index, value) => Contract!AddValue(s, index, value)
<1>0. /\ MemoryInv /\ CellIndex \subseteq Nat /\ ValueIndex \subseteq Nat
      /\ Bases \subseteq -BaseHalf..BaseHalf - 1 /\ Checks \subseteq Byte
      /\ Entity(s) \in Content /\ Entity(s) = entities[storages[s].entity]
  BY IndexAssumption, WordAssumption, EntityOfStorage DEF IInv
<1>1. \A index : WordAt(s, index) = At(Entity(s).cells, index, VacantWord)
  BY <1>0 DEF WordAt, At
<1>2. ASSUME NEW entity \in Content, InEntity(s, entity)
      PROVE  /\ Groups' = [Groups EXCEPT ![Members[s].group] = Answers(entity)]
             /\ Groups[Members[s].group] = Answers(Entity(s))
             /\ UNCHANGED <<Lost, Members, Saved>>
  BY <1>0, <1>2, GroupChanges, LostAndSaved DEF InEntity
<1>3. ASSUME NEW index \in CellIndex, NEW base \in Bases, SetBaseAt(s, index, base)
      PROVE  Contract!SetBase(s, index, base)
  <2> DEFINE word == WithBase(WordAt(s, index), base)
             entity == [Entity(s) EXCEPT !.cells = Replaced(@, index, VacantWord, word)]
  <2>1. word \in WordType
    BY <1>0, WordAtIs, SettingParts
  <2>2. entity \in Content
    <3> HIDE DEF word
    <3> QED BY <1>0, <2>1, ChangedEntities
  <2>3. Answers(entity) = Based(Answers(Entity(s)), index, base)
    <3> DEFINE e == Entity(s)
    <3>1. e \in Content /\ base \in -BaseHalf..BaseHalf - 1
      BY <1>0
    <3>2. word = WithBase(At(e.cells, index, VacantWord), base)
      BY <1>1
    <3> HIDE DEF e
    <3>3. Answers([e EXCEPT !.cells =
             Replaced(@, index, VacantWord, WithBase(At(e.cells, index, VacantWord), base))]) =
           Based(Answers(e), index, base)
      BY <3>1, AnswersOfSetting
    <3> QED BY <3>2, <3>3 DEF e
  <2>4. InEntity(s, entity)
    BY <1>3 DEF SetBaseAt
  <2> HIDE DEF entity
  <2>5. /\ Groups' = [Groups EXCEPT ![Members[s].group] =
                        Based(Groups[Members[s].group], index, base)]
        /\ UNCHANGED <<Lost, Members, Saved>>
    BY <1>2, <2>2, <2>3, <2>4
  <2> QED BY <2>5, ContractSteps
<1>4. ASSUME NEW index \in CellIndex, NEW check \in Checks, SetCheckAt(s, index, check)
      PROVE  Contract!SetCheck(s, index, check)
  <2> DEFINE word == WithCheck(WordAt(s, index), check)
             entity == [Entity(s) EXCEPT !.cells = Replaced(@, index, VacantWord, word)]
  <2>1. word \in WordType
    BY <1>0, WordAtIs, SettingParts
  <2>2. entity \in Content
    <3> HIDE DEF word
    <3> QED BY <1>0, <2>1, ChangedEntities
  <2>3. Answers(entity) = Checked(Answers(Entity(s)), index, check)
    <3> DEFINE e == Entity(s)
    <3>1. e \in Content /\ check \in Byte
      BY <1>0
    <3>2. word = WithCheck(At(e.cells, index, VacantWord), check)
      BY <1>1
    <3> HIDE DEF e
    <3>3. Answers([e EXCEPT !.cells =
             Replaced(@, index, VacantWord, WithCheck(At(e.cells, index, VacantWord), check))]) =
           Checked(Answers(e), index, check)
      BY <3>1, AnswersOfSetting
    <3> QED BY <3>2, <3>3 DEF e
  <2>4. InEntity(s, entity)
    BY <1>4 DEF SetCheckAt
  <2> HIDE DEF entity
  <2>5. /\ Groups' = [Groups EXCEPT ![Members[s].group] =
                        Checked(Groups[Members[s].group], index, check)]
        /\ UNCHANGED <<Lost, Members, Saved>>
    BY <1>2, <2>2, <2>3, <2>4
  <2> QED BY <2>5, ContractSteps
<1>5. ASSUME NEW index \in ValueIndex, NEW value \in codec.objects, AddValueAt(s, index, value)
      PROVE  Contract!AddValue(s, index, value)
  <2> DEFINE entity == [Entity(s) EXCEPT !.values = Replaced(@, index, <<>>, <<value>>)]
  <2>1. entity \in Content
    BY <1>0, ChangedEntities
  <2>2. Answers(entity) = Valued(Answers(Entity(s)), index, <<value>>)
    <3>1. <<value>> \in Element
      BY DEF Element
    <3> QED BY <1>0, <3>1, AnswersOfAdding
  <2>3. InEntity(s, entity)
    BY <1>5 DEF AddValueAt
  <2> HIDE DEF entity
  <2> QED BY <1>2, <2>1, <2>2, <2>3, ContractSteps
<1> QED BY <1>3, <1>4, <1>5

\* Looking changes the array and not what it answers.
LEMMA LookingStutters ==
    ASSUME IInv, NEW s \in DOMAIN storages, NEW index \in CellIndex, LookAt(s, index)
    PROVE  UNCHANGED <<Lost, Groups, Members, Saved>>
<1> DEFINE entity == [Entity(s) EXCEPT !.cells = Grown(@, index + 1, VacantWord)]
<1>1. MemoryInv /\ index \in Nat /\ Entity(s) \in Content
  BY IndexAssumption, EntityOfStorage DEF IInv
<1>2. /\ entities' = [entities EXCEPT ![storages[s].entity] = entity]
      /\ UNCHANGED <<codec, storages, file, written, mapped, cacheVars>>
  BY <1>1, LookAtEntities
<1>3. entity \in Content
  BY <1>1, ChangedEntities
<1>4. Answers(entity) = Answers(Entity(s))
  BY <1>1, AnswersOfLooking
<1> HIDE DEF entity
<1>5. Groups' = Groups
  BY <1>1, <1>2, <1>3, <1>4, GroupChanges
<1> QED BY <1>2, <1>5, LostAndSaved

LEMMA CloneImplements ==
    ASSUME IInv, NEW s \in DOMAIN storages, Clone(s)
    PROVE  Contract!Clone(s)
<1>1. MemoryInv /\ UNCHANGED <<Lost, Saved>>
  BY LostAndSaved DEF IInv, Clone
<1>2. /\ s \in 1..Len(storages) /\ Entity(s) \in Content /\ storages[s].entity \in 1..Len(entities)
      /\ Entity(s) = entities[storages[s].entity] /\ Len(entities) \in Nat
      /\ storages[s] \in [kind : {"memory", "shared"}, entity : Nat]
  BY <1>1, EntityOfStorage, GroupsAndMembers
<1>3. /\ Members[s] = [group |-> storages[s].entity, share |-> storages[s].kind = "shared"]
      /\ Members[s].group = storages[s].entity /\ Members[s].share = (storages[s].kind = "shared")
      /\ Groups[storages[s].entity] = Answers(Entity(s)) /\ Len(Groups) = Len(entities)
      /\ Members[s] \in MemberType
  BY <1>1, <1>2, GroupsAndMembers
<1>4. CASE storages[s].kind = "shared"
  <2>1. entities' = entities /\ storages' = Append(storages, storages[s])
    BY <1>4 DEF Clone
  <2>2. Groups' = Groups
    BY <2>1, LostAndSaved
  <2>3. Members' = Append(Members, [group |-> storages[s].entity, share |-> storages[s].kind = "shared"])
    BY <1>1, <1>2, <2>1, MembersGrow
  <2> QED BY <1>1, <1>3, <1>4, <2>2, <2>3, ContractSteps
<1>5. CASE storages[s].kind # "shared"
  <2> DEFINE storage == [kind |-> "memory", entity |-> Len(entities) + 1]
             member == [group |-> Len(entities) + 1, share |-> FALSE]
  <2>1. entities' = Append(entities, Entity(s)) /\ storages' = Append(storages, storage)
    BY <1>5 DEF Clone
  <2>2. Groups' = Append(Groups, Groups[Members[s].group])
    BY <1>1, <1>2, <1>3, <2>1, GroupsGrow
  <2>3. storage \in [kind : {"memory", "shared"}, entity : Nat]
    BY <1>2
  <2>4. Members' = Append(Members, member)
    <3>1. Members' = Append(Members, [group |-> storage.entity, share |-> storage.kind = "shared"])
      <4> HIDE DEF storage
      <4> QED BY <1>1, <2>1, <2>3, MembersGrow
    <3>2. storage.entity = Len(entities) + 1 /\ (storage.kind = "shared") = FALSE
      OBVIOUS
    <3> QED BY <3>1, <3>2
  <2>5. [Members[s] EXCEPT !.group = Len(Groups) + 1] = member
    <3> DEFINE old == Members[s]
               size == Len(Groups) + 1
    <3>1. old \in [group : Nat, share : BOOLEAN] /\ old.share = FALSE
      BY <1>3, <1>5 DEF MemberType
    <3> SUFFICES [old EXCEPT !.group = size] = member
      OBVIOUS
    <3>2. member = [group |-> size, share |-> FALSE]
      BY <1>3
    <3> HIDE DEF old, size
    <3>3. [old EXCEPT !.group = size] = [group |-> size, share |-> old.share]
      BY <3>1
    <3> QED BY <3>1, <3>2, <3>3
  <2> HIDE DEF member
  <2> QED BY <1>1, <1>3, <1>5, <2>2, <2>4, <2>5, ContractSteps
<1> QED BY <1>4, <1>5

LEMMA SerializeImplements ==
    ASSUME IInv, NEW s \in DOMAIN storages, Serialize(s)
    PROVE  Contract!Save(s)
<1>1. MemoryInv /\ UNCHANGED <<Lost, Members, Groups>>
  BY LostAndSaved DEF IInv, Serialize, memoryVars
<1>2. Groups[Members[s].group] = Answers(Entity(s))
  BY <1>1, EntityOfStorage, GroupsAndMembers
<1>3. Saved' \in {<<Answers(Entity(s))>>, <<>>}
  <2>1. written'.entity = Entity(s)
    BY DEF Serialize
  <2> QED BY <2>1 DEF Saved
<1> QED BY <1>1, <1>2, <1>3, ContractSteps

\* What is loaded is what the contract recovers.
LEMMA LoadImplements ==
    ASSUME IInv, NEW kind \in {"memory", "shared"}, Load(kind)
    PROVE  Contract!Load(kind = "shared") \/ UNCHANGED <<Lost, Groups, Members, Saved>>
<1>1. MemoryInv /\ FileInv /\ UNCHANGED <<Lost, Saved>> /\ written.length > 0
  BY LostAndSaved DEF IInv, Load
<1>2. CASE Deserialized.failed
  BY <1>1, <1>2, LostAndSaved DEF Load
<1>3. CASE ~Deserialized.failed
  <2> DEFINE e == written.entity
             loaded == [cells |-> Deserialized.cells, values |-> Deserialized.values]
             storage == [kind |-> kind, entity |-> Len(entities) + 1]
  <2>1. entities' = Append(entities, loaded) /\ storages' = Append(storages, storage)
    BY <1>3 DEF Load
  <2>2. /\ Len(file) = written.length /\ loaded.cells = e.cells /\ loaded \in Content
        /\ loaded.values = KeptUpTo(e, Len(e.values)) /\ e \in Content /\ codec \in Codecs
    <3>1. written.length # 0
      BY <1>1 DEF FileInv
    <3> QED BY <1>1, <1>3, <3>1, LoadedIs DEF FileInv, MemoryInv
  <2>3. Saved = <<Answers(e)>> /\ Head(Saved) = Answers(e) /\ Saved # <<>>
    BY <1>1, <2>2 DEF Saved
  <2> HIDE DEF loaded
  <2>4. Answers(loaded) = Contract!Recovered(Answers(e))
    <3> HIDE DEF e
    <3>1. Len(e.values) \in Nat /\ Len(loaded.values) = Len(e.values)
          /\ \A i \in 1..Len(e.values) : loaded.values[i] = Kept(e.values[i])
      <4>1. Len(e.values) \in Nat /\ Len(e.values) \in 0..Len(e.values)
        BY <2>2, ChunksType
      <4> QED BY <2>2, <4>1, KeptType
    <3>2. Answers(loaded).cells = Answers(e).cells
      BY <2>2 DEF Answers
    <3>3. Answers(loaded).values =
            [i \in ValueIndex |-> IF i < Len(e.values) THEN Kept(e.values[i + 1]) ELSE <<>>]
      <4>1. \A i \in ValueIndex : At(loaded.values, i, <<>>) =
              IF i < Len(e.values) THEN Kept(e.values[i + 1]) ELSE <<>>
        <5> TAKE i \in ValueIndex
        <5>1. i \in Nat
          BY IndexAssumption
        <5>2. CASE i < Len(e.values)
          <6>1. i + 1 \in 1..Len(e.values)
            BY <3>1, <5>1, <5>2
          <6>2. loaded.values[i + 1] = Kept(e.values[i + 1])
            BY <3>1, <6>1
          <6> QED BY <3>1, <5>2, <6>2 DEF At
        <5>3. CASE ~(i < Len(e.values))
          BY <3>1, <5>3 DEF At
        <5> QED BY <5>2, <5>3
      <4>2. Answers(loaded).values = [i \in ValueIndex |-> At(loaded.values, i, <<>>)]
        BY <2>2, AnswersAre
      <4> QED BY <4>1, <4>2
    <3>4. Contract!Recovered(Answers(e)).values = Answers(loaded).values
      BY <2>2, <3>3, RecoveredIs
    <3>5. Contract!Recovered(Answers(e)) =
            [cells |-> Answers(e).cells, values |-> Contract!Recovered(Answers(e)).values]
      BY <2>2, RecoveredParts
    <3>6. Answers(loaded) = [cells |-> Answers(loaded).cells, values |-> Answers(loaded).values]
      BY <2>2, AnswersAre
    <3> QED BY <3>2, <3>4, <3>5, <3>6
  <2>5. Groups' = Append(Groups, Contract!Recovered(Head(Saved)))
    BY <1>1, <2>1, <2>2, <2>3, <2>4, GroupsGrow
  <2>6. Members' = Append(Members, [group |-> Len(Groups) + 1, share |-> (kind = "shared")])
    <3>1. storage \in [kind : {"memory", "shared"}, entity : Nat] /\ Len(Groups) = Len(entities)
      BY <1>1, GroupsAndMembers
    <3>2. Members' = Append(Members, [group |-> storage.entity, share |-> storage.kind = "shared"])
      <4> HIDE DEF storage
      <4> QED BY <1>1, <2>1, <3>1, MembersGrow
    <3>3. storage.entity = Len(entities) + 1 /\ storage.kind = kind
      OBVIOUS
    <3> QED BY <3>1, <3>2, <3>3
  <2> DEFINE share == kind = "shared"
  <2>7. Members' = Append(Members, [group |-> Len(Groups) + 1, share |-> share])
    BY <2>6
  <2> SUFFICES Contract!Load(share)
    OBVIOUS
  <2> HIDE DEF share
  <2> QED BY <1>1, <2>3, <2>5, <2>7, ContractSteps
<1> QED BY <1>2, <1>3

LEMMA InitImplements == Init => Contract!Init
<1> SUFFICES ASSUME Init PROVE Contract!Init
  OBVIOUS
<1>1. IInv /\ codec \in Codecs /\ entities = <<NewEntity>>
  BY InitSatisfies DEF Init
<1>2. PICK kind \in {"memory", "shared"} : storages = <<[kind |-> kind, entity |-> 1]>>
  BY DEF Init
<1>3. Lost \subseteq UNION {c.objects : c \in Codecs}
  BY <1>1 DEF Lost
<1>4. Saved = <<>>
  BY DEF Init, Saved
<1> DEFINE new == [base |-> 0, check |-> TopByte]
           untouched == [cells |-> [i \in CellIndex |-> new], values |-> [i \in ValueIndex |-> <<>>]]
           member == [group |-> 1, share |-> kind = "shared"]
<1>5. NewEntity \in Content /\ NewEntity.cells = <<VacantWord>> /\ NewEntity.values = <<>>
  <2>1. entities[1] = NewEntity /\ 1 \in 1..Len(entities)
    BY <1>1
  <2>2. entities[1] \in Content
    BY <1>1, <2>1, ElementOfSeq DEF IInv, MemoryInv
  <2> QED BY <2>1, <2>2 DEF NewEntity
<1>6. Answers(NewEntity) = untouched
  <2>1. /\ Answers(NewEntity).cells = [i \in CellIndex |-> CellOf(At(NewEntity.cells, i, VacantWord))]
        /\ Answers(NewEntity).values = [i \in ValueIndex |-> At(NewEntity.values, i, <<>>)]
        /\ Answers(NewEntity) = [cells |-> Answers(NewEntity).cells, values |-> Answers(NewEntity).values]
    BY <1>5, AnswersAre
  <2>2. ASSUME NEW i \in CellIndex PROVE CellOf(At(NewEntity.cells, i, VacantWord)) = new
    <3>1. At(NewEntity.cells, i, VacantWord) = VacantWord
      <4>1. Len(<<VacantWord>>) = 1 /\ <<VacantWord>>[1] = VacantWord
        OBVIOUS
      <4>2. i < 1 => i + 1 = 1
        BY IndexAssumption
      <4> QED BY <1>5, <4>1, <4>2 DEF At
    <3> QED BY <3>1, VacantParts DEF CellOf
  <2>3. ASSUME NEW i \in ValueIndex PROVE At(NewEntity.values, i, <<>>) = <<>>
    <3>1. ~(i < 0)
      BY IndexAssumption
    <3> QED BY <1>5, <3>1 DEF At
  <2>4. /\ Answers(NewEntity).cells = [i \in CellIndex |-> new]
        /\ Answers(NewEntity).values = [i \in ValueIndex |-> <<>>]
    BY <2>1, <2>2, <2>3
  <2> QED BY <2>1, <2>4
<1>7. Groups = <<untouched>>
  <2>1. MemoryInv /\ Len(entities) = 1 /\ entities[1] = NewEntity
    BY <1>1 DEF IInv
  <2>2. Groups \in Seq(AnswerType) /\ Len(Groups) = 1 /\ Groups[1] = Answers(NewEntity)
    BY <2>1, GroupsAndMembers
  <2> HIDE DEF Groups, untouched
  <2>3. Groups = <<Groups[1]>>
    BY <2>2
  <2> QED BY <2>2, <2>3, <1>6
<1>8. Members = <<member>>
  <2>1. MemoryInv /\ Len(storages) = 1 /\ storages[1].entity = 1 /\ storages[1].kind = kind
    BY <1>1, <1>2 DEF IInv
  <2>2. Members \in Seq(MemberType) /\ Len(Members) = 1 /\ Members[1] = member
    BY <2>1, GroupsAndMembers
  <2> HIDE DEF Members, member
  <2>3. Members = <<Members[1]>>
    BY <2>2
  <2> QED BY <2>2, <2>3
<1> DEFINE share == kind = "shared"
<1>9. share \in BOOLEAN /\ Members = <<[group |-> 1, share |-> share]>>
  BY <1>8
<1> HIDE DEF share
<1>10. /\ Lost \subseteq UNION {c.objects : c \in Codecs} /\ Groups = <<untouched>> /\ Saved = <<>>
       /\ \E x \in BOOLEAN : Members = <<[group |-> 1, share |-> x]>>
  BY <1>3, <1>4, <1>7, <1>9
<1>11. Contract!Init <=>
         /\ Lost \subseteq UNION {c.objects : c \in Codecs} /\ Groups = <<untouched>> /\ Saved = <<>>
         /\ \E x \in BOOLEAN : Members = <<[group |-> 1, share |-> x]>>
  BY DEF Contract!Init, Contract!Untouched, Lost, Groups, Members, Saved
<1> QED BY <1>10, <1>11

LEMMA NextImplements ==
    IInv /\ [Next]_vars => [Contract!Next]_(Contract!vars)
<1> SUFFICES ASSUME IInv, [Next]_vars PROVE [Contract!Next]_(Contract!vars)
  OBVIOUS
<1> DEFINE Same == UNCHANGED <<Lost, Groups, Members, Saved>>
<1>0. Same => UNCHANGED Contract!vars
  BY DEF Contract!vars, Lost, Groups, Members, Saved
<1>1. /\ DOMAIN Members = DOMAIN storages
      /\ codec.objects \subseteq UNION {c.objects : c \in Codecs}
  BY GroupsAndMembers DEF IInv, MemoryInv
<1>2. Contract!Next <=>
        \/ Contract!DestroyAll
        \/ \E m \in DOMAIN Members :
              \/ \E i \in CellIndex, base \in Bases : Contract!SetBase(m, i, base)
              \/ \E i \in CellIndex, check \in Checks : Contract!SetCheck(m, i, check)
              \/ \E i \in ValueIndex, value \in UNION {c.objects : c \in Codecs} :
                    Contract!AddValue(m, i, value)
              \/ Contract!Clone(m)
              \/ Contract!Save(m)
        \/ \E share \in BOOLEAN : Contract!Load(share)
  BY DEF Contract!Next, Members
<1>3. ASSUME NEW s \in DOMAIN storages, NEW index \in CellIndex, NEW base \in Bases,
             SetBaseAt(s, index, base)
      PROVE  Contract!Next
  BY <1>1, <1>2, <1>3, SettingImplements
<1>4. ASSUME NEW s \in DOMAIN storages, NEW index \in CellIndex, NEW check \in Checks,
             SetCheckAt(s, index, check)
      PROVE  Contract!Next
  BY <1>1, <1>2, <1>4, SettingImplements
<1>5. ASSUME NEW s \in DOMAIN storages, NEW index \in ValueIndex, NEW value \in codec.objects,
             AddValueAt(s, index, value)
      PROVE  Contract!Next
  BY <1>1, <1>2, <1>5, SettingImplements
<1>6. ASSUME NEW s \in DOMAIN storages, NEW index \in CellIndex, LookAt(s, index) PROVE Same
  BY <1>6, LookingStutters
<1>7. ASSUME NEW s \in DOMAIN storages, Clone(s) PROVE Contract!Next
  BY <1>1, <1>2, <1>7, CloneImplements
<1>8. ASSUME NEW s \in DOMAIN storages, Serialize(s) PROVE Contract!Next
  BY <1>1, <1>2, <1>8, SerializeImplements
<1>9. CASE DestroyAll
  <2>1. Groups' = <<>> /\ Members' = <<>>
    <3>1. entities' = <<>> /\ storages' = <<>>
      BY <1>9 DEF DestroyAll
    <3>2. Groups' = [n \in {} |-> Answers(entities'[n])]
      BY <3>1 DEF Groups
    <3>3. Members' = [s \in {} |-> [group |-> storages'[s].entity, share |-> storages'[s].kind = "shared"]]
      BY <3>1 DEF Members
    <3> QED BY <3>2, <3>3
  <2>2. UNCHANGED <<Lost, Saved>>
    BY <1>9, LostAndSaved DEF DestroyAll
  <2> QED BY <2>1, <2>2, <1>2, ContractSteps
<1>10. ASSUME NEW kind \in {"memory", "shared"}, Load(kind) PROVE Contract!Next \/ Same
  <2> DEFINE share == kind = "shared"
  <2>1. share \in BOOLEAN /\ (Contract!Load(share) \/ Same)
    BY <1>10, LoadImplements
  <2> HIDE DEF share, Same
  <2> QED BY <2>1, <1>2
<1>11. ASSUME UNCHANGED <<memoryVars, file, written>> PROVE Same
  BY <1>11, LostAndSaved DEF memoryVars
<1>12. ASSUME NEW capacity \in Capacities, NEW offset \in ContentOffsets, Map(capacity, offset)
       PROVE  Same
  BY <1>11, <1>12 DEF Map
<1>13. ASSUME ReadHeader PROVE Same
  BY <1>11, <1>13 DEF ReadHeader
<1>14. ASSUME NEW index \in ValueIndex, Hit(index) \/ Miss(index) \/ Beyond(index) PROVE Same
  BY <1>11, <1>14 DEF Hit, Miss, Beyond
<1>15. ASSUME UNCHANGED vars PROVE Same
  BY <1>11, <1>15 DEF vars
<1> HIDE DEF Same
<1>16. CASE Next
  BY <1>16, <1>0, <1>3, <1>4, <1>5, <1>6, <1>7, <1>8, <1>9, <1>10, <1>12, <1>13, <1>14 DEF Next
<1> QED BY <1>0, <1>15, <1>16

\* Every storage, clone and loaded file answers what the contract says, and from a part
\* of a file nothing is loaded.
THEOREM ImplementsContract == Spec => ImplementsStorageContract
<1>1. Init => Contract!Init
  BY InitImplements
<1>2. IInv /\ [Next]_vars => [Contract!Next]_(Contract!vars)
  BY NextImplements
<1> QED BY <1>1, <1>2, Invariance, PTL DEF Spec, ImplementsStorageContract, Contract!Spec
=============================================================================
