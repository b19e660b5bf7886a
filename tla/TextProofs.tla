----------------------------- MODULE TextProofs -----------------------------
(***************************************************************************)
(* The readers of the Unicode encodings, the grapheme segmenter, split()   *)
(* and the conversion to and from CP932, for texts and sequences of break  *)
(* properties of every length.                                             *)
(***************************************************************************)
EXTENDS Text, FlattenLemmas

-----------------------------------------------------------------------------
(* Counting regional indicators                                            *)

Regionals(p, k) == {j \in 1..k : \A i \in j..k : p[i] = "regional"}

\* The count goes on with a regional indicator and starts again after anything else.
LEMMA RegionalsRecurrence ==
    ASSUME NEW p, NEW k \in Nat
    PROVE  /\ RegionalsUpTo(p, k) \in Nat
           /\ p[k + 1] = "regional" => RegionalsUpTo(p, k + 1) = RegionalsUpTo(p, k) + 1
           /\ p[k + 1] # "regional" => RegionalsUpTo(p, k + 1) = 0
<1>1. RegionalsUpTo(p, k) = Cardinality(Regionals(p, k))
      /\ RegionalsUpTo(p, k + 1) = Cardinality(Regionals(p, k + 1))
  BY DEF RegionalsUpTo, Regionals
<1>2. IsFiniteSet(Regionals(p, k))
  <2>1. IsFiniteSet(1..k) /\ Regionals(p, k) \in SUBSET (1..k)
    BY FS_Interval DEF Regionals
  <2> QED BY <2>1, FS_Subset
<1>3. Cardinality(Regionals(p, k)) \in Nat
  BY <1>2, FS_CardinalityType
<1>4. ASSUME p[k + 1] = "regional"
      PROVE  RegionalsUpTo(p, k + 1) = RegionalsUpTo(p, k) + 1
  <2>1. Regionals(p, k + 1) = Regionals(p, k) \cup {k + 1}
    <3>1. ASSUME NEW j \in 1..k + 1
          PROVE  (\A i \in j..k + 1 : p[i] = "regional")
                   <=> j = k + 1 \/ \A i \in j..k : p[i] = "regional"
      BY <1>4
    <3>2. \A j \in 1..k + 1 : j = k + 1 \/ j \in 1..k
      OBVIOUS
    <3>3. \A j \in 1..k : j \in 1..k + 1
      OBVIOUS
    <3> QED BY <3>1, <3>2, <3>3 DEF Regionals
  <2>2. k + 1 \notin Regionals(p, k)
    BY DEF Regionals
  <2>3. Cardinality(Regionals(p, k) \cup {k + 1}) = Cardinality(Regionals(p, k)) + 1
    BY <1>2, <2>2, FS_AddElement
  <2> QED BY <1>1, <2>1, <2>3
<1>5. ASSUME p[k + 1] # "regional" PROVE RegionalsUpTo(p, k + 1) = 0
  <2>1. Regionals(p, k + 1) = {}
    BY <1>5 DEF Regionals
  <2> QED BY <1>1, <2>1, FS_EmptySet
<1> QED BY <1>1, <1>3, <1>4, <1>5

LEMMA NoRegionals == ASSUME NEW p PROVE RegionalsUpTo(p, 0) = 0
<1>1. {j \in 1..0 : \A i \in j..0 : p[i] = "regional"} = {}
  OBVIOUS
<1> QED BY <1>1, FS_EmptySet DEF RegionalsUpTo

\* The table of the pairs that connect says what the rules say of two neighbours,
\* but for the pair of two regional indicators.
LEMMA TableFollowsRules ==
    ASSUME NEW a \in BreakProperty, NEW b \in BreakProperty
    PROVE  <<a, b>> \in Connecting <=>
             \/ a = "cr" /\ b = "lf"
             \/ /\ {a, b} \cap {"cr", "lf", "control"} = {}
                /\ \/ b \in {"extend", "zwj", "spacing_mark"}
                   \/ a = "prepend"
                   \/ a = "l" /\ b \in {"l", "v", "lv", "lvt"}
                   \/ a \in {"lv", "v"} /\ b \in {"v", "t"}
                   \/ a \in {"lvt", "t"} /\ b = "t"
                   \/ a = "zwj" /\ b = "other"
                   \/ a = "regional" /\ b = "regional"
<1>1. <<a, b>> \in Connecting <=>
         \/ a = "cr" /\ b = "lf"
         \/ a = "zwj" /\ b = "other"
         \/ a = "regional" /\ b = "regional"
         \/ a \notin {"cr", "lf", "control"} /\ b \in {"extend", "zwj", "spacing_mark"}
         \/ a = "prepend" /\ b \notin {"cr", "lf", "control"}
         \/ a = "l" /\ b \in {"l", "v", "lv", "lvt"}
         \/ a \in {"v", "lv"} /\ b \in {"v", "t"}
         \/ a \in {"t", "lvt"} /\ b = "t"
  BY DEF Connecting, Modifier
<1>2. {a, b} \cap {"cr", "lf", "control"} = {} <=>
         a \notin {"cr", "lf", "control"} /\ b \notin {"cr", "lf", "control"}
  OBVIOUS
<1> QED BY <1>1, <1>2 DEF BreakProperty

-----------------------------------------------------------------------------
(* The segmenter                                                           *)

IsIn(list, k) == \E i \in DOMAIN list : list[i] = k

\* Whether the character at the index has a regional indicator before it to pair up
\* with: the counter and the count of the rules differ by one, but only where it
\* matters.
CounterInv ==
    /\ Before = "regional" => (regionalCount + 1) % 2 = RegionalsUpTo(properties, index) % 2
    /\ Before = "prepend" => regionalCount = 0

\* The offsets of a segmenter that has come to a place: 0 and those up to the place
\* that the rules break at.
OffsetsUpTo(last, list, p) ==
    /\ list # <<>> /\ list[1] = 0
    /\ \A i \in DOMAIN list : list[i] \in 0..last
    /\ \A i, j \in DOMAIN list : i < j => list[i] < list[j]
    /\ \A k \in 1..last : IsIn(list, k) <=> k = Len(p) \/ ~StaysTogether(p, k)

SegmentInv ==
    /\ properties \in Seq(BreakProperty)
    /\ segmentOffsets \in Seq(Nat)
    /\ segmenting \in {"idle", "run", "end"}
    /\ segmenting = "run" =>
          /\ index \in 1..Len(properties) /\ regionalCount \in Nat
          /\ CounterInv /\ OffsetsUpTo(index - 1, segmentOffsets, properties)
    /\ segmenting = "end" =>
          \/ properties = <<>> /\ segmentOffsets = <<>>
          \/ OffsetsUpTo(Len(properties), segmentOffsets, properties)

\* Before the loop 0 is the only offset, and nothing has been counted.
LEMMA FirstOffset ==
    ASSUME NEW breaks \in Seq(BreakProperty)
    PROVE  /\ OffsetsUpTo(0, <<0>>, breaks)
           /\ breaks # <<>> => 1 \in 1..Len(breaks)
           /\ breaks[1] = "regional" => RegionalsUpTo(breaks, 1) = 1
           /\ <<0>> \in Seq(Nat) /\ <<>> \in Seq(Nat)
<1>1. RegionalsUpTo(breaks, 0) = 0
  BY NoRegionals
<1>2. breaks[0 + 1] = "regional" => RegionalsUpTo(breaks, 0 + 1) = 0 + 1
  BY <1>1, RegionalsRecurrence
<1>3. OffsetsUpTo(0, <<0>>, breaks)
  BY DEF OffsetsUpTo
<1>4. breaks # <<>> => 1 \in 1..Len(breaks)
  BY LenProperties, EmptySeq
<1> QED BY <1>2, <1>3, <1>4

\* The beginning of the loop, of a call and within split().
LEMMA SegmentingBegins ==
    ASSUME NEW breaks \in Seq(BreakProperty), SegmentingStarts(breaks)
    PROVE  SegmentInv
<1>1. properties = breaks /\ segmenting = (IF breaks = <<>> THEN "end" ELSE "run")
      /\ segmentOffsets = (IF breaks = <<>> THEN <<>> ELSE <<0>>)
      /\ index = 1 /\ index - 1 = 0 /\ regionalCount = 0
  BY DEF SegmentingStarts
<1>2. OffsetsUpTo(0, <<0>>, breaks) /\ <<0>> \in Seq(Nat) /\ <<>> \in Seq(Nat)
      /\ (breaks # <<>> => 1 \in 1..Len(breaks))
  BY FirstOffset
<1>3. CounterInv
  BY <1>1, FirstOffset DEF CounterInv, Before
<1> QED BY <1>1, <1>2, <1>3 DEF SegmentInv

LEMMA SplitSegmentingBegins ==
    ASSUME NEW breaks \in Seq(BreakProperty), StartSegmenting(breaks)
    PROVE  SegmentInv'
<1>1. properties' = breaks /\ segmenting' = (IF breaks = <<>> THEN "end" ELSE "run")
      /\ segmentOffsets' = (IF breaks = <<>> THEN <<>> ELSE <<0>>)
      /\ index' = 1 /\ index' - 1 = 0 /\ regionalCount' = 0
  BY DEF StartSegmenting
<1>2. OffsetsUpTo(0, <<0>>, breaks) /\ <<0>> \in Seq(Nat) /\ <<>> \in Seq(Nat)
      /\ (breaks # <<>> => 1 \in 1..Len(breaks))
  BY FirstOffset
<1>3. CounterInv'
  BY <1>1, FirstOffset DEF CounterInv, Before
<1> QED BY <1>1, <1>2, <1>3 DEF SegmentInv

\* A place that the rules do not break at adds nothing to the offsets, another itself.
LEMMA OffsetSkipped ==
    ASSUME NEW k \in Nat \ {0}, NEW list \in Seq(Nat), NEW p, OffsetsUpTo(k - 1, list, p),
           k # Len(p), StaysTogether(p, k)
    PROVE  OffsetsUpTo(k, list, p)
<1>1. \A i \in DOMAIN list : list[i] \in 0..k - 1
  BY DEF OffsetsUpTo
<1>2. \A i \in DOMAIN list : list[i] \in 0..k
  BY <1>1
<1>3. ~IsIn(list, k)
  BY <1>1 DEF IsIn
<1>4. \A j \in 1..k : j = k \/ j \in 1..k - 1
  OBVIOUS
<1> QED BY <1>2, <1>3, <1>4 DEF OffsetsUpTo

LEMMA OffsetAdded ==
    ASSUME NEW k \in Nat \ {0}, NEW list \in Seq(Nat), NEW p, OffsetsUpTo(k - 1, list, p),
           k = Len(p) \/ ~StaysTogether(p, k)
    PROVE  OffsetsUpTo(k, Append(list, k), p)
<1> DEFINE new == Append(list, k)
<1>1. /\ new \in Seq(Nat) /\ Len(new) = Len(list) + 1 /\ Len(list) \in Nat
      /\ new[Len(list) + 1] = k /\ \A i \in 1..Len(list) : new[i] = list[i]
      /\ DOMAIN new = 1..Len(list) + 1 /\ DOMAIN list = 1..Len(list)
  BY AppendProperties, LenProperties
<1>2. \A i \in DOMAIN list : list[i] \in 0..k - 1
  BY DEF OffsetsUpTo
<1>3. \A i \in 1..Len(list) + 1 : i = Len(list) + 1 \/ i \in 1..Len(list)
  BY <1>1
<1> HIDE DEF new
<1>4. new # <<>> /\ new[1] = 0
  <2>1. Len(list) # 0
    BY EmptySeq DEF OffsetsUpTo
  <2>2. new[1] = list[1]
    BY <2>1, <1>1
  <2>3. Len(new) # 0
    BY <1>1
  <2> QED BY <2>2, <2>3, EmptySeq DEF OffsetsUpTo
<1>5. \A i \in DOMAIN new : new[i] \in 0..k
  <2>1. \A x \in 0..k - 1 : x \in 0..k
    OBVIOUS
  <2>2. \A i \in 1..Len(list) : new[i] \in 0..k
    BY <1>1, <1>2, <2>1
  <2>3. new[Len(list) + 1] \in 0..k
    BY <1>1
  <2> QED BY <1>1, <1>3, <2>2, <2>3
<1>6. ASSUME NEW i \in DOMAIN new, NEW j \in DOMAIN new, i < j PROVE new[i] < new[j]
  <2>1. i \in 1..Len(list)
    BY <1>1, <1>6
  <2>2. CASE j \in 1..Len(list)
    BY <2>1, <2>2, <1>1, <1>6 DEF OffsetsUpTo
  <2>3. CASE j = Len(list) + 1
    BY <2>1, <2>3, <1>1, <1>2
  <2> QED BY <2>2, <2>3, <1>1, <1>3
<1>7. ASSUME NEW j \in 1..k
      PROVE  IsIn(new, j) <=> j = Len(p) \/ ~StaysTogether(p, j)
  <2>1. IsIn(new, j) <=> IsIn(list, j) \/ j = k
    <3>1. Len(list) + 1 \in 1..Len(list) + 1 /\ \A i \in 1..Len(list) : i \in 1..Len(list) + 1
      BY <1>1
    <3>2. IsIn(list, j) \/ j = k => IsIn(new, j)
      BY <1>1, <3>1 DEF IsIn
    <3>3. IsIn(new, j) => IsIn(list, j) \/ j = k
      BY <1>1, <1>3 DEF IsIn
    <3> QED BY <3>2, <3>3
  <2>2. CASE j = k
    BY <2>1, <2>2
  <2>3. CASE j # k
    <3>1. j \in 1..k - 1
      BY <2>3
    <3> QED BY <3>1, <2>1, <2>3 DEF OffsetsUpTo
  <2> QED BY <2>2, <2>3
<1> QED BY <1>4, <1>5, <1>6, <1>7 DEF OffsetsUpTo, new

\* In the loop the segmenter connects exactly what the rules keep together.
LEMMA ConnectsAsTheRules ==
    ASSUME SegmentInv, InLoop
    PROVE  Connects <=> StaysTogether(properties, index)
<1> DEFINE a == properties[index]  b == properties[index + 1]
           count == RegionalsUpTo(properties, index)
<1>1. /\ Len(properties) \in Nat /\ index \in Nat \ {0} /\ index < Len(properties)
      /\ regionalCount \in Nat /\ CounterInv
  BY LenProperties DEF SegmentInv, InLoop
<1>2. a \in BreakProperty /\ b \in BreakProperty
  <2>1. index \in 1..Len(properties) /\ index + 1 \in 1..Len(properties)
    BY <1>1
  <2> QED BY <2>1, ElementOfSeq DEF SegmentInv
<1>3. count \in Nat /\ (a # "regional" => count = 0)
  <2>1. (index - 1) \in Nat /\ (index - 1) + 1 = index /\ index \in Nat
    BY <1>1
  <2>2. count \in Nat
    BY <2>1, RegionalsRecurrence
  <2>3. a # "regional" => count = 0
    BY <2>1, RegionalsRecurrence
  <2> QED BY <2>2, <2>3
<1>4. /\ a = "regional" => (regionalCount + 1) % 2 = count % 2
      /\ a = "prepend" => regionalCount = 0
  BY <1>1 DEF CounterInv, Before
<1>5. Connects <=> <<a, b>> \in Connecting /\ (b = "regional" => regionalCount % 2 = 0)
  BY DEF Connects, Before, After
<1>6. a = "regional" => (regionalCount % 2 = 0 <=> count % 2 = 1)
  BY <1>1, <1>3, <1>4
<1>7. a # "regional" => count % 2 # 1
  BY <1>3
<1>8. a = "prepend" => regionalCount % 2 = 0
  BY <1>4
<1> HIDE DEF a, b, count
<1>9. <<a, b>> \in Connecting /\ b = "regional" => a \in {"regional", "prepend"}
  BY <1>2, TableFollowsRules
<1>10. StaysTogether(properties, index) <=>
          \/ a = "cr" /\ b = "lf"
          \/ /\ {a, b} \cap {"cr", "lf", "control"} = {}
             /\ \/ b \in {"extend", "zwj", "spacing_mark"} \/ a = "prepend"
                \/ a = "l" /\ b \in {"l", "v", "lv", "lvt"}
                \/ a \in {"lv", "v"} /\ b \in {"v", "t"}
                \/ a \in {"lvt", "t"} /\ b = "t"
                \/ a = "zwj" /\ b = "other"
                \/ b = "regional" /\ count % 2 = 1
  BY DEF StaysTogether, a, b, count
<1> QED BY <1>2, <1>5, <1>6, <1>7, <1>8, <1>9, <1>10, TableFollowsRules

LEMMA SegmentStep ==
    ASSUME SegmentInv, Segment
    PROVE  SegmentInv'
<1>1. /\ Len(properties) \in Nat /\ index \in 1..Len(properties) /\ regionalCount \in Nat
      /\ segmenting = "run" /\ CounterInv /\ OffsetsUpTo(index - 1, segmentOffsets, properties)
      /\ properties \in Seq(BreakProperty) /\ segmentOffsets \in Seq(Nat)
      /\ properties' = properties
  BY LenProperties DEF SegmentInv, Segment, Connect, Break, SegmentEnd, InLoop
<1>2. ASSUME InLoop, Connects \/ regionalCount' = 0,
             regionalCount' = IF Connects /\ Before = "regional" THEN regionalCount + 1 ELSE 0,
             index' = index + 1
      PROVE  regionalCount' \in Nat /\ CounterInv'
  <2>1. regionalCount' \in Nat
    BY <1>1, <1>2
  <2> DEFINE a == properties[index]  b == properties[index + 1]
             count == RegionalsUpTo(properties, index)
             next == RegionalsUpTo(properties, index + 1)
  <2>2. index < Len(properties) /\ index \in Nat
    BY <1>1, <1>2 DEF InLoop
  <2>3. a \in BreakProperty /\ b \in BreakProperty
    BY <1>1, <2>2, ElementOfSeq
  <2>4. count \in Nat /\ (b = "regional" => next = count + 1)
    BY <2>2, RegionalsRecurrence
  <2>5. a # "regional" => count = 0
    <3>1. (index - 1) \in Nat /\ (index - 1) + 1 = index
      BY <1>1
    <3> QED BY <3>1, RegionalsRecurrence
  <2>6. a = "regional" => (regionalCount + 1) % 2 = count % 2
    BY <1>1 DEF CounterInv, Before
  <2>7. Connects <=> <<a, b>> \in Connecting /\ (b = "regional" => regionalCount % 2 = 0)
    BY DEF Connects, Before, After
  <2>8. regionalCount' = IF Connects /\ a = "regional" THEN regionalCount + 1 ELSE 0
    BY <1>2 DEF Before
  <2>9. CounterInv' <=> /\ b = "regional" => (regionalCount' + 1) % 2 = next % 2
                        /\ b = "prepend" => regionalCount' = 0
    BY <1>1, <1>2 DEF CounterInv, Before
  <2> HIDE DEF a, b, count, next
  <2>10. a = "regional" /\ b = "regional" => <<a, b>> \in Connecting
    BY <2>3, TableFollowsRules
  <2>11. a = "regional" /\ b = "prepend" => <<a, b>> \notin Connecting
    BY <2>3, TableFollowsRules
  <2>12. b = "prepend" => regionalCount' = 0
    BY <2>7, <2>8, <2>11
  <2>13. b = "regional" => (regionalCount' + 1) % 2 = next % 2
    <3> SUFFICES ASSUME b = "regional" PROVE (regionalCount' + 1) % 2 = next % 2
      OBVIOUS
    <3>1. CASE a # "regional"
      BY <2>8, <2>4, <2>5, <3>1
    <3>2. CASE a = "regional" /\ Connects
      BY <2>8, <2>4, <2>6, <3>2, <1>1
    <3>3. CASE a = "regional" /\ ~Connects
      <4>1. regionalCount % 2 # 0
        BY <2>7, <2>10, <3>3
      <4>2. count % 2 = 0
        <5>1. \A n, m \in Nat : n % 2 # 0 /\ (n + 1) % 2 = m % 2 => m % 2 = 0
          OBVIOUS
        <5> QED BY <5>1, <4>1, <2>6, <2>4, <1>1, <3>3
      <4> QED BY <4>2, <2>8, <2>4, <3>3
    <3> QED BY <3>1, <3>2, <3>3
  <2> QED BY <2>1, <2>9, <2>12, <2>13
<1>3. CASE Connect
  <2>1. InLoop /\ Connects /\ index' = index + 1 /\ segmentOffsets' = segmentOffsets
        /\ segmenting' = "run" /\ index \in Nat /\ index < Len(properties)
        /\ regionalCount' = IF Before = "regional" THEN regionalCount + 1 ELSE 0
    BY <1>1, <1>3 DEF Connect, InLoop
  <2>2. regionalCount' \in Nat /\ CounterInv'
    BY <2>1, <1>2
  <2>3. StaysTogether(properties, index)
    BY <2>1, ConnectsAsTheRules
  <2>4. OffsetsUpTo(index, segmentOffsets, properties)
    BY <1>1, <2>1, <2>3, OffsetSkipped
  <2>5. index + 1 \in 1..Len(properties) /\ (index + 1) - 1 = index
    BY <2>1, <1>1
  <2> QED BY <1>1, <2>1, <2>2, <2>4, <2>5 DEF SegmentInv
<1>4. CASE Break
  <2>1. InLoop /\ ~Connects /\ index' = index + 1 /\ segmentOffsets' = Append(segmentOffsets, index)
        /\ segmenting' = "run" /\ index \in Nat \ {0} /\ index < Len(properties)
        /\ regionalCount' = 0
    BY <1>1, <1>4 DEF Break, InLoop
  <2>2. regionalCount' \in Nat /\ CounterInv'
    BY <2>1, <1>2
  <2>3. ~StaysTogether(properties, index)
    BY <2>1, ConnectsAsTheRules
  <2>4. OffsetsUpTo(index, Append(segmentOffsets, index), properties)
    BY <1>1, <2>1, <2>3, OffsetAdded
  <2>5. index + 1 \in 1..Len(properties) /\ (index + 1) - 1 = index
    BY <2>1, <1>1
  <2>6. Append(segmentOffsets, index) \in Seq(Nat)
    BY <1>1, <2>1, AppendProperties
  <2> QED BY <1>1, <2>1, <2>2, <2>4, <2>5, <2>6 DEF SegmentInv
<1>5. CASE SegmentEnd
  <2>1. index = Len(properties) /\ segmentOffsets' = Append(segmentOffsets, index)
        /\ segmenting' = "end" /\ index \in Nat \ {0}
    BY <1>1, <1>5 DEF SegmentEnd
  <2>2. OffsetsUpTo(index, Append(segmentOffsets, index), properties)
    BY <1>1, <2>1, OffsetAdded
  <2>3. Append(segmentOffsets, index) \in Seq(Nat)
    BY <1>1, <2>1, AppendProperties
  <2> QED BY <1>1, <2>1, <2>2, <2>3 DEF SegmentInv
<1> QED BY <1>3, <1>4, <1>5 DEF Segment

\* The invariant says of every place that has been passed what the property says.
LEMMA SegmentInvSuffices == ASSUME SegmentInv PROVE BreaksFollowTheStandard
<1>1. CASE segmenting = "run"
  <2> DEFINE last == index - 1
  <2>1. OffsetsUpTo(last, segmentOffsets, properties) /\ index \in Nat
    BY <1>1 DEF SegmentInv
  <2>2. \A k \in 1..Len(properties) : k < index \/ segmenting = "end" => k \in 1..last
    BY <1>1, <2>1
  <2>3. Head(segmentOffsets) = segmentOffsets[1]
    BY DEF SegmentInv
  <2> HIDE DEF last
  <2> QED BY <2>1, <2>2, <2>3 DEF BreaksFollowTheStandard, OffsetsUpTo, IsIn
<1>2. CASE segmenting = "end"
  <2>1. CASE properties = <<>> /\ segmentOffsets = <<>>
    BY <2>1, EmptySeq DEF BreaksFollowTheStandard
  <2>2. CASE OffsetsUpTo(Len(properties), segmentOffsets, properties)
    <3>1. Head(segmentOffsets) = segmentOffsets[1]
      BY DEF SegmentInv
    <3> QED BY <2>2, <3>1 DEF BreaksFollowTheStandard, OffsetsUpTo, IsIn
  <2> QED BY <1>2, <2>1, <2>2 DEF SegmentInv
<1> QED BY <1>1, <1>2 DEF SegmentInv, BreaksFollowTheStandard

-----------------------------------------------------------------------------
(* Reading                                                                 *)

\* A code point stands for the part of the text from one place to another.
Stands(aForm, text, point, from, to) ==
    /\ from < to /\ to <= Len(text)
    /\ \/ Worth(aForm, SubSeq(text, from + 1, to)) = point
       \/ point = Inconvertible /\ to = from + 1

\* The part of a code point ends where the next one begins, the last one at the end.
EndOf(places, end, i) == IF i < Len(places) THEN places[i + 1] ELSE end

Covers(aForm, text, points, places, end) ==
    /\ Len(points) = Len(places)
    /\ places = <<>> => end = 0
    /\ places # <<>> => places[1] = 0
    /\ \A i \in 1..Len(places) : Stands(aForm, text, points[i], places[i], EndOf(places, end, i))

\* At a byte that cannot come first the reading makes no headway.
IsStuck ==
    /\ form = "utf8" /\ More
    /\ Here > \h7F /\ \A lead \in Leading : Here \notin lead.bytes

ReadTypes ==
    /\ form \in {"utf8", "utf16"} /\ source \in Seq(Nat) /\ current \in 0..Len(source)
    /\ codePoints \in Seq(Nat) /\ offsets \in Seq(Nat)
    /\ reading \in {"idle", "run", "end", "thrown"}
    /\ reading = "end" => current = Len(source)

ReadInv ==
    /\ ReadTypes
    /\ IsStuck \/ HighBeforeOrdinary \/ Covers(form, source, codePoints, offsets, current)

\* More code points, which stand for the text from the end on, cover it further.
LEMMA CoverFurther ==
    ASSUME NEW aForm, NEW text, NEW points \in Seq(Nat), NEW places \in Seq(Nat),
           NEW more \in Seq(Nat), NEW at \in Seq(Nat), NEW end \in Nat, NEW next \in Nat,
           Covers(aForm, text, points, places, end),
           Len(more) = Len(at), at # <<>>, at[1] = end,
           \A i \in 1..Len(at) : Stands(aForm, text, more[i], at[i], EndOf(at, next, i))
    PROVE  Covers(aForm, text, points \o more, places \o at, next)
<1> DEFINE allPoints == points \o more
           all == places \o at
           m == Len(places)
<1>1. /\ Len(points) = m /\ m \in Nat /\ Len(at) \in Nat /\ Len(at) # 0
  BY LenProperties, EmptySeq DEF Covers
<1>a. /\ Len(all) = m + Len(at)
      /\ \A i \in 1..m : all[i] = places[i]
      /\ \A i \in m + 1..m + Len(at) : all[i] = at[i - m]
  BY <1>1
<1>b. /\ Len(allPoints) = m + Len(at)
      /\ \A i \in 1..m : allPoints[i] = points[i]
      /\ \A i \in m + 1..m + Len(at) : allPoints[i] = more[i - m]
  <2>1. /\ Len(allPoints) = Len(points) + Len(more)
        /\ \A i \in 1..Len(points) : allPoints[i] = points[i]
        /\ \A i \in Len(points) + 1..Len(points) + Len(more) : allPoints[i] = more[i - Len(points)]
    <3>1. Len(points) \in Nat /\ Len(more) \in Nat
      BY LenProperties
    <3>2. Len(allPoints) = Len(points) + Len(more)
      BY ConcatProperties
    <3>3. \A i \in 1..Len(points) + Len(more) :
              allPoints[i] = IF i <= Len(points) THEN points[i] ELSE more[i - Len(points)]
      BY ConcatProperties
    <3> HIDE DEF allPoints
    <3>4. ASSUME NEW i \in 1..Len(points) PROVE allPoints[i] = points[i]
      <4>1. i \in 1..Len(points) + Len(more) /\ i <= Len(points)
        BY <3>1
      <4> QED BY <4>1, <3>3
    <3>5. ASSUME NEW i \in Len(points) + 1..Len(points) + Len(more)
          PROVE  allPoints[i] = more[i - Len(points)]
      <4>1. i \in 1..Len(points) + Len(more) /\ ~(i <= Len(points))
        BY <3>1
      <4> QED BY <4>1, <3>3
    <3> QED BY <3>2, <3>4, <3>5
  <2> HIDE DEF allPoints, m
  <2> QED BY <2>1, <1>1
<1> HIDE DEF m, all, allPoints
<1>2. /\ Len(allPoints) = m + Len(at) /\ Len(all) = m + Len(at)
  BY <1>a, <1>b
<1>3. /\ \A i \in 1..m : all[i] = places[i] /\ allPoints[i] = points[i]
      /\ \A i \in m + 1..m + Len(at) : all[i] = at[i - m] /\ allPoints[i] = more[i - m]
  BY <1>a, <1>b
<1>4. all # <<>>
  <2>1. Len(all) # 0
    BY <1>1, <1>2
  <2> HIDE DEF all
  <2> QED BY <2>1, EmptySeq
<1>5. all[1] = 0
  <2>1. CASE m = 0
    <3>1. places = <<>>
      BY <2>1, EmptySeq DEF m
    <3>2. end = 0
      BY <3>1 DEF Covers
    <3>3. 1 \in m + 1..m + Len(at) /\ 1 - m = 1
      BY <2>1, <1>1
    <3> QED BY <3>2, <3>3, <1>3
  <2>2. CASE m # 0
    <3>1. places # <<>>
      BY <2>2, EmptySeq DEF m
    <3>2. places[1] = 0
      BY <3>1 DEF Covers
    <3>3. 1 \in 1..m
      BY <2>2, <1>1
    <3> QED BY <3>2, <3>3, <1>3
  <2> QED BY <2>1, <2>2
<1>6. ASSUME NEW i \in 1..m
      PROVE  Stands(aForm, text, allPoints[i], all[i], EndOf(all, next, i))
  <2>1. EndOf(all, next, i) = all[i + 1]
    BY <1>1, <1>2 DEF EndOf
  <2>2. all[i + 1] = EndOf(places, end, i)
    <3>1. CASE i < m
      <4>1. i + 1 \in 1..m
        BY <3>1, <1>1
      <4> QED BY <4>1, <3>1, <1>3 DEF EndOf, m
    <3>2. CASE i = m
      <4>1. i + 1 \in m + 1..m + Len(at) /\ (i + 1) - m = 1 /\ ~(i < m)
        BY <3>2, <1>1
      <4>2. all[i + 1] = at[1]
        BY <4>1, <1>3
      <4> QED BY <4>1, <4>2 DEF EndOf, m
    <3> QED BY <3>1, <3>2, <1>1
  <2>3. Stands(aForm, text, points[i], places[i], EndOf(places, end, i))
    BY DEF Covers, m
  <2> QED BY <2>1, <2>2, <2>3, <1>3
<1>7. ASSUME NEW i \in m + 1..m + Len(at)
      PROVE  Stands(aForm, text, allPoints[i], all[i], EndOf(all, next, i))
  <2>1. i - m \in 1..Len(at)
    BY <1>1
  <2>2. EndOf(all, next, i) = EndOf(at, next, i - m)
    <3>1. CASE i < m + Len(at)
      <4>1. i + 1 \in m + 1..m + Len(at) /\ (i + 1) - m = (i - m) + 1 /\ i - m < Len(at)
        BY <3>1, <1>1
      <4>2. all[i + 1] = at[(i - m) + 1]
        BY <4>1, <1>3
      <4> QED BY <4>1, <4>2, <3>1, <1>2 DEF EndOf
    <3>2. CASE i = m + Len(at)
      <4>1. ~(i - m < Len(at)) /\ ~(i < m + Len(at))
        BY <3>2, <1>1
      <4> QED BY <4>1, <1>2 DEF EndOf
    <3>3. i < m + Len(at) \/ i = m + Len(at)
      <4>1. i \in Int /\ i <= m + Len(at) /\ m + Len(at) \in Int
        BY <1>1
      <4> QED BY <4>1
    <3> QED BY <3>1, <3>2, <3>3
  <2> QED BY <2>1, <2>2, <1>3
<1>8. \A i \in 1..Len(all) : i \in 1..m \/ i \in m + 1..m + Len(at)
  BY <1>1, <1>2
<1>9. \A i \in 1..Len(all) : Stands(aForm, text, allPoints[i], all[i], EndOf(all, next, i))
  BY <1>6, <1>7, <1>8
<1> QED BY <1>2, <1>4, <1>5, <1>9 DEF Covers, all, allPoints

\* One code point more.
LEMMA CoverOneMore ==
    ASSUME NEW aForm, NEW text, NEW points \in Seq(Nat), NEW places \in Seq(Nat),
           NEW point \in Nat, NEW end \in Nat, NEW next \in Nat,
           Covers(aForm, text, points, places, end), Stands(aForm, text, point, end, next)
    PROVE  Covers(aForm, text, points \o <<point>>, places \o <<end>>, next)
<1> DEFINE more == <<point>>  at == <<end>>
<1>1. more \in Seq(Nat) /\ at \in Seq(Nat) /\ Len(more) = 1 /\ Len(at) = 1
      /\ more[1] = point /\ at[1] = end /\ at # <<>>
  OBVIOUS
<1> HIDE DEF more, at
<1>2. \A i \in 1..Len(at) : Stands(aForm, text, more[i], at[i], EndOf(at, next, i))
  BY <1>1 DEF EndOf
<1>3. Covers(aForm, text, points \o more, places \o at, next)
  BY <1>1, <1>2, CoverFurther
<1> QED BY <1>3 DEF more, at

\* A '?' for every byte.
LEMMA CoverWithMarks ==
    ASSUME NEW aForm, NEW text, NEW points \in Seq(Nat), NEW places \in Seq(Nat),
           NEW count \in Nat \ {0}, NEW end \in Nat, end + count <= Len(text), Len(text) \in Nat,
           Covers(aForm, text, points, places, end)
    PROVE  Covers(aForm, text, points \o [i \in 1..count |-> Inconvertible],
                  places \o [i \in 1..count |-> end + i - 1], end + count)
<1> DEFINE more == [i \in 1..count |-> Inconvertible]
           at == [i \in 1..count |-> end + i - 1]
<1>1. /\ more \in Seq(Nat) /\ at \in Seq(Nat) /\ Len(more) = count /\ Len(at) = count
      /\ \A i \in 1..count : more[i] = Inconvertible /\ at[i] = end + i - 1
  BY DEF Inconvertible
<1> HIDE DEF more, at
<1>2. at # <<>> /\ at[1] = end
  BY <1>1, EmptySeq
<1>3. ASSUME NEW i \in 1..Len(at)
      PROVE  Stands(aForm, text, more[i], at[i], EndOf(at, end + count, i))
  <2>1. EndOf(at, end + count, i) = end + i
    <3>1. CASE i < count
      <4>1. i + 1 \in 1..count /\ end + (i + 1) - 1 = end + i
        BY <3>1, <1>1
      <4> QED BY <4>1, <3>1, <1>1 DEF EndOf
    <3>2. CASE i = count
      BY <3>2, <1>1 DEF EndOf
    <3> QED BY <3>1, <3>2, <1>1
  <2>2. end + i - 1 < end + i /\ end + i <= Len(text) /\ end + i = (end + i - 1) + 1
    BY <1>1
  <2> QED BY <2>1, <2>2, <1>1 DEF Stands
<1>4. end + count \in Nat /\ Len(more) = Len(at)
  BY <1>1
<1>5. Covers(aForm, text, points \o more, places \o at, end + count)
  BY <1>1, <1>2, <1>3, <1>4, CoverFurther
<1> QED BY <1>5 DEF more, at

\* The part of a text from one place to another.
LEMMA PartOfText ==
    ASSUME NEW text \in Seq(Nat), NEW from \in Nat, NEW to \in Nat, from < to, to <= Len(text)
    PROVE  /\ Len(SubSeq(text, from + 1, to)) = to - from
           /\ \A i \in 1..to - from : SubSeq(text, from + 1, to)[i] = text[from + i]
           /\ \A i \in 1..to - from : text[from + i] \in Nat
<1>1. Len(text) \in Nat
  BY LenProperties
<1>2. \A i \in from + 1..to : text[i] \in Nat
  BY <1>1, ElementOfSeq
<1>3. /\ Len(SubSeq(text, from + 1, to)) = to - (from + 1) + 1
      /\ \A i \in 1..to - (from + 1) + 1 : SubSeq(text, from + 1, to)[i] = text[(from + 1) + i - 1]
  BY <1>1, <1>2, SubSeqProperties
<1>4. to - (from + 1) + 1 = to - from /\ \A i \in Int : (from + 1) + i - 1 = from + i
  OBVIOUS
<1> QED BY <1>2, <1>3, <1>4

\* A byte or unit that is its own code point.
LEMMA OneStands ==
    ASSUME NEW aForm, NEW text \in Seq(Nat), NEW from \in Nat, from + 1 <= Len(text)
    PROVE  /\ Stands(aForm, text, text[from + 1], from, from + 1)
           /\ Stands(aForm, text, Inconvertible, from, from + 1)
<1> DEFINE part == SubSeq(text, from + 1, from + 1)
<1>1. Len(part) = 1 /\ part[1] = text[from + 1]
  <2>1. (from + 1) - from = 1 /\ from < from + 1 /\ from + 1 \in Nat /\ 1 \in 1..1
    OBVIOUS
  <2> QED BY <2>1, PartOfText
<1> HIDE DEF part
<1>2. Worth(aForm, part) = text[from + 1]
  BY <1>1 DEF Worth
<1> QED BY <1>2 DEF Stands, part

\* A leading byte with its continuation bytes.
LEMMA MultibyteStands ==
    ASSUME NEW lead \in Leading, ReadTypes, form = "utf8", More,
           Here \in lead.bytes, IsFollowed(lead.following)
    PROVE  /\ Value(lead) \in Int
           /\ current + 1 + lead.following \in 0..Len(source)
           /\ Stands(form, source, Value(lead), current, current + 1 + lead.following)
<1> DEFINE n == lead.following
           part == SubSeq(source, current + 1, current + 1 + n)
<1>1. /\ n \in 1..3 /\ current \in Nat /\ Len(source) \in Nat /\ current + 1 + n <= Len(source)
      /\ source \in Seq(Nat)
  BY LenProperties DEF Leading, ReadTypes, IsFollowed
<1> HIDE DEF n
<1>2. Len(part) = n + 1 /\ (\A i \in 1..n + 1 : part[i] = source[current + i] /\ part[i] \in Nat)
  <2>1. /\ current + 1 + n \in Nat /\ current < current + 1 + n
        /\ (current + 1 + n) - current = n + 1
    BY <1>1
  <2>2. /\ Len(part) = (current + 1 + n) - current
        /\ \A i \in 1..(current + 1 + n) - current : part[i] = source[current + i]
        /\ \A i \in 1..(current + 1 + n) - current : source[current + i] \in Nat
    BY <1>1, <2>1, PartOfText
  <2> HIDE DEF part
  <2> QED BY <2>1, <2>2
<1>3. \A i \in 1..n : source[current + 1 + i] \in \h80..\hBF
  BY DEF IsFollowed, n
<1>4. \A i \in 1..n : part[i + 1] \in \h80..\hBF
                      /\ Following(i) = part[i + 1] - 128
  <2> TAKE i \in 1..n
  <2>1. i + 1 \in 1..n + 1 /\ current + (i + 1) = current + 1 + i
    BY <1>1
  <2>2. part[i + 1] = source[current + 1 + i]
    BY <1>2, <2>1
  <2>3. \A b \in \h80..\hBF : b % 64 = b - 128
    OBVIOUS
  <2> HIDE DEF part
  <2> QED BY <1>3, <2>2, <2>3 DEF Following
<1>5. part[1] = Here /\ Here \in lead.bytes
  BY <1>1, <1>2 DEF Here
<1>6. Here \in Int /\ Len(part) = lead.following + 1 /\ lead.following \in 1..3
  <2>1. 1 \in 1..n + 1
    BY <1>1
  <2>2. part[1] \in Nat
    BY <1>2, <2>1
  <2> HIDE DEF part
  <2>3. part[1] \in Int
    BY <2>2
  <2>4. Here \in Int
    BY <1>5, <2>3
  <2>5. Len(part) = n + 1 /\ n \in 1..3
    BY <1>1, <1>2
  <2> QED BY <2>4, <2>5 DEF n
<1> HIDE DEF part
<1>7. ASSUME lead.following = 1
      PROVE  Worth(form, part) = Value(lead) /\ Value(lead) \in Int
  <2>1. lead.first = 192 /\ lead.unit = 64
    BY <1>7, SMT DEF Leading
  <2>2. Following(1) = part[2] - 128 /\ part[2] \in Int
    BY <1>4, <1>7, SMT DEF n
  <2>3. Value(lead) = lead.unit * (part[1] - lead.first) + (part[2] - 128)
    BY <1>5, <1>7, <2>2, SMT DEF Value, FollowingValue
  <2>4. Worth(form, part) = (part[1] - 192) * 64 + (part[2] - 128)
    BY <1>6, <1>7, SMT DEF Worth
  <2>a. lead.unit * (part[1] - lead.first) = 64 * (part[1] - 192)
    BY <2>1, SMT
  <2>5. Worth(form, part) = Value(lead) /\ Value(lead) \in Int
    BY <1>5, <1>6, <2>a, <2>2, <2>3, <2>4, SMT
  <2> QED BY <2>5
<1>8. ASSUME lead.following = 2
      PROVE  Worth(form, part) = Value(lead) /\ Value(lead) \in Int
  <2>1. lead.first = 224 /\ lead.unit = 4096
    BY <1>8, SMT DEF Leading
  <2>2. /\ Following(1) = part[2] - 128 /\ part[2] \in Int
        /\ Following(2) = part[3] - 128 /\ part[3] \in Int
    BY <1>4, <1>8, SMT DEF n
  <2>3. Value(lead) = lead.unit * (part[1] - lead.first) + (64 * (part[2] - 128) + (part[3] - 128))
    BY <1>5, <1>8, <2>2, SMT DEF Value, FollowingValue
  <2>4. Worth(form, part) = (part[1] - 224) * 4096 + (part[2] - 128) * 64 + (part[3] - 128)
    BY <1>6, <1>8, SMT DEF Worth
  <2>a. lead.unit * (part[1] - lead.first) = 4096 * (part[1] - 224)
    BY <2>1, SMT
  <2>5. Worth(form, part) = Value(lead) /\ Value(lead) \in Int
    BY <1>5, <1>6, <2>a, <2>2, <2>3, <2>4, SMT
  <2> QED BY <2>5
<1>9. ASSUME lead.following = 3
      PROVE  Worth(form, part) = Value(lead) /\ Value(lead) \in Int
  <2>1. lead.first = 240 /\ lead.unit = 262144
    BY <1>9, SMT DEF Leading
  <2>2. /\ Following(1) = part[2] - 128 /\ part[2] \in Int
        /\ Following(2) = part[3] - 128 /\ part[3] \in Int
        /\ Following(3) = part[4] - 128 /\ part[4] \in Int
    BY <1>4, <1>9, SMT DEF n
  <2>3. Value(lead) = lead.unit * (part[1] - lead.first)
                        + (4096 * (part[2] - 128) + 64 * (part[3] - 128) + (part[4] - 128))
    BY <1>5, <1>9, <2>2, SMT DEF Value, FollowingValue
  <2>4. Worth(form, part) = (part[1] - 240) * 262144 + (part[2] - 128) * 4096
                              + (part[3] - 128) * 64 + (part[4] - 128)
    BY <1>6, <1>9, SMT DEF Worth
  <2>a. lead.unit * (part[1] - lead.first) = 262144 * (part[1] - 240)
    BY <2>1, SMT
  <2>b. Value(lead) = 262144 * (part[1] - 240)
                        + (4096 * (part[2] - 128) + 64 * (part[3] - 128) + (part[4] - 128))
    BY <2>a, <2>3, SMT
  <2>c. part[1] \in Int
    BY <1>5, <1>6, SMT
  <2>5. Worth(form, part) = Value(lead) /\ Value(lead) \in Int
    BY <2>c, <2>2, <2>b, <2>4, SMT
  <2> QED BY <2>5
<1>10. lead.following = 1 \/ lead.following = 2 \/ lead.following = 3
  BY <1>6
<1>11. current + 1 + lead.following \in 0..Len(source) /\ current < current + 1 + lead.following
  BY <1>1 DEF n
<1>12. Worth(form, part) = Value(lead) /\ Value(lead) \in Int
  BY <1>7, <1>8, <1>9, <1>10
<1>13. part = SubSeq(source, current + 1, current + 1 + lead.following)
  BY DEF part, n
<1> QED BY <1>1, <1>11, <1>12, <1>13 DEF Stands

\* Pushing code points keeps the types.
LEMMA PushTypes ==
    ASSUME NEW points \in Seq(Nat), NEW places \in Seq(Nat), ReadTypes, More,
           Push(points, places), current' \in 0..Len(source)
    PROVE  ReadTypes'
<1>1. /\ source' = source /\ form' = form /\ reading' = "run"
      /\ codePoints' = codePoints \o points /\ offsets' = offsets \o places
  BY DEF Push, More
<1>2. codePoints \o points \in Seq(Nat) /\ offsets \o places \in Seq(Nat)
  BY ConcatProperties DEF ReadTypes
<1> QED BY <1>1, <1>2 DEF ReadTypes

LEMMA PairStands ==
    ASSUME NEW text \in Seq(Nat), NEW from \in Nat, from + 2 <= Len(text),
           text[from + 1] \in HighSurrogate, text[from + 2] \in LowSurrogate
    PROVE  LET point == (text[from + 1] - \hD800) * 1024 + (text[from + 2] - \hDC00) + \h10000
           IN  point \in Nat /\ Stands("utf16", text, point, from, from + 2)
<1> DEFINE part == SubSeq(text, from + 1, from + 2)
<1>1. /\ from < from + 2 /\ from + 2 \in Nat /\ (from + 2) - from = 2
  OBVIOUS
<1>2. /\ Len(part) = (from + 2) - from
      /\ \A i \in 1..(from + 2) - from : part[i] = text[from + i]
  BY <1>1, PartOfText
<1>3. Len(part) = 2 /\ part[1] = text[from + 1] /\ part[2] = text[from + 2]
  <2> HIDE DEF part
  <2> QED BY <1>1, <1>2
<1> HIDE DEF part
<1>4. Worth("utf16", part) = (part[1] - \hD800) * 1024 + (part[2] - \hDC00) + 65536
  BY <1>3, SMT DEF Worth
<1>5. (text[from + 1] - \hD800) * 1024 + (text[from + 2] - \hDC00) + \h10000 \in Nat
  <2> DEFINE high == text[from + 1]  low == text[from + 2]
  <2>1. high \in \hD800..\hDBFF
    BY SMT DEF HighSurrogate
  <2>1a. low \in \hDC00..\hDFFF
    BY SMT DEF LowSurrogate
  <2> HIDE DEF high, low
  <2>2. (high - \hD800) * 1024 + (low - \hDC00) + \h10000 \in Nat
    BY <2>1, <2>1a, SMT
  <2> QED BY <2>2, SMT DEF high, low
<1> QED BY <1>1, <1>3, <1>4, <1>5, SMT DEF Stands, part

LEMMA ReadPushesOne ==
    ASSUME ReadInv, More, NEW point \in Nat, NEW next \in Nat, next = current + 1 \/ next <= Len(source),
           Push(<<point>>, <<current>>), current' = next,
           Stands(form, source, point, current, next), ~IsStuck
    PROVE  ReadInv'
<1>1. /\ ReadTypes /\ current \in Nat /\ Len(source) \in Nat /\ current < Len(source)
      /\ source' = source /\ form' = form
  BY LenProperties DEF ReadInv, ReadTypes, More, Push
<1>2. next <= Len(source) /\ current' \in 0..Len(source)
  BY <1>1
<1>3. <<point>> \in Seq(Nat) /\ <<current>> \in Seq(Nat)
  BY <1>1
<1>4. ReadTypes'
  BY <1>1, <1>2, <1>3, PushTypes
<1>5. ASSUME ~HighBeforeOrdinary
      PROVE  Covers(form, source, codePoints', offsets', next)
  <2>1. Covers(form, source, codePoints, offsets, current)
    BY <1>5 DEF ReadInv
  <2>2. Covers(form, source, codePoints \o <<point>>, offsets \o <<current>>, next)
    BY <1>1, <2>1, CoverOneMore DEF ReadTypes
  <2> QED BY <2>2 DEF Push
<1>6. HighBeforeOrdinary' <=> HighBeforeOrdinary
  BY <1>1 DEF HighBeforeOrdinary
<1> QED BY <1>1, <1>4, <1>5, <1>6 DEF ReadInv

\* At a byte that cannot come first no other step is possible.
LEMMA StuckStays ==
    ASSUME ReadInv, IsStuck, Read
    PROVE  ReadInv'
<1>1. ReadTypes /\ form = "utf8" /\ More /\ Here > 127 /\ \A lead \in Leading : Here \notin lead.bytes
  BY DEF ReadInv, IsStuck
<1>2. Here \in Nat
  <2>1. current + 1 \in 1..Len(source)
    BY <1>1, LenProperties DEF ReadTypes, More
  <2> QED BY <1>1, <2>1, ElementOfSeq DEF ReadTypes, Here
<1>3. ReadStray
  <2>1. ~(Here <= 127) /\ current # Len(source) /\ reading = "run"
    BY <1>1, <1>2, LenProperties DEF More, ReadTypes
  <2> QED BY <1>1, <2>1 DEF Read, ReadAscii, ReadMultibyte, ReadIncomplete, ReadUnit, ReadPair,
                            ReadLoneSurrogate, ReadEnd
<1>4. source' = source /\ form' = form /\ current' = current /\ reading' = reading
  BY <1>3 DEF ReadStray, Push
<1>5. IsStuck'
  BY <1>1, <1>4 DEF IsStuck, More, Here
<1>6. ReadTypes'
  <2>1. CASE Push(<<Inconvertible>>, <<current>>)
    <3>1. <<Inconvertible>> \in Seq(Nat) /\ <<current>> \in Seq(Nat) /\ current' \in 0..Len(source)
      BY <1>1, <1>4, LenProperties DEF Inconvertible, ReadTypes
    <3> QED BY <1>1, <2>1, <3>1, PushTypes
  <2>2. CASE UNCHANGED <<form, source, codePoints, offsets, reading>>
    BY <1>1, <1>4, <2>2 DEF ReadTypes
  <2> QED BY <1>3, <2>1, <2>2 DEF ReadStray
<1> QED BY <1>5, <1>6 DEF ReadInv

LEMMA ReadStep ==
    ASSUME ReadInv, Read
    PROVE  ReadInv'
<1>0. ReadTypes /\ source \in Seq(Nat) /\ current \in Nat /\ Len(source) \in Nat
  BY LenProperties DEF ReadInv, ReadTypes
<1>1. CASE IsStuck
  BY <1>1, StuckStays
<1> SUFFICES ASSUME ~IsStuck PROVE ReadInv'
  BY <1>1
<1>a. More => current + 1 \in 1..Len(source) /\ current + 1 <= Len(source) /\ Here \in Nat
  <2>1. More => current + 1 \in 1..Len(source)
    BY <1>0 DEF More
  <2> QED BY <1>0, <2>1, ElementOfSeq DEF Here
<1>b. More => Stands(form, source, Here, current, current + 1)
              /\ Stands(form, source, Inconvertible, current, current + 1)
  BY <1>0, <1>a, OneStands DEF Here
<1>c. Inconvertible \in Nat
  BY DEF Inconvertible
<1>2. CASE ReadAscii \/ ReadUnit
  BY <1>0, <1>2, <1>a, <1>b, ReadPushesOne DEF ReadAscii, ReadUnit
<1>3. CASE ReadMultibyte
  <2>1. PICK lead \in Leading :
          /\ More /\ form = "utf8" /\ Here \in lead.bytes /\ IsFollowed(lead.following)
          /\ IF Value(lead) >= lead.least
               THEN Push(<<Value(lead)>>, <<current>>)
               ELSE Push([i \in 1..lead.following + 1 |-> Inconvertible],
                         [i \in 1..lead.following + 1 |-> current + i - 1])
          /\ current' = current + 1 + lead.following
    BY <1>3 DEF ReadMultibyte
  <2> DEFINE next == current + 1 + lead.following
             count == lead.following + 1
  <2>2. /\ Value(lead) \in Int /\ next \in 0..Len(source)
        /\ Stands(form, source, Value(lead), current, next)
    BY <1>0, <2>1, MultibyteStands
  <2>3. lead.least \in Nat /\ count \in Nat \ {0} /\ next = current + count /\ next \in Nat
    <3>1. lead.least \in Nat /\ lead.following \in Nat
      BY SMT DEF Leading
    <3> QED BY <1>0, <3>1
  <2>4. CASE Value(lead) >= lead.least
    <3>1. Value(lead) \in Nat
      BY <2>2, <2>3, <2>4
    <3>2. Push(<<Value(lead)>>, <<current>>) /\ current' = next /\ next <= Len(source)
      BY <2>1, <2>2, <2>4
    <3> HIDE DEF next
    <3> QED BY <2>1, <2>2, <2>3, <3>1, <3>2, ReadPushesOne
  <2>5. CASE ~(Value(lead) >= lead.least)
    <3> DEFINE marks == [i \in 1..count |-> Inconvertible]
               places == [i \in 1..count |-> current + i - 1]
    <3>1. Push(marks, places) /\ current' = next
      BY <2>1, <2>5
    <3>2. marks \in Seq(Nat) /\ places \in Seq(Nat)
      <4>1. count \in Nat
        BY <2>3
      <4> HIDE DEF count
      <4>2. \A i \in 1..count : current + i - 1 \in Nat
        BY <4>1, <1>0
      <4> QED BY <4>1, <4>2, <1>c
    <3>3. ReadTypes'
      <4> HIDE DEF marks, places, next
      <4> QED BY <1>0, <2>1, <2>2, <3>1, <3>2, PushTypes
    <3>4. source' = source /\ form' = form /\ codePoints' = codePoints \o marks
          /\ offsets' = offsets \o places
      BY <3>1 DEF Push
    <3>5. ASSUME ~HighBeforeOrdinary
          PROVE  Covers(form, source, codePoints \o marks, offsets \o places, current + count)
      <4>1. Covers(form, source, codePoints, offsets, current)
        BY <3>5 DEF ReadInv
      <4>2. current + count <= Len(source) /\ codePoints \in Seq(Nat) /\ offsets \in Seq(Nat)
        BY <2>2, <2>3, <1>0 DEF ReadTypes
      <4> HIDE DEF count
      <4> QED BY <1>0, <2>3, <4>1, <4>2, CoverWithMarks
    <3>6. HighBeforeOrdinary' <=> HighBeforeOrdinary
      BY <3>4 DEF HighBeforeOrdinary
    <3> HIDE DEF marks, places, next, count
    <3> QED BY <2>3, <3>1, <3>3, <3>4, <3>5, <3>6 DEF ReadInv
  <2> QED BY <2>4, <2>5
<1>4. CASE ReadIncomplete
  <2>1. UNCHANGED <<form, source, current, codePoints, offsets>> /\ reading' = "thrown"
    BY <1>4 DEF ReadIncomplete
  <2> QED BY <2>1, <1>0 DEF ReadInv, ReadTypes, HighBeforeOrdinary
<1>5. CASE ReadStray
  BY <1>5 DEF ReadStray, IsStuck
<1>6. CASE ReadPair
  <2> DEFINE high == Here  low == source[current + 2]
             points == Pair(high, low)
  <2>1. /\ form = "utf16" /\ More /\ high \in HighSurrogate /\ current + 1 < Len(source)
        /\ Push(points, [i \in DOMAIN points |-> current + i - 1]) /\ current' = current + 2
    BY <1>6 DEF ReadPair
  <2>2. current + 2 \in 1..Len(source) /\ low \in Nat /\ current + 2 <= Len(source) /\ current + 2 \in Nat
    <3>1. current + 2 \in 1..Len(source) /\ current + 2 <= Len(source) /\ current + 2 \in Nat
      BY <2>1, <1>0
    <3> QED BY <3>1, <1>0, ElementOfSeq
  <2>3. CASE low \in LowSurrogate
    <3> DEFINE point == (high - \hD800) * 1024 + (low - \hDC00) + \h10000
    <3>1. point \in Nat /\ Stands("utf16", source, point, current, current + 2)
      BY <1>0, <2>1, <2>2, <2>3, PairStands DEF Here
    <3>2. points = <<point>>
      BY <2>3 DEF Pair
    <3>3. [i \in DOMAIN points |-> current + i - 1] = <<current>>
      <4> HIDE DEF point, points
      <4>1. DOMAIN points = 1..1
        BY <3>2
      <4>2. [i \in 1..1 |-> current + i - 1] = <<current>>
        BY <1>0
      <4> QED BY <4>1, <4>2
    <3> HIDE DEF point, points
    <3> QED BY <2>1, <2>2, <3>1, <3>2, <3>3, ReadPushesOne
  <2>4. CASE low \notin LowSurrogate
    <3> DEFINE second == IF low \in Surrogate THEN Inconvertible ELSE high
    <3>1. points = <<Inconvertible, second>>
      BY <2>4 DEF Pair
    <3>2. second \in Nat
      BY <2>1, <1>a, <1>c
    <3> HIDE DEF second
    <3>3. [i \in DOMAIN points |-> current + i - 1] = <<current, current + 1>>
      <4> HIDE DEF points
      <4>1. DOMAIN points = 1..2
        BY <3>1
      <4>2. [i \in 1..2 |-> current + i - 1] = <<current, current + 1>>
        BY <1>0
      <4> QED BY <4>1, <4>2
    <3> HIDE DEF points
    <3>4. /\ points \in Seq(Nat) /\ <<current, current + 1>> \in Seq(Nat)
          /\ Push(points, <<current, current + 1>>)
      <4>1. points \in Seq(Nat)
        BY <3>1, <3>2, <1>c
      <4>2. <<current, current + 1>> \in Seq(Nat)
        BY <1>0
      <4> QED BY <4>1, <4>2, <3>3, <2>1
    <3>5. ReadTypes'
      <4>1. current' \in 0..Len(source)
        BY <2>1, <2>2
      <4> QED BY <1>0, <2>1, <3>4, <4>1, PushTypes
    <3>6. source' = source /\ form' = form /\ codePoints' = codePoints \o points
          /\ offsets' = offsets \o <<current, current + 1>>
      BY <3>4 DEF Push
    <3>7. ASSUME ~HighBeforeOrdinary
          PROVE  Covers(form, source, codePoints \o points, offsets \o <<current, current + 1>>, current + 2)
      <4>1. Covers(form, source, codePoints, offsets, current)
        BY <3>7 DEF ReadInv
      <4>2. low \in Surrogate
        <5>1. current + 1 \in 1..Len(source) - 1 /\ (current + 1) + 1 = current + 2
          BY <2>1, <1>0
        <5> QED BY <3>7, <2>1, <5>1 DEF HighBeforeOrdinary, Here
      <4>3. points = <<Inconvertible, Inconvertible>>
        BY <4>2, <3>1 DEF second
      <4>4. Stands(form, source, Inconvertible, current, current + 1)
        BY <1>b, <2>1
      <4>5. Stands(form, source, Inconvertible, current + 1, current + 2)
        <5>1. current + 1 \in Nat /\ (current + 1) + 1 = current + 2
          BY <1>0
        <5> QED BY <1>0, <2>2, <5>1, OneStands
      <4> DEFINE at == <<current, current + 1>>
      <4>6. at \in Seq(Nat) /\ Len(at) = 2 /\ at[1] = current /\ at[2] = current + 1 /\ at # <<>>
        BY <1>0
      <4>7. Len(points) = 2 /\ points[1] = Inconvertible /\ points[2] = Inconvertible
        BY <4>3
      <4> HIDE DEF at
      <4>8. \A i \in 1..Len(at) : Stands(form, source, points[i], at[i], EndOf(at, current + 2, i))
        <5>1. EndOf(at, current + 2, 1) = current + 1 /\ EndOf(at, current + 2, 2) = current + 2
          BY <4>6 DEF EndOf
        <5>2. \A i \in 1..Len(at) : i = 1 \/ i = 2
          BY <4>6
        <5> QED BY <4>4, <4>5, <4>6, <4>7, <5>1, <5>2
      <4>9. codePoints \in Seq(Nat) /\ offsets \in Seq(Nat)
        BY <1>0 DEF ReadTypes
      <4>10. Len(points) = Len(at)
        BY <4>6, <4>7
      <4>11. Covers(form, source, codePoints \o points, offsets \o at, current + 2)
        BY <1>0, <2>2, <3>4, <4>1, <4>6, <4>8, <4>9, <4>10, CoverFurther
      <4> QED BY <4>11 DEF at
    <3>8. HighBeforeOrdinary' <=> HighBeforeOrdinary
      BY <3>6 DEF HighBeforeOrdinary
    <3> QED BY <2>1, <3>5, <3>6, <3>7, <3>8 DEF ReadInv
  <2> QED BY <2>3, <2>4
<1>7. CASE ReadLoneSurrogate
  BY <1>0, <1>7, <1>a, <1>b, <1>c, ReadPushesOne DEF ReadLoneSurrogate
<1>8. CASE ReadEnd
  <2>1. UNCHANGED <<form, source, current, codePoints, offsets>> /\ reading' = "end"
        /\ current = Len(source)
    BY <1>8 DEF ReadEnd
  <2> QED BY <2>1, <1>0 DEF ReadInv, ReadTypes, HighBeforeOrdinary
<1> QED BY <1>2, <1>3, <1>4, <1>5, <1>6, <1>7, <1>8 DEF Read

\* At the end of a reading the parts are those of the property.
LEMMA ReadInvSuffices == ASSUME ReadInv PROVE OffsetsCoverTheText
<1> SUFFICES ASSUME reading = "end", ~HighBeforeOrdinary
             PROVE  LET ends == IF offsets = <<>> THEN <<>> ELSE Append(Tail(offsets), Len(source))
                        part(i) == SubSeq(source, offsets[i] + 1, ends[i])
                    IN  /\ source # <<>> => offsets # <<>> /\ Head(offsets) = 0
                        /\ \A i \in DOMAIN offsets :
                              /\ offsets[i] < ends[i]
                              /\ \/ Worth(form, part(i)) = codePoints[i]
                                 \/ codePoints[i] = Inconvertible /\ Len(part(i)) = 1
  BY DEF OffsetsCoverTheText
<1> DEFINE ends == IF offsets = <<>> THEN <<>> ELSE Append(Tail(offsets), Len(source))
           part(i) == SubSeq(source, offsets[i] + 1, ends[i])
<1>1. /\ source \in Seq(Nat) /\ offsets \in Seq(Nat) /\ current = Len(source) /\ Len(source) \in Nat
      /\ Len(offsets) \in Nat /\ DOMAIN offsets = 1..Len(offsets)
  BY LenProperties DEF ReadInv, ReadTypes
<1>2. Covers(form, source, codePoints, offsets, Len(source))
  BY <1>1 DEF ReadInv, IsStuck, More
<1>3. ASSUME NEW i \in 1..Len(offsets) PROVE ends[i] = EndOf(offsets, Len(source), i)
  <2>1. offsets # <<>> /\ Len(offsets) # 0
    BY <1>1, EmptySeq
  <2>2. /\ Tail(offsets) \in Seq(Nat) /\ Len(Tail(offsets)) = Len(offsets) - 1
        /\ \A j \in 1..Len(offsets) - 1 : Tail(offsets)[j] = offsets[j + 1]
    BY <1>1, <2>1, HeadTailProperties
  <2>3. ends = Append(Tail(offsets), Len(source))
    BY <2>1
  <2>4. CASE i < Len(offsets)
    <3>1. i \in 1..Len(Tail(offsets)) /\ i \in 1..Len(offsets) - 1
      BY <2>2, <2>4, <1>1
    <3>2. ends[i] = Tail(offsets)[i]
      BY <2>2, <2>3, <3>1, <1>1, AppendProperties
    <3> QED BY <2>2, <2>4, <3>1, <3>2 DEF EndOf
  <2>5. CASE i = Len(offsets)
    <3>1. i = Len(Tail(offsets)) + 1
      BY <2>2, <2>5, <1>1
    <3>2. ends[i] = Len(source)
      BY <2>2, <2>3, <3>1, <1>1, AppendProperties
    <3> QED BY <2>5, <3>2, <1>1 DEF EndOf
  <2>6. i < Len(offsets) \/ i = Len(offsets)
    <3>1. \A n \in Nat : \A k \in 1..n : k < n \/ k = n
      OBVIOUS
    <3>2. Len(offsets) \in Nat
      BY <1>1
    <3> QED BY <3>1, <3>2
  <2> HIDE DEF ends
  <2> QED BY <2>4, <2>5, <2>6
<1> HIDE DEF ends
<1>4. source # <<>> => offsets # <<>> /\ Head(offsets) = 0
  <2>1. source # <<>> => Len(source) # 0
    BY <1>1, EmptySeq
  <2>2. source # <<>> => offsets # <<>>
    BY <1>2, <2>1 DEF Covers
  <2>3. Head(offsets) = offsets[1]
    OBVIOUS
  <2> QED BY <1>2, <2>2, <2>3 DEF Covers
<1>5. ASSUME NEW i \in DOMAIN offsets
      PROVE  /\ offsets[i] < ends[i]
             /\ \/ Worth(form, part(i)) = codePoints[i]
                \/ codePoints[i] = Inconvertible /\ Len(part(i)) = 1
  <2>1. Stands(form, source, codePoints[i], offsets[i], ends[i])
    BY <1>1, <1>2, <1>3 DEF Covers
  <2>2. offsets[i] \in Nat
    BY <1>1, ElementOfSeq
  <2>3. ends[i] = offsets[i] + 1 => Len(part(i)) = 1
    <3> SUFFICES ASSUME ends[i] = offsets[i] + 1 PROVE Len(part(i)) = 1
      OBVIOUS
    <3>1. offsets[i] + 1 \in Nat /\ offsets[i] < offsets[i] + 1 /\ (offsets[i] + 1) - offsets[i] = 1
          /\ offsets[i] + 1 <= Len(source)
      BY <2>1, <2>2 DEF Stands
    <3>2. Len(SubSeq(source, offsets[i] + 1, offsets[i] + 1)) = (offsets[i] + 1) - offsets[i]
      BY <1>1, <2>2, <3>1, PartOfText
    <3> QED BY <3>1, <3>2
  <2> QED BY <2>1, <2>3 DEF Stands
<1> QED BY <1>4, <1>5 DEF ends

-----------------------------------------------------------------------------
(* Writing                                                                 *)

Char(aForm, c) == IF aForm = "utf8" THEN Utf8Char(c) ELSE Utf16Char(c)
Chars(aForm, points) == [i \in DOMAIN points |-> Char(aForm, points[i])]

LEMMA WrittenIsFlat ==
    ASSUME NEW aForm, NEW points
    PROVE  Written(aForm, points) = FlattenSeq(Chars(aForm, points))
BY DEF Written, Chars, Char

\* A character is written in one to four bytes, or one or two units.
LEMMA CharType ==
    ASSUME NEW aForm, NEW c \in Nat
    PROVE  Char(aForm, c) \in Seq(Nat) /\ Len(Char(aForm, c)) \in Nat \ {0}
<1>1. \A x, y, z, w \in Nat :
          /\ <<x>> \in Seq(Nat) /\ Len(<<x>>) = 1
          /\ <<x, y>> \in Seq(Nat) /\ Len(<<x, y>>) = 2
          /\ <<x, y, z>> \in Seq(Nat) /\ Len(<<x, y, z>>) = 3
          /\ <<x, y, z, w>> \in Seq(Nat) /\ Len(<<x, y, z, w>>) = 4
  OBVIOUS
<1>2. FollowingByte(c, 1) \in Nat /\ FollowingByte(c, 64) \in Nat /\ FollowingByte(c, 4096) \in Nat
  BY SMT DEF FollowingByte
<1>3. /\ \hC0 + (c \div 64) \in Nat /\ \hE0 + (c \div 4096) \in Nat /\ \hF0 + (c \div 262144) \in Nat
      /\ Inconvertible \in Nat
  BY SMT DEF Inconvertible
<1>4. c >= \h10000 => /\ \hD800 + ((c - \h10000) \div \h400) \in Nat
                      /\ \hDC00 + ((c - \h10000) % \h400) \in Nat
  BY SMT
<1>5. Utf8Char(c) \in Seq(Nat) /\ Len(Utf8Char(c)) \in Nat \ {0}
  BY <1>1, <1>2, <1>3, SMT DEF Utf8Char
<1>6. Utf16Char(c) \in Seq(Nat) /\ Len(Utf16Char(c)) \in Nat \ {0}
  BY <1>1, <1>3, <1>4, SMT DEF Utf16Char
<1> QED BY <1>5, <1>6 DEF Char

LEMMA CharsType ==
    ASSUME NEW aForm, NEW points \in Seq(Nat)
    PROVE  /\ Chars(aForm, points) \in Seq(Seq(Nat)) /\ Len(Chars(aForm, points)) = Len(points)
           /\ \A i \in 1..Len(points) : Chars(aForm, points)[i] = Char(aForm, points[i])
<1>1. DOMAIN points = 1..Len(points) /\ Len(points) \in Nat
  BY LenProperties
<1>2. \A i \in 1..Len(points) : Char(aForm, points[i]) \in Seq(Nat)
  BY ElementOfSeq, CharType
<1>3. Chars(aForm, points) = [i \in 1..Len(points) |-> Char(aForm, points[i])]
  BY <1>1 DEF Chars
<1> QED BY <1>1, <1>2, <1>3

LEMMA WrittenType ==
    ASSUME NEW aForm, NEW points \in Seq(Nat)
    PROVE  Written(aForm, points) \in Seq(Nat)
BY CharsType, FlattenType, WrittenIsFlat

\* The characters of the beginning of a text are the beginning of its characters.
LEMMA CharsOfBeginning ==
    ASSUME NEW aForm, NEW points \in Seq(Nat), NEW n \in 0..Len(points)
    PROVE  Chars(aForm, SubSeq(points, 1, n)) = SubSeq(Chars(aForm, points), 1, n)
<1> DEFINE begin == SubSeq(points, 1, n)
           chars == Chars(aForm, points)
<1>1. /\ Len(points) \in Nat
      /\ chars \in Seq(Seq(Nat)) /\ Len(chars) = Len(points)
      /\ \A i \in 1..Len(points) : chars[i] = Char(aForm, points[i])
  BY CharsType, LenProperties
<1>2. begin \in Seq(Nat) /\ Len(begin) = n /\ \A i \in 1..n : begin[i] = points[i]
  <2>1. \A i \in 1..n : points[i] \in Nat
    BY <1>1, ElementOfSeq
  <2>2. /\ begin \in Seq(Nat) /\ Len(begin) = n - 1 + 1
        /\ \A i \in 1..n - 1 + 1 : begin[i] = points[1 + i - 1]
    BY <1>1, <2>1, SubSeqProperties
  <2>3. n - 1 + 1 = n /\ \A i \in Int : 1 + i - 1 = i
    BY <1>1
  <2> QED BY <2>2, <2>3
<1>3. /\ Chars(aForm, begin) \in Seq(Seq(Nat)) /\ Len(Chars(aForm, begin)) = n
      /\ \A i \in 1..n : Chars(aForm, begin)[i] = Char(aForm, begin[i])
  <2> HIDE DEF begin
  <2> QED BY <1>2, CharsType
<1> HIDE DEF begin, chars
<1>4. /\ SubSeq(chars, 1, n) \in Seq(Seq(Nat)) /\ Len(SubSeq(chars, 1, n)) = n
      /\ \A i \in 1..n : SubSeq(chars, 1, n)[i] = chars[i]
  <2>1. \A i \in 1..n : chars[i] \in Seq(Nat)
    BY <1>1, ElementOfSeq
  <2>2. /\ SubSeq(chars, 1, n) \in Seq(Seq(Nat)) /\ Len(SubSeq(chars, 1, n)) = n - 1 + 1
        /\ \A i \in 1..n - 1 + 1 : SubSeq(chars, 1, n)[i] = chars[1 + i - 1]
    BY <1>1, <2>1, SubSeqProperties
  <2>3. n - 1 + 1 = n /\ \A i \in Int : 1 + i - 1 = i
    BY <1>1
  <2> QED BY <2>2, <2>3
<1>5. \A i \in 1..n : Chars(aForm, begin)[i] = SubSeq(chars, 1, n)[i]
  BY <1>1, <1>2, <1>3, <1>4
<1>6. Chars(aForm, begin) = SubSeq(chars, 1, n)
  BY <1>3, <1>4, <1>5, SeqEqual
<1> QED BY <1>6 DEF begin, chars

\* In a written text every character follows those before it.
LEMMA WrittenNext ==
    ASSUME NEW aForm, NEW points \in Seq(Nat), NEW n \in Nat, n < Len(points)
    PROVE  /\ Written(aForm, SubSeq(points, 1, n + 1))
                = Written(aForm, SubSeq(points, 1, n)) \o Char(aForm, points[n + 1])
           /\ Written(aForm, SubSeq(points, 1, n)) \in Seq(Nat)
           /\ \E rest \in Seq(Nat) :
                 Written(aForm, points)
                   = (Written(aForm, SubSeq(points, 1, n)) \o Char(aForm, points[n + 1])) \o rest
<1> DEFINE chars == Chars(aForm, points)
<1>1. /\ Len(points) \in Nat /\ n \in 0..Len(points) - 1 /\ n \in 0..Len(points)
      /\ n + 1 \in 0..Len(points) /\ n + 1 \in 1..Len(points)
  BY LenProperties
<1>2. chars \in Seq(Seq(Nat)) /\ Len(chars) = Len(points) /\ chars[n + 1] = Char(aForm, points[n + 1])
  BY <1>1, CharsType
<1>3. /\ Written(aForm, SubSeq(points, 1, n)) = FlattenSeq(SubSeq(chars, 1, n))
      /\ Written(aForm, SubSeq(points, 1, n + 1)) = FlattenSeq(SubSeq(chars, 1, n + 1))
      /\ Written(aForm, points) = FlattenSeq(chars)
  BY <1>1, CharsOfBeginning, WrittenIsFlat
<1> HIDE DEF chars
<1>4. /\ FlattenSeq(SubSeq(chars, 1, n + 1)) = FlattenSeq(SubSeq(chars, 1, n)) \o chars[n + 1]
      /\ FlattenSeq(SubSeq(chars, 1, n)) \in Seq(Nat)
      /\ \E rest \in Seq(Nat) :
            FlattenSeq(chars) = (FlattenSeq(SubSeq(chars, 1, n)) \o chars[n + 1]) \o rest
  BY <1>1, <1>2, FlattenNext
<1> QED BY <1>2, <1>3, <1>4

-----------------------------------------------------------------------------
(* The look-up in the character property map                               *)

\* The search ends at the first entry that is not before a code point, or at the end.
LEMMA LowerBoundFacts ==
    ASSUME NEW c \in Nat
    PROVE  /\ LowerBound(c) \in 1..Len(PropertyMap) + 1
           /\ \A j \in 1..LowerBound(c) - 1 : PropertyMap[j].codePoint < c
           /\ LowerBound(c) <= Len(PropertyMap) => PropertyMap[LowerBound(c)].codePoint >= c
           /\ Len(PropertyMap) \in Nat \ {0} /\ DOMAIN PropertyMap = 1..Len(PropertyMap)
           /\ \A i \in 1..Len(PropertyMap) :
                 PropertyMap[i].codePoint \in Nat /\ PropertyMap[i].break \in BreakProperty
<1> DEFINE n == Len(PropertyMap)
           Entry == [codePoint : Nat, class : STRING, emoji : BOOLEAN, break : BreakProperty]
           IsPlace(i) == /\ \A j \in 1..i - 1 : PropertyMap[j].codePoint < c
                         /\ i <= n => PropertyMap[i].codePoint >= c
<1>1. PropertyMap \in Seq(Entry) /\ n \in Nat /\ n # 0 /\ DOMAIN PropertyMap = 1..n
  BY MapAssumption, LenProperties, EmptySeq
<1>2. \A i \in 1..n : PropertyMap[i].codePoint \in Nat /\ PropertyMap[i].break \in BreakProperty
  <2>1. \A e \in Entry : e.codePoint \in Nat /\ e.break \in BreakProperty
    OBVIOUS
  <2>2. \A i \in 1..n : PropertyMap[i] \in Entry
    <3> HIDE DEF Entry
    <3> QED BY <1>1, ElementOfSeq
  <2> HIDE DEF Entry, n
  <2> QED BY <2>1, <2>2
<1>3. \E i \in 1..n + 1 : IsPlace(i)
  <2> DEFINE high == {i \in 1..n : PropertyMap[i].codePoint >= c} \cup {n + 1}
  <2>1. high \subseteq Nat /\ high # {} /\ high \subseteq 1..n + 1
    BY <1>1
  <2> HIDE DEF high
  <2>2. PICK i \in high : \A y \in high : i <= y
    BY <2>1, LeastNumber
  <2>3. i \in 1..n + 1
    BY <2>1, <2>2
  <2>4. i <= n => PropertyMap[i].codePoint >= c
    BY <2>2, <1>1 DEF high
  <2>5. ASSUME NEW j \in 1..i - 1 PROVE PropertyMap[j].codePoint < c
    <3>1. j \in 1..n /\ ~(i <= j)
      BY <2>3, <1>1
    <3>2. j \notin high
      BY <2>2, <3>1
    <3>3. ~(PropertyMap[j].codePoint >= c)
      BY <3>1, <3>2 DEF high
    <3> QED BY <3>1, <3>3, <1>2
  <2> QED BY <2>3, <2>4, <2>5
<1>4. LowerBound(c) \in 1..n + 1 /\ IsPlace(LowerBound(c))
  BY <1>3 DEF LowerBound
<1> QED BY <1>1, <1>2, <1>4

\* An entry is found by its own code point and by those between it and the next.
LEMMA PropertyFound ==
    ASSUME NEW c \in Nat, NEW k \in DOMAIN PropertyMap, PropertyMap[k].codePoint <= c,
           k < Len(PropertyMap) => c < PropertyMap[k + 1].codePoint
    PROVE  PropertyOf(c) = PropertyMap[k]
<1> DEFINE n == Len(PropertyMap)
           i == LowerBound(c)
<1>1. /\ i \in 1..n + 1 /\ n \in Nat \ {0} /\ k \in 1..n /\ DOMAIN PropertyMap = 1..n
      /\ \A j \in 1..i - 1 : PropertyMap[j].codePoint < c
      /\ i <= n => PropertyMap[i].codePoint >= c
      /\ \A j \in 1..n : PropertyMap[j].codePoint \in Nat
  BY LowerBoundFacts
<1>2. PropertyOf(c) = IF i <= n /\ PropertyMap[i].codePoint = c THEN PropertyMap[i] ELSE PropertyMap[i - 1]
  BY DEF PropertyOf
<1>3. \A x, y \in 1..n : x < y => PropertyMap[x].codePoint < PropertyMap[y].codePoint
  BY <1>1, MapAssumption
<1> HIDE DEF i, n
<1>4. CASE PropertyMap[k].codePoint = c
  <2>1. ~(k < i)
    <3>1. k < i => k \in 1..i - 1
      BY <1>1
    <3> QED BY <3>1, <1>1, <1>4
  <2>2. ~(i < k)
    <3> SUFFICES ASSUME i < k PROVE FALSE
      OBVIOUS
    <3>1. i \in 1..n /\ i <= n
      BY <1>1
    <3>2. PropertyMap[i].codePoint < PropertyMap[k].codePoint
      BY <3>1, <1>1, <1>3
    <3> QED BY <3>1, <3>2, <1>1, <1>4
  <2>3. i = k /\ i <= n
    BY <2>1, <2>2, <1>1
  <2> QED BY <2>3, <1>2, <1>4
<1>5. CASE PropertyMap[k].codePoint < c
  <2>1. k < i
    <3> SUFFICES ASSUME i <= k PROVE FALSE
      BY <1>1
    <3>1. i \in 1..n /\ i <= n
      BY <1>1
    <3>2. PropertyMap[i].codePoint <= PropertyMap[k].codePoint
      BY <3>1, <1>1, <1>3
    <3> QED BY <3>1, <3>2, <1>1, <1>5
  <2>2. ~(k + 1 < i)
    <3> SUFFICES ASSUME k + 1 < i PROVE FALSE
      OBVIOUS
    <3>1. k + 1 \in 1..n /\ k < n /\ k + 1 \in 1..i - 1
      BY <1>1
    <3> QED BY <3>1, <1>1 DEF n
  <2>3. i = k + 1 /\ i - 1 = k
    BY <2>1, <2>2, <1>1
  <2>4. ~(i <= n /\ PropertyMap[i].codePoint = c)
    <3> SUFFICES ASSUME i <= n, PropertyMap[i].codePoint = c PROVE FALSE
      OBVIOUS
    <3>1. k < n
      BY <2>3, <1>1
    <3> QED BY <3>1, <2>3, <1>1 DEF n
  <2> QED BY <2>3, <2>4, <1>2
<1> QED BY <1>1, <1>4, <1>5

\* Every code point has a property: the map begins with the code point 0, so the
\* entry before the place of a code point that has no entry of its own exists.
LEMMA PropertyExists ==
    ASSUME NEW c \in Nat
    PROVE  PropertyOf(c).break \in BreakProperty
<1> DEFINE n == Len(PropertyMap)
           i == LowerBound(c)
<1>1. /\ n \in Nat \ {0} /\ i \in 1..n + 1
      /\ i <= n => PropertyMap[i].codePoint >= c
      /\ \A j \in 1..n : PropertyMap[j].break \in BreakProperty
  BY LowerBoundFacts
<1>2. CASE i <= n /\ PropertyMap[i].codePoint = c
  BY <1>1, <1>2 DEF PropertyOf
<1>3. CASE ~(i <= n /\ PropertyMap[i].codePoint = c)
  <2>1. i # 1
    <3> SUFFICES ASSUME i = 1 PROVE FALSE
      OBVIOUS
    <3>1. i <= n /\ PropertyMap[1].codePoint = 0 /\ 0 >= c
      BY <1>1, MapAssumption
    <3> QED BY <3>1, <1>3
  <2>2. i - 1 \in 1..n
    BY <1>1, <2>1
  <2>3. PropertyOf(c) = PropertyMap[i - 1]
    BY <1>3 DEF PropertyOf
  <2> QED BY <1>1, <2>2, <2>3
<1> QED BY <1>2, <1>3

LEMMA PropertiesExist ==
    ASSUME NEW points \in Seq(Nat)
    PROVE  [i \in DOMAIN points |-> PropertyOf(points[i]).break] \in Seq(BreakProperty)
<1>1. DOMAIN points = 1..Len(points) /\ Len(points) \in Nat
  BY LenProperties
<1>2. \A i \in 1..Len(points) : PropertyOf(points[i]).break \in BreakProperty
  BY ElementOfSeq, PropertyExists
<1> QED BY <1>1, <1>2

-----------------------------------------------------------------------------
(* Reading what has been written                                           *)

\* Where the reading has come to a written character, its bytes or units lie ahead.
Ahead(char) ==
    /\ current + Len(char) <= Len(source)
    /\ \A k \in 1..Len(char) : source[current + k] = char[k]

LEMMA CharIsAhead ==
    ASSUME NEW before \in Seq(Nat), NEW char \in Seq(Nat), NEW rest \in Seq(Nat),
           source = (before \o char) \o rest, current = Len(before)
    PROVE  Ahead(char)
<1>1. /\ before \o char \in Seq(Nat) /\ Len(before \o char) = Len(before) + Len(char)
      /\ Len(before) \in Nat /\ Len(char) \in Nat /\ Len(rest) \in Nat
      /\ \A i \in 1..Len(before) + Len(char) :
            (before \o char)[i] = IF i <= Len(before) THEN before[i] ELSE char[i - Len(before)]
  BY ConcatProperties, LenProperties
<1> DEFINE start == before \o char
<1>2. /\ Len(source) = Len(start) + Len(rest)
      /\ \A i \in 1..Len(start) + Len(rest) :
            source[i] = IF i <= Len(start) THEN start[i] ELSE rest[i - Len(start)]
  <2> HIDE DEF start
  <2> QED BY <1>1, ConcatProperties DEF start
<1> HIDE DEF start
<1>3. ASSUME NEW k \in 1..Len(char) PROVE source[current + k] = char[k]
  <2>1. /\ current + k \in 1..Len(start) + Len(rest) /\ current + k <= Len(start)
        /\ current + k \in 1..Len(before) + Len(char) /\ ~(current + k <= Len(before))
        /\ (current + k) - Len(before) = k
    BY <1>1 DEF start
  <2>2. source[current + k] = start[current + k]
    BY <1>2, <2>1
  <2>3. start[current + k] = char[(current + k) - Len(before)]
    BY <1>1, <2>1 DEF start
  <2> QED BY <2>1, <2>2, <2>3
<1>4. current + Len(char) <= Len(source)
  BY <1>1, <1>2 DEF start
<1> QED BY <1>3, <1>4 DEF Ahead

\* What the bytes of a character are, how many follow the first, and that the
\* reader's sum of them is the code point again.
LEMMA LeadingCases ==
    ASSUME NEW lead \in Leading
    PROVE  \/ /\ lead.bytes = \hC0..\hDF /\ lead.first = \hC0 /\ lead.following = 1
              /\ lead.unit = 64 /\ lead.least = \h80
           \/ /\ lead.bytes = \hE0..\hEF /\ lead.first = \hE0 /\ lead.following = 2
              /\ lead.unit = 4096 /\ lead.least = \h800
           \/ /\ lead.bytes = \hF0..\hF7 /\ lead.first = \hF0 /\ lead.following = 3
              /\ lead.unit = 262144 /\ lead.least = \h10000
BY SMT DEF Leading

LEMMA FollowingBytes ==
    ASSUME NEW c \in Nat, NEW unit \in {1, 64, 4096}
    PROVE  /\ FollowingByte(c, unit) \in \h80..\hBF
           /\ FollowingByte(c, unit) % 64 = (c \div unit) % 64
<1>1. c \div unit \in Nat
  BY SMT
<1>2. \A n \in Nat : \h80 + (n % 64) \in \h80..\hBF /\ (\h80 + (n % 64)) % 64 = n % 64
  BY SMT
<1> QED BY <1>1, <1>2 DEF FollowingByte

LEMMA Sums ==
    ASSUME NEW c \in Nat
    PROVE  /\ c < \h800 => (64 * (c \div 64)) + ((c \div 1) % 64) = c
           /\ c < \h10000 =>
                 (4096 * (c \div 4096)) + ((64 * ((c \div 64) % 64)) + ((c \div 1) % 64)) = c
           /\ c < ScalarLimit =>
                 (262144 * (c \div 262144))
                   + ((4096 * ((c \div 4096) % 64)) + ((64 * ((c \div 64) % 64)) + ((c \div 1) % 64))) = c
BY SMT DEF ScalarLimit

\* A byte leads in one way only.
LEMMA OneLead ==
    ASSUME NEW lead \in Leading, NEW other \in Leading, NEW byte,
           byte \in lead.bytes, byte \in other.bytes
    PROVE  lead = other /\ byte \in \hC0..\hF7
<1> DEFINE two == [bytes |-> \hC0..\hDF, first |-> \hC0, following |-> 1, unit |-> 64, least |-> \h80]
           three == [bytes |-> \hE0..\hEF, first |-> \hE0, following |-> 2, unit |-> 4096, least |-> \h800]
           four == [bytes |-> \hF0..\hF7, first |-> \hF0, following |-> 3, unit |-> 262144, least |-> \h10000]
<1>1. Leading = {two, three, four}
  BY DEF Leading
<1>2. two.bytes = \hC0..\hDF /\ three.bytes = \hE0..\hEF /\ four.bytes = \hF0..\hF7
  OBVIOUS
<1> HIDE DEF two, three, four
<1>3. /\ ~(byte \in two.bytes /\ byte \in three.bytes)
      /\ ~(byte \in two.bytes /\ byte \in four.bytes)
      /\ ~(byte \in three.bytes /\ byte \in four.bytes)
      /\ byte \in two.bytes \/ byte \in three.bytes \/ byte \in four.bytes => byte \in \hC0..\hF7
  BY <1>2, SMT
<1> QED BY <1>1, <1>3

LEMMA NoLead ==
    ASSUME NEW byte \in Nat, byte < \h80
    PROVE  \A lead \in Leading : byte \notin lead.bytes
<1>1. byte \notin \hC0..\hF7
  BY SMT
<1> QED BY <1>1, OneLead

LEMMA MultibyteNeedsLead == ReadMultibyte => \E lead \in Leading : Here \in lead.bytes
BY DEF ReadMultibyte

\* The reader has taken one character.
Decoded(c, count) ==
    /\ codePoints' = codePoints \o <<c>> /\ current' = current + count
    /\ UNCHANGED <<form, source, reading>>

\* It has come from the place where it has been read.
DecodedHere(c, count) == Decoded(c, count) /\ offsets' = offsets \o <<current>>

LEMMA DecodeMultibyte ==
    ASSUME form = "utf8", reading = "run", current \in Nat, Len(source) \in Nat, Read,
           NEW lead \in Leading, NEW c \in Nat, Here \in lead.bytes, IsFollowed(lead.following),
           Value(lead) = c, c >= lead.least
    PROVE  DecodedHere(c, 1 + lead.following)
<1>1. Here \in \hC0..\hF7 /\ \A other \in Leading : Here \in other.bytes => other = lead
  BY OneLead
<1>2. ~(Here <= \h7F)
  BY <1>1, SMT
<1>3. current # Len(source)
  <2>1. lead.following \in Nat
    BY LeadingCases
  <2>2. \A n, m, k \in Nat : n + 1 + k <= m => n # m
    OBVIOUS
  <2> QED BY <2>1, <2>2 DEF IsFollowed
<1>4. ~ReadAscii /\ ~ReadIncomplete /\ ~ReadStray /\ ~ReadUnit /\ ~ReadPair
      /\ ~ReadLoneSurrogate /\ ~ReadEnd
  BY <1>1, <1>2, <1>3 DEF ReadAscii, ReadIncomplete, ReadStray, ReadUnit, ReadPair,
     ReadLoneSurrogate, ReadEnd
<1>5. ReadMultibyte
  BY <1>4 DEF Read
<1>6. IF Value(lead) >= lead.least
        THEN Push(<<Value(lead)>>, <<current>>)
        ELSE Push([i \in 1..lead.following + 1 |-> Inconvertible],
                  [i \in 1..lead.following + 1 |-> current + i - 1])
  BY <1>1, <1>5 DEF ReadMultibyte
<1>7. current' = current + 1 + lead.following
  BY <1>1, <1>5 DEF ReadMultibyte
<1>8. Push(<<c>>, <<current>>)
  BY <1>6
<1>9. current + 1 + lead.following = current + (1 + lead.following)
  BY LeadingCases
<1> QED BY <1>7, <1>8, <1>9 DEF Push, Decoded, DecodedHere

\* The program writes the characters of the planes 0 and 1 in UTF-8.
LEMMA WritesUtf8 ==
    ASSUME NEW c \in Nat, c < \h20000
    PROVE  Utf8Char(c) = InUtf8(c)
BY SMT DEF Utf8Char, InUtf8, FollowingByte

\* A character in UTF-8 is read as what it is.
LEMMA DecodeUtf8 ==
    ASSUME form = "utf8", reading = "run", current \in Nat, Len(source) \in Nat, Read,
           NEW c \in Nat, c < ScalarLimit, Ahead(InUtf8(c))
    PROVE  DecodedHere(c, Len(InUtf8(c)))
<1> DEFINE low == FollowingByte(c, 1)  middle == FollowingByte(c, 64)  high == FollowingByte(c, 4096)
<1>1. /\ low \in \h80..\hBF /\ low % 64 = (c \div 1) % 64
      /\ middle \in \h80..\hBF /\ middle % 64 = (c \div 64) % 64
      /\ high \in \h80..\hBF /\ high % 64 = (c \div 4096) % 64
  BY FollowingBytes, SMT
<1>2. CASE c < \h80
  <2>1. InUtf8(c) = <<c>>
    BY <1>2, SMT DEF InUtf8, FollowingByte
  <2>2. Len(InUtf8(c)) = 1 /\ InUtf8(c)[1] = c
    BY <2>1, SMT
  <2>3. Here = c /\ current + 1 <= Len(source)
    BY <2>2, SMT DEF Ahead, Here
  <2>4. Here <= \h7F /\ current # Len(source)
    BY <2>3, <1>2, SMT
  <2>5. \A lead \in Leading : Here \notin lead.bytes
    BY <2>3, <1>2, NoLead, SMT
  <2>6. ReadAscii
    <3>1. ~(Here > \h7F)
      BY <2>3, <1>2, SMT
    <3>2. ~ReadMultibyte
      BY <2>5, MultibyteNeedsLead, SMT
    <3>3. ~ReadIncomplete
      BY <2>5, SMT DEF ReadIncomplete
    <3>4. ~ReadStray /\ ~ReadUnit /\ ~ReadPair /\ ~ReadLoneSurrogate /\ ~ReadEnd
      BY <2>4, <3>1, SMT DEF ReadStray, ReadUnit, ReadPair, ReadLoneSurrogate, ReadEnd
    <3> QED BY <3>2, <3>3, <3>4, SMT DEF Read
  <2> QED BY <2>6, <2>2, <2>3, SMT DEF ReadAscii, Push, Decoded, DecodedHere
<1>3. CASE c >= \h80 /\ c < \h800
  <2>1. InUtf8(c) = <<\hC0 + (c \div 64), low>>
    BY <1>3, SMT DEF InUtf8, FollowingByte
  <2>2. Len(InUtf8(c)) = 2 /\ InUtf8(c)[1] = \hC0 + (c \div 64) /\ InUtf8(c)[2] = low
    BY <2>1, SMT
  <2>3. /\ Here = \hC0 + (c \div 64) /\ source[current + 1 + 1] = low /\ current + 1 + 1 <= Len(source)
    <3>1. current + 2 = current + 1 + 1 /\ 1 \in 1..2 /\ 2 \in 1..2
      BY SMT
    <3> QED BY <3>1, <2>2, SMT DEF Ahead, Here
  <2>4. PICK lead \in Leading : /\ lead.bytes = \hC0..\hDF /\ lead.first = \hC0 /\ lead.following = 1
                                /\ lead.unit = 64 /\ lead.least = \h80
    BY SMT DEF Leading
  <2>5. Here \in lead.bytes
    <3>1. \hC0 + (c \div 64) \in \hC0..\hDF
      BY <1>3, SMT
    <3> QED BY <3>1, <2>3, <2>4, SMT
  <2>6. IsFollowed(lead.following)
    <3>1. \A i \in 1..1 : i = 1
      BY SMT
    <3> QED BY <3>1, <1>1, <2>3, <2>4, SMT DEF IsFollowed
  <2>7. Value(lead) = c
    <3>1. FollowingValue(lead.following) = (c \div 1) % 64
      BY <1>1, <2>3, <2>4, SMT DEF FollowingValue, Following
    <3>2. Here - lead.first = c \div 64
      BY <2>3, <2>4, SMT
    <3>3. Value(lead) = (64 * (c \div 64)) + ((c \div 1) % 64)
      BY <3>1, <3>2, <2>4, SMT DEF Value
    <3> QED BY <3>3, <1>3, Sums, SMT
  <2>8. DecodedHere(c, 1 + lead.following)
    BY <1>3, <2>4, <2>5, <2>6, <2>7, DecodeMultibyte, SMT
  <2> QED BY <2>2, <2>4, <2>8, SMT
<1>4. CASE c >= \h800 /\ c < \h10000
  <2>1. InUtf8(c) = <<\hE0 + (c \div 4096), middle, low>>
    BY <1>4, SMT DEF InUtf8, FollowingByte
  <2>2. Len(InUtf8(c)) = 3 /\ InUtf8(c)[1] = \hE0 + (c \div 4096) /\ InUtf8(c)[2] = middle
        /\ InUtf8(c)[3] = low
    BY <2>1, SMT
  <2>3. /\ Here = \hE0 + (c \div 4096) /\ source[current + 1 + 1] = middle
        /\ source[current + 1 + 2] = low /\ current + 1 + 2 <= Len(source)
    <3>1. current + 2 = current + 1 + 1 /\ current + 3 = current + 1 + 2
          /\ 1 \in 1..3 /\ 2 \in 1..3 /\ 3 \in 1..3
      BY SMT
    <3> QED BY <3>1, <2>2, SMT DEF Ahead, Here
  <2>4. PICK lead \in Leading : /\ lead.bytes = \hE0..\hEF /\ lead.first = \hE0 /\ lead.following = 2
                                /\ lead.unit = 4096 /\ lead.least = \h800
    BY SMT DEF Leading
  <2>5. Here \in lead.bytes
    <3>1. \hE0 + (c \div 4096) \in \hE0..\hEF
      BY <1>4, SMT
    <3> QED BY <3>1, <2>3, <2>4, SMT
  <2>6. IsFollowed(lead.following)
    <3>1. \A i \in 1..2 : i = 1 \/ i = 2
      BY SMT
    <3>2. ASSUME NEW i \in 1..2 PROVE source[current + 1 + i] \in \h80..\hBF
      <4> HIDE DEF low, middle, high
      <4>1. CASE i = 1
        BY <4>1, <1>1, <2>3, SMT
      <4>2. CASE i = 2
        BY <4>2, <1>1, <2>3, SMT
      <4> QED BY <4>1, <4>2, <3>1, SMT
    <3> QED BY <3>2, <2>3, <2>4, SMT DEF IsFollowed
  <2>7. Value(lead) = c
    <3>1. FollowingValue(lead.following) = (64 * ((c \div 64) % 64)) + ((c \div 1) % 64)
      BY <1>1, <2>3, <2>4, SMT DEF FollowingValue, Following
    <3>2. Here - lead.first = c \div 4096
      BY <2>3, <2>4, SMT
    <3>3. Value(lead) = (4096 * (c \div 4096)) + ((64 * ((c \div 64) % 64)) + ((c \div 1) % 64))
      BY <3>1, <3>2, <2>4, SMT DEF Value
    <3> QED BY <3>3, <1>4, Sums, SMT
  <2>8. DecodedHere(c, 1 + lead.following)
    BY <1>4, <2>4, <2>5, <2>6, <2>7, DecodeMultibyte, SMT
  <2> QED BY <2>2, <2>4, <2>8, SMT
<1>5. CASE c >= \h10000
  <2>1. InUtf8(c) = <<\hF0 + (c \div 262144), high, middle, low>>
    BY <1>5, SMT DEF InUtf8, FollowingByte
  <2>2. Len(InUtf8(c)) = 4 /\ InUtf8(c)[1] = \hF0 + (c \div 262144) /\ InUtf8(c)[2] = high
        /\ InUtf8(c)[3] = middle /\ InUtf8(c)[4] = low
    BY <2>1, SMT
  <2>3. /\ Here = \hF0 + (c \div 262144) /\ source[current + 1 + 1] = high
        /\ source[current + 1 + 2] = middle /\ source[current + 1 + 3] = low
        /\ current + 1 + 3 <= Len(source)
    <3>1. /\ current + 2 = current + 1 + 1 /\ current + 3 = current + 1 + 2
          /\ current + 4 = current + 1 + 3 /\ 1 \in 1..4 /\ 2 \in 1..4 /\ 3 \in 1..4 /\ 4 \in 1..4
      BY SMT
    <3> QED BY <3>1, <2>2, SMT DEF Ahead, Here
  <2>4. PICK lead \in Leading : /\ lead.bytes = \hF0..\hF7 /\ lead.first = \hF0 /\ lead.following = 3
                                /\ lead.unit = 262144 /\ lead.least = \h10000
    BY SMT DEF Leading
  <2>5. Here \in lead.bytes
    <3>1. \hF0 + (c \div 262144) \in \hF0..\hF7
      BY <1>5, SMT DEF ScalarLimit
    <3> QED BY <3>1, <2>3, <2>4, SMT
  <2>6. IsFollowed(lead.following)
    <3>1. \A i \in 1..3 : i = 1 \/ i = 2 \/ i = 3
      BY SMT
    <3>2. ASSUME NEW i \in 1..3 PROVE source[current + 1 + i] \in \h80..\hBF
      <4> HIDE DEF low, middle, high
      <4>1. CASE i = 1
        BY <4>1, <1>1, <2>3, SMT
      <4>2. CASE i = 2
        BY <4>2, <1>1, <2>3, SMT
      <4>3. CASE i = 3
        BY <4>3, <1>1, <2>3, SMT
      <4> QED BY <4>1, <4>2, <4>3, <3>1, SMT
    <3> QED BY <3>2, <2>3, <2>4, SMT DEF IsFollowed
  <2>7. Value(lead) = c
    <3>1. FollowingValue(lead.following)
            = (4096 * ((c \div 4096) % 64)) + ((64 * ((c \div 64) % 64)) + ((c \div 1) % 64))
      BY <1>1, <2>3, <2>4, SMT DEF FollowingValue, Following
    <3>2. Here - lead.first = c \div 262144
      BY <2>3, <2>4, SMT
    <3>3. Value(lead) = (262144 * (c \div 262144))
             + ((4096 * ((c \div 4096) % 64)) + ((64 * ((c \div 64) % 64)) + ((c \div 1) % 64)))
      BY <3>1, <3>2, <2>4, SMT DEF Value
    <3> QED BY <3>3, Sums, SMT
  <2>8. DecodedHere(c, 1 + lead.following)
    BY <1>5, <2>4, <2>5, <2>6, <2>7, DecodeMultibyte, SMT
  <2> QED BY <2>2, <2>4, <2>8, SMT
<1> QED BY <1>2, <1>3, <1>4, <1>5, SMT

\* A character in UTF-16 is read as it was written.
LEMMA SurrogatesPartition ==
    \A x \in HighSurrogate : x \in Surrogate /\ x \notin LowSurrogate
<1> TAKE x \in HighSurrogate
<1>1. x \in Int /\ 55296 <= x /\ x <= 56319
  BY SMT DEF HighSurrogate
<1>2. x \in Surrogate
  BY <1>1, SMT DEF Surrogate
<1>3. x \notin LowSurrogate
  BY <1>1, SMT DEF LowSurrogate
<1> QED BY <1>2, <1>3

LEMMA DecodeUtf16 ==
    ASSUME form = "utf16", reading = "run", current \in Nat, Len(source) \in Nat, Read,
           NEW c \in Nat \ Surrogate, c < \h20000, Ahead(Utf16Char(c))
    PROVE  Decoded(c, Len(Utf16Char(c)))
<1>0. form # "utf8"
  BY SMT
<1>1. CASE c < \h10000
  <2>1. Utf16Char(c) = <<c>>
    BY <1>1, SMT DEF Utf16Char
  <2>2. Len(Utf16Char(c)) = 1 /\ Utf16Char(c)[1] = c
    BY <2>1, SMT
  <2>3. Here = c /\ current + 1 <= Len(source)
    BY <2>2, SMT DEF Ahead, Here
  <2>4. current # Len(source)
    BY <2>3, SMT
  <2>5. Here \notin Surrogate /\ Here \notin HighSurrogate /\ Here \notin LowSurrogate
    BY <2>3, SMT DEF Surrogate, HighSurrogate, LowSurrogate
  <2>6. ReadUnit
    BY <1>0, <2>4, <2>5, SMT DEF Read, ReadAscii, ReadMultibyte, ReadIncomplete, ReadStray, ReadPair,
       ReadLoneSurrogate, ReadEnd
  <2> QED BY <2>6, <2>2, <2>3, SMT DEF ReadUnit, Push, Decoded
<1>2. CASE c >= \h10000
  <2> DEFINE first == \hD800 + ((c - \h10000) \div \h400)
             second == \hDC00 + ((c - \h10000) % \h400)
  <2>1. Utf16Char(c) = <<first, second>>
    BY <1>2, SMT DEF Utf16Char
  <2>2. first \in HighSurrogate /\ second \in LowSurrogate
        /\ ((first - \hD800) * 1024) + (second - \hDC00) + \h10000 = c
    BY <1>2, SMT DEF HighSurrogate, LowSurrogate
  <2> HIDE DEF first, second
  <2>3. first \in Surrogate /\ first \notin LowSurrogate
    BY <2>2, SurrogatesPartition
  <2>4. Len(Utf16Char(c)) = 2 /\ Utf16Char(c)[1] = first /\ Utf16Char(c)[2] = second
    BY <2>1, SMT
  <2>5. Here = first /\ source[current + 2] = second /\ current + 2 <= Len(source)
    BY <2>4, SMT DEF Ahead, Here
  <2>6. current + 1 # Len(source) /\ current # Len(source)
    BY <2>5, SMT
  <2>7. ReadPair
    BY <1>0, <2>2, <2>3, <2>5, <2>6, SMT DEF Read, ReadAscii, ReadMultibyte, ReadIncomplete, ReadStray,
       ReadUnit, ReadLoneSurrogate, ReadEnd
  <2>8. Pair(Here, source[current + 2]) = <<c>>
    BY <2>2, <2>5, SMT DEF Pair
  <2> QED BY <2>4, <2>7, <2>8, SMT DEF ReadPair, Push, Decoded
<1> QED BY <1>1, <1>2, SMT

-----------------------------------------------------------------------------
(* The inductive invariant                                                 *)

Points == Standard(origin.standard)
IsWritable ==
    origin.wellFormed /\ \A i \in DOMAIN origin.standard : origin.standard[i].scalar < \h20000

\* A well-formed text is always the encoding of its characters, in the form it has
\* at the time, and the reading has come to the end of one of them.
SurviveInv ==
    /\ origin \in Texts \cup {NoText}
    /\ IsWritable =>
          /\ source = Written(form, Points)
          /\ reading \in {"run", "end"}
          /\ \E n \in 0..Len(Points) : /\ codePoints = SubSeq(Points, 1, n)
                                       /\ current = Len(Written(form, SubSeq(Points, 1, n)))
          /\ reading = "end" => codePoints = Points

IInv == ReadInv /\ SegmentInv /\ SurviveInv

\* The characters of a writable text are code points that can be written.
LEMMA WritablePoints ==
    ASSUME origin \in Texts \cup {NoText}, IsWritable
    PROVE  /\ origin \in Texts /\ Points \in Seq(Nat) /\ Len(Points) \in Nat
           /\ \A i \in 1..Len(Points) : Points[i] \in Nat \ Surrogate /\ Points[i] < \h20000
           /\ origin.form \in {"utf8", "utf16"}
           /\ origin.source = Written(origin.form, Points)
<1>1. origin \in Texts
  BY DEF IsWritable, NoText
<1>2. /\ Points \in Seq(Nat \ Surrogate) /\ origin.form \in {"utf8", "utf16"}
      /\ origin.source = Written(origin.form, Points)
  BY <1>1, TextAssumption DEF IsWritable, Points
<1>3. /\ Len(Points) \in Nat /\ DOMAIN Points = 1..Len(Points)
      /\ \A i \in 1..Len(Points) : Points[i] \in Nat \ Surrogate
  BY <1>2, LenProperties, ElementOfSeq
<1>4. DOMAIN Points = DOMAIN origin.standard
      /\ \A i \in DOMAIN origin.standard : Points[i] = origin.standard[i].scalar
  BY DEF Points, Standard
<1>5. \A i \in 1..Len(Points) : Points[i] < \h20000
  BY <1>3, <1>4 DEF IsWritable
<1>6. Points \in Seq(Nat)
  BY <1>2
<1> QED BY <1>1, <1>2, <1>3, <1>5, <1>6

\* Nothing has been read at the beginning.
LEMMA NothingRead ==
    ASSUME NEW aForm, NEW points \in Seq(Nat)
    PROVE  SubSeq(points, 1, 0) = <<>> /\ Len(Written(aForm, SubSeq(points, 1, 0))) = 0
           /\ 0 \in 0..Len(points)
<1>1. SubSeq(points, 1, 0) = <<>>
  BY SubSeqEmpty
<1>2. Chars(aForm, <<>>) = <<>>
  <2>1. <<>> \in Seq(Nat) /\ Len(<<>>) = 0
    BY EmptySeq
  <2>2. Chars(aForm, <<>>) \in Seq(Seq(Nat)) /\ Len(Chars(aForm, <<>>)) = 0
    BY <2>1, CharsType
  <2> QED BY <2>2, EmptySeq
<1>3. Written(aForm, <<>>) = <<>>
  BY <1>2, WrittenIsFlat, FlattenEmpty
<1>4. Len(<<>>) = 0 /\ 0 \in 0..Len(points)
  BY EmptySeq, LenProperties
<1> QED BY <1>1, <1>3, <1>4

\* A step of the reading of a well-formed text reads its next character.
LEMMA SurviveRead ==
    ASSUME ReadInv, SurviveInv, Read, origin' = origin
    PROVE  SurviveInv'
<1> SUFFICES ASSUME IsWritable
             PROVE  /\ source' = Written(form', Points)
                    /\ reading' \in {"run", "end"}
                    /\ \E n \in 0..Len(Points) : /\ codePoints' = SubSeq(Points, 1, n)
                                                 /\ current' = Len(Written(form', SubSeq(Points, 1, n)))
                    /\ reading' = "end" => codePoints' = Points
  BY DEF SurviveInv, IsWritable, Points
<1>1. Points \in Seq(Nat) /\ Len(Points) \in Nat
  BY WritablePoints DEF SurviveInv
<1>a. \A i \in 1..Len(Points) : Points[i] \in Nat \ Surrogate /\ Points[i] < \h20000
  BY WritablePoints DEF SurviveInv
<1>2. source = Written(form, Points)
  BY DEF SurviveInv
<1>3. PICK n \in 0..Len(Points) : /\ codePoints = SubSeq(Points, 1, n)
                                  /\ current = Len(Written(form, SubSeq(Points, 1, n)))
  BY DEF SurviveInv
<1>4. /\ reading = "run" /\ form \in {"utf8", "utf16"} /\ current \in Nat /\ Len(source) \in Nat
      /\ source \in Seq(Nat)
  BY LenProperties DEF Read, ReadAscii, ReadMultibyte, ReadIncomplete, ReadStray, ReadUnit,
     ReadPair, ReadLoneSurrogate, ReadEnd, More, ReadInv, ReadTypes
<1> HIDE DEF Points, IsWritable
<1>5. CASE n = Len(Points)
  <2>1. SubSeq(Points, 1, n) = Points
    BY <1>1, <1>5, SubSeqFull
  <2>2. current = Len(source)
    BY <1>2, <1>3, <2>1
  <2>3. ~More
    BY <2>2, <1>4 DEF More
  <2>4. ReadEnd
    BY <2>3 DEF Read, ReadAscii, ReadMultibyte, ReadIncomplete, ReadStray, ReadUnit,
       ReadPair, ReadLoneSurrogate
  <2> QED BY <2>1, <2>4, <1>2, <1>3 DEF ReadEnd
<1>6. CASE n < Len(Points)
  <2> DEFINE c == Points[n + 1]
             char == Char(form, c)
             before == Written(form, SubSeq(Points, 1, n))
  <2>1. n \in Nat /\ n + 1 \in 1..Len(Points) /\ n + 1 \in 0..Len(Points)
    BY <1>1, <1>6
  <2>2. c \in Nat \ Surrogate /\ c < \h20000 /\ c \in Nat
    BY <1>a, <2>1, SMT
  <2>3. /\ Written(form, SubSeq(Points, 1, n + 1)) = before \o char
        /\ before \in Seq(Nat)
        /\ \E rest \in Seq(Nat) : Written(form, Points) = (before \o char) \o rest
    <3> DEFINE p == Points
    <3>1. p \in Seq(Nat) /\ n \in Nat /\ n < Len(p)
      BY <1>1, <1>6, <2>1
    <3> HIDE DEF p
    <3>2. /\ Written(form, SubSeq(p, 1, n + 1)) = Written(form, SubSeq(p, 1, n)) \o Char(form, p[n + 1])
          /\ Written(form, SubSeq(p, 1, n)) \in Seq(Nat)
          /\ \E rest \in Seq(Nat) :
                Written(form, p) = (Written(form, SubSeq(p, 1, n)) \o Char(form, p[n + 1])) \o rest
      BY <3>1, WrittenNext
    <3> QED BY <3>2 DEF p
  <2>4. char \in Seq(Nat) /\ Len(char) \in Nat
    BY <2>2, CharType
  <2>5. PICK rest \in Seq(Nat) : source = (before \o char) \o rest
    BY <2>3, <1>2
  <2> HIDE DEF before, char, c
  <2>6. Ahead(char)
    BY <1>3, <2>3, <2>4, <2>5, CharIsAhead DEF before
  <2>7. Decoded(c, Len(char))
    <3>1. CASE form = "utf8"
      <4>1. char = InUtf8(c) /\ c < ScalarLimit
        BY <3>1, <2>2, WritesUtf8, SMT DEF char, Char, ScalarLimit
      <4> QED BY <3>1, <4>1, <1>4, <2>2, <2>6, DecodeUtf8, SMT DEF DecodedHere
    <3>2. CASE form = "utf16"
      <4>1. char = Utf16Char(c)
        BY <3>2 DEF char, Char
      <4> QED BY <3>2, <4>1, <1>4, <2>2, <2>6, DecodeUtf16, SMT
    <3> QED BY <3>1, <3>2, <1>4
  <2>8. codePoints' = SubSeq(Points, 1, n + 1)
    <3>1. SubSeq(Points, 1, n + 1) = SubSeq(Points, 1, n) \o <<c>>
      <4>1. /\ SubSeq(Points, 1, n + 1) = SubSeq(Points, 1, (n + 1) - 1) \o <<Points[n + 1]>>
            /\ (n + 1) - 1 = n
        BY <1>1, <2>1, SubSeqRecursiveSecond
      <4> QED BY <4>1 DEF c
    <3> QED BY <3>1, <2>7, <1>3 DEF Decoded
  <2>9. current' = Len(Written(form, SubSeq(Points, 1, n + 1)))
    <3>1. Len(before \o char) = Len(before) + Len(char)
      BY <2>3, <2>4, ConcatProperties
    <3> QED BY <3>1, <2>3, <2>7, <1>3 DEF Decoded, before
  <2>10. form' = form /\ source' = source /\ reading' = "run"
    BY <2>7, <1>4 DEF Decoded
  <2> QED BY <2>1, <2>8, <2>9, <2>10, <1>2
<1> QED BY <1>1, <1>5, <1>6

\* Before anything has been read, there is nothing to cover.
LEMMA NothingCovered ==
    ASSUME NEW aForm, NEW text \in Seq(Nat)
    PROVE  Covers(aForm, text, <<>>, <<>>, 0) /\ 0 \in 0..Len(text) /\ <<>> \in Seq(Nat)
<1>1. Len(<<>>) = 0 /\ <<>> \in Seq(Nat) /\ Len(text) \in Nat
  BY EmptySeq, LenProperties
<1> QED BY <1>1 DEF Covers

LEMMA InitSatisfies == Init => IInv
<1> SUFFICES ASSUME Init PROVE IInv
  OBVIOUS
<1>1. CASE origin \in Texts /\ ReadingStarts(origin.form, origin.source) /\ NoSegments
  <2>1. /\ form = origin.form /\ source = origin.source /\ current = 0 /\ codePoints = <<>>
        /\ offsets = <<>> /\ reading = "run"
    BY <1>1 DEF ReadingStarts
  <2>2. form \in {"utf8", "utf16"} /\ source \in Seq(Nat)
    <3>1. \A text \in Texts : text.form \in {"utf8", "utf16"} /\ text.source \in Seq(Nat)
      BY TextAssumption
    <3> QED BY <3>1, <2>1, <1>1
  <2>3. Covers(form, source, <<>>, <<>>, 0) /\ 0 \in 0..Len(source) /\ <<>> \in Seq(Nat)
    BY <2>2, NothingCovered
  <2>4. ReadInv
    BY <2>1, <2>2, <2>3 DEF ReadInv, ReadTypes
  <2>5. SegmentInv
    BY <1>1, EmptySeq DEF NoSegments, SegmentInv
  <2>6. SurviveInv
    <3> SUFFICES ASSUME IsWritable
                 PROVE  /\ source = Written(form, Points)
                        /\ \E n \in 0..Len(Points) :
                              /\ codePoints = SubSeq(Points, 1, n)
                              /\ current = Len(Written(form, SubSeq(Points, 1, n)))
      BY <1>1, <2>1 DEF SurviveInv
    <3>1. Points \in Seq(Nat) /\ origin.source = Written(origin.form, Points)
      BY <1>1, WritablePoints
    <3> HIDE DEF Points, IsWritable
    <3>2. SubSeq(Points, 1, 0) = <<>> /\ Len(Written(form, SubSeq(Points, 1, 0))) = 0
          /\ 0 \in 0..Len(Points)
      BY <3>1, NothingRead
    <3> QED BY <3>1, <3>2, <2>1
  <2> QED BY <2>4, <2>5, <2>6 DEF IInv
<1>2. CASE origin = NoText /\ Nothing /\ (NoSegments \/ \E breaks \in BreakTexts : SegmentingStarts(breaks))
  <2>1. ReadInv
    <3>1. source \in Seq(Nat) /\ Covers(form, source, codePoints, offsets, current)
          /\ current \in 0..Len(source) /\ codePoints \in Seq(Nat) /\ offsets \in Seq(Nat)
      <4>1. <<>> \in Seq(Nat)
        BY EmptySeq
      <4>2. Covers(form, <<>>, <<>>, <<>>, 0) /\ 0 \in 0..Len(<<>>)
        BY <4>1, NothingCovered
      <4> QED BY <1>2, <4>1, <4>2 DEF Nothing
    <3> QED BY <1>2, <3>1 DEF Nothing, ReadInv, ReadTypes
  <2>2. SegmentInv
    <3>1. CASE NoSegments
      BY <3>1, EmptySeq DEF NoSegments, SegmentInv
    <3>2. CASE \E breaks \in BreakTexts : SegmentingStarts(breaks)
      BY <3>2, BreakAssumption, SegmentingBegins
    <3> QED BY <1>2, <3>1, <3>2
  <2>3. SurviveInv
    BY <1>2 DEF SurviveInv, IsWritable, NoText
  <2> QED BY <2>1, <2>2, <2>3 DEF IInv
<1> QED BY <1>1, <1>2 DEF Init

\* What leaves a part alone leaves its invariant alone.
LEMMA ReadInvStays == ReadInv /\ UNCHANGED readVars => ReadInv'
BY DEF ReadInv, ReadTypes, IsStuck, More, Here, HighBeforeOrdinary, readVars

LEMMA SegmentInvStays == SegmentInv /\ UNCHANGED segmentVars => SegmentInv'
BY DEF SegmentInv, CounterInv, Before, segmentVars

LEMMA SurviveInvStays == SurviveInv /\ UNCHANGED <<readVars, origin>> => SurviveInv'
BY DEF SurviveInv, IsWritable, Points, readVars

\* What has been read is written in the other form, and is then read from the beginning.
LEMMA RecodeStep ==
    ASSUME IInv, Recode
    PROVE  ReadInv' /\ SurviveInv'
<1> DEFINE other == IF form = "utf8" THEN "utf16" ELSE "utf8"
           text == Written(other, codePoints)
<1>1. /\ form' = other /\ source' = text /\ current' = 0 /\ codePoints' = <<>> /\ offsets' = <<>>
      /\ reading' = "run" /\ reading = "end" /\ origin' = origin
  BY DEF Recode, Restart
<1>2. text \in Seq(Nat) /\ other \in {"utf8", "utf16"}
  <2>1. codePoints \in Seq(Nat)
    BY DEF IInv, ReadInv, ReadTypes
  <2> QED BY <2>1, WrittenType
<1> HIDE DEF text, other
<1>3. ReadInv'
  <2>1. Covers(other, text, <<>>, <<>>, 0) /\ 0 \in 0..Len(text) /\ <<>> \in Seq(Nat)
    BY <1>2, NothingCovered
  <2> QED BY <1>1, <1>2, <2>1 DEF ReadInv, ReadTypes
<1>4. SurviveInv'
  <2> SUFFICES ASSUME IsWritable
               PROVE  /\ text = Written(other, Points)
                      /\ \E n \in 0..Len(Points) : /\ <<>> = SubSeq(Points, 1, n)
                                                   /\ 0 = Len(Written(other, SubSeq(Points, 1, n)))
    BY <1>1 DEF IInv, SurviveInv, IsWritable, Points
  <2>1. codePoints = Points
    BY <1>1 DEF IInv, SurviveInv
  <2>2. Points \in Seq(Nat)
    BY WritablePoints DEF IInv, SurviveInv
  <2> HIDE DEF Points, IsWritable
  <2>3. SubSeq(Points, 1, 0) = <<>> /\ Len(Written(other, SubSeq(Points, 1, 0))) = 0
        /\ 0 \in 0..Len(Points)
    BY <2>2, NothingRead
  <2> QED BY <2>1, <2>3 DEF text
<1> QED BY <1>3, <1>4

LEMMA NextPreserves == IInv /\ [Next]_vars => IInv'
<1> SUFFICES ASSUME IInv, [Next]_vars PROVE IInv'
  OBVIOUS
<1> USE DEF IInv
<1>1. CASE Read /\ UNCHANGED <<segmentVars, convertVars, callVars>>
  <2>1. UNCHANGED segmentVars /\ origin' = origin
    BY <1>1 DEF callVars
  <2> QED BY <1>1, <2>1, ReadStep, SegmentInvStays, SurviveRead
<1>2. CASE SplitRead
  <2>1. UNCHANGED readVars /\ origin' = origin
    BY <1>2 DEF SplitRead
  <2>2. [i \in DOMAIN codePoints |-> PropertyOf(codePoints[i]).break] \in Seq(BreakProperty)
    BY PropertiesExist DEF ReadInv, ReadTypes
  <2>3. SegmentInv'
    BY <1>2, <2>2, SplitSegmentingBegins DEF SplitRead
  <2> QED BY <2>1, <2>3, ReadInvStays, SurviveInvStays
<1>3. CASE Segment /\ UNCHANGED <<readVars, convertVars, callVars>>
  <2>1. UNCHANGED readVars /\ origin' = origin
    BY <1>3 DEF callVars
  <2> QED BY <1>3, <2>1, SegmentStep, ReadInvStays, SurviveInvStays
<1>4. CASE Collect
  <2>1. UNCHANGED readVars /\ UNCHANGED segmentVars /\ origin' = origin
    BY <1>4 DEF Collect
  <2> QED BY <2>1, ReadInvStays, SegmentInvStays, SurviveInvStays
<1>5. CASE Recode
  <2>1. UNCHANGED segmentVars
    BY <1>5 DEF Recode
  <2> QED BY <1>5, <2>1, RecodeStep, SegmentInvStays
<1>6. CASE Convert /\ UNCHANGED <<readVars, segmentVars, callVars>>
  <2>1. UNCHANGED readVars /\ UNCHANGED segmentVars /\ origin' = origin
    BY <1>6 DEF callVars
  <2> QED BY <2>1, ReadInvStays, SegmentInvStays, SurviveInvStays
<1>7. CASE UNCHANGED vars
  <2>1. UNCHANGED readVars /\ UNCHANGED segmentVars /\ origin' = origin
    BY <1>7 DEF vars, callVars
  <2> QED BY <2>1, ReadInvStays, SegmentInvStays, SurviveInvStays
<1> QED BY <1>1, <1>2, <1>3, <1>4, <1>5, <1>6, <1>7 DEF Next

\* A text that has survived so far is what its characters say.
LEMMA SurviveInvSuffices == ASSUME SurviveInv PROVE TextSurvivesRecoding
<1> SUFFICES ASSUME IsWritable
             PROVE  /\ reading # "thrown"
                    /\ reading = "end" => codePoints = Points
                    /\ form = origin.form => source = origin.source
  BY DEF TextSurvivesRecoding, IsWritable, Points
<1>1. origin.source = Written(origin.form, Points)
  BY WritablePoints DEF SurviveInv
<1> QED BY <1>1 DEF SurviveInv

-----------------------------------------------------------------------------
(* The graphemes of a text                                                 *)

\* The characters that begin a grapheme, and those from one to the next.
Starts(p) == {i \in DOMAIN p : i = 1 \/ ~StaysTogether(p, i - 1)}
From(p, i) == {j \in DOMAIN p : j >= i /\ \A k \in Starts(p) : k > i => j < k}

\* One segment for each beginning of a grapheme, up to the next.
OffsetsAreStarts(list, p, m) ==
    /\ m \in Nat /\ 1..Len(list) - 1 = 1..m
    /\ \A k \in 1..m : /\ list[k] \in Nat /\ list[k] + 1 \in Starts(p)
                       /\ list[k + 1] \in list[k] + 1..Len(p)
                       /\ From(p, list[k] + 1) = list[k] + 1..list[k + 1]
    /\ \A i \in Starts(p) : \E k \in 1..m : i = list[k] + 1
    /\ IsFiniteSet(Starts(p)) /\ Cardinality(Starts(p)) = m

LEMMA SegmentsAreGraphemes ==
    ASSUME NEW p \in Seq(BreakProperty), NEW list \in Seq(Nat), OffsetsUpTo(Len(p), list, p)
    PROVE  OffsetsAreStarts(list, p, Len(list) - 1)
<1> DEFINE n == Len(p)
           l == Len(list)
           m == l - 1
<1>1. /\ n \in Nat /\ l \in Nat /\ DOMAIN p = 1..n /\ DOMAIN list = 1..l
      /\ \A i \in 1..l : list[i] \in Nat
  BY LenProperties, ElementOfSeq
<1>2. /\ list # <<>> /\ list[1] = 0
      /\ \A i \in 1..l : list[i] \in 0..n
      /\ \A i, j \in 1..l : i < j => list[i] < list[j]
      /\ \A k \in 1..n : (\E i \in 1..l : list[i] = k) <=> k = n \/ ~StaysTogether(p, k)
  BY <1>1 DEF OffsetsUpTo, IsIn
<1>3. l >= 1 /\ m \in Nat
  <2>1. Len(list) # 0
    BY <1>2, EmptySeq
  <2> QED BY <2>1, <1>1
<1>4. \A i \in Int : i \in Starts(p) <=> i \in 1..n /\ (i = 1 \/ ~StaysTogether(p, i - 1))
  BY <1>1 DEF Starts
<1> HIDE DEF n, l
\* The last offset is the end.
<1>5. \A k \in 1..l : list[k] < n => k \in 1..m
  <2> SUFFICES ASSUME NEW k \in 1..l, list[k] < n PROVE k # l
    BY <1>1
  <2>1. n \in 1..n
    BY <1>1
  <2>2. PICK x \in 1..l : list[x] = n
    BY <2>1, <1>2
  <2>3. k # x
    BY <2>2, <1>1
  <2>4. CASE k < x
    BY <2>4, <1>1
  <2>5. CASE x < k
    <3>1. list[x] < list[k]
      BY <2>5, <1>2
    <3> QED BY <3>1, <2>2, <1>1
  <2> QED BY <2>3, <2>4, <2>5, <1>1
<1>6. ASSUME NEW k \in 1..m
      PROVE  /\ k \in 1..l /\ k + 1 \in 1..l /\ list[k] \in Nat /\ list[k + 1] \in Nat
             /\ list[k] < list[k + 1] /\ list[k + 1] <= n
             /\ list[k] + 1 \in Starts(p) /\ list[k] + 1 \in 1..n
  <2>1. k \in 1..l /\ k + 1 \in 1..l /\ k < k + 1
    BY <1>1
  <2>2. list[k] \in Nat /\ list[k + 1] \in 0..n /\ list[k] < list[k + 1]
    BY <2>1, <1>1, <1>2
  <2>3. list[k] + 1 \in 1..n
    BY <2>2, <1>1
  <2>4. list[k] + 1 = 1 \/ ~StaysTogether(p, (list[k] + 1) - 1)
    <3>1. CASE list[k] = 0
      BY <3>1
    <3>2. CASE list[k] # 0
      <4>1. list[k] \in 1..n /\ list[k] # n /\ (list[k] + 1) - 1 = list[k]
        BY <2>2, <3>2, <1>1
      <4>2. ~StaysTogether(p, list[k])
        BY <4>1, <2>1, <1>2
      <4> QED BY <4>1, <4>2
    <3> QED BY <3>1, <3>2
  <2>5. list[k] + 1 \in Starts(p)
    <3> DEFINE i == list[k] + 1
    <3>1. i \in Int /\ i \in 1..n /\ (i = 1 \/ ~StaysTogether(p, i - 1))
      BY <2>3, <2>4
    <3> HIDE DEF i
    <3>2. i \in Starts(p)
      BY <3>1, <1>4
    <3> QED BY <3>2 DEF i
  <2> QED BY <2>1, <2>2, <2>3, <2>5, <1>1
<1>7. ASSUME NEW i \in Starts(p) PROVE \E k \in 1..m : i = list[k] + 1
  <2>1. i \in 1..n
    BY <1>1 DEF Starts
  <2>2. CASE i = 1
    <3>1. 1 \in 1..l /\ list[1] < n /\ list[1] + 1 = 1
      BY <2>1, <2>2, <1>1, <1>2, <1>3
    <3> QED BY <3>1, <2>2, <1>5
  <2>3. CASE i # 1
    <3>1. i - 1 \in 1..n /\ i - 1 < n /\ ~StaysTogether(p, i - 1) /\ (i - 1) + 1 = i
      BY <2>1, <2>3, <1>1, <1>4
    <3>2. PICK k \in 1..l : list[k] = i - 1
      BY <3>1, <1>2
    <3> QED BY <3>1, <3>2, <1>5
  <2> QED BY <2>2, <2>3
<1>8. IsFiniteSet(Starts(p)) /\ Cardinality(Starts(p)) = m
  <2> DEFINE f == [k \in 1..m |-> list[k] + 1]
  <2>1. f \in [1..m -> Starts(p)]
    BY <1>6
  <2>2. \A i \in Starts(p) : \E k \in 1..m : f[k] = i
    BY <1>7
  <2>3. ASSUME NEW a \in 1..m, NEW b \in 1..m, f[a] = f[b] PROVE a = b
    <3>1. list[a] + 1 = list[b] + 1 /\ list[a] \in Nat /\ list[b] \in Nat /\ a \in 1..l /\ b \in 1..l
      BY <2>3, <1>6
    <3>2. ~(a < b) /\ ~(b < a)
      BY <3>1, <1>2
    <3> QED BY <3>2
  <2> HIDE DEF f
  <2>4. ExistsBijection(1..m, Starts(p))
    BY <2>1, <2>2, <2>3 DEF ExistsBijection, Bijection, Injection, Surjection, IsInjective
  <2>5. IsFiniteSet(1..m) /\ Cardinality(1..m) = m
    BY <1>3, FS_Interval
  <2> QED BY <2>4, <2>5, FS_Bijection
<1>9. ASSUME NEW k \in 1..m
      PROVE  From(p, list[k] + 1) = list[k] + 1..list[k + 1]
  <2> DEFINE first == list[k] + 1
             end == list[k + 1]
  <2>1. /\ k \in 1..l /\ k + 1 \in 1..l /\ first \in 1..n /\ end \in first..n /\ first \in Nat
        /\ end \in Nat /\ end \in 1..n
    <3>1. /\ k \in 1..l /\ k + 1 \in 1..l /\ list[k] \in Nat /\ list[k + 1] \in Nat
          /\ list[k] < list[k + 1] /\ list[k + 1] <= n /\ list[k] + 1 \in 1..n
      BY <1>6
    <3> QED BY <3>1, <1>1
  <2>a. first \in 1..n /\ end \in 1..n
    BY <2>1
  <2> HIDE DEF first, end
  <2>2. ASSUME NEW j \in From(p, first) PROVE j \in first..end
    <3>1. j \in 1..n /\ j >= first /\ \A s \in Starts(p) : s > first => j < s
      BY <1>1 DEF From
    <3>2. CASE end = n
      BY <3>1, <3>2, <2>1
    <3>3. CASE end # n
      <4>1. ~StaysTogether(p, end)
        BY <2>1, <3>3, <1>2 DEF end
      <4>2. end + 1 \in 1..n /\ (end + 1) - 1 = end /\ end + 1 \in Int /\ end + 1 > first
        BY <2>1, <3>3, <1>1
      <4>3. end + 1 \in Starts(p)
        BY <4>1, <4>2, <1>4
      <4>4. j < end + 1
        BY <3>1, <4>2, <4>3
      <4> QED BY <3>1, <4>4, <2>1
    <3> QED BY <3>2, <3>3
  <2>3. ASSUME NEW j \in first..end PROVE j \in From(p, first)
    <3>1. j \in 1..n /\ j >= first /\ j <= end
      BY <2>1, <1>1
    <3>2. ASSUME NEW s \in Starts(p), s > first PROVE j < s
      <4>1. PICK x \in 1..m : s = list[x] + 1
        BY <1>7
      <4>2. list[x] > list[k] /\ x \in 1..l /\ list[x] \in Nat /\ list[k] \in Nat
        <5>1. x \in 1..l /\ list[x] \in Nat /\ list[k] \in Nat
          BY <1>6
        <5> QED BY <5>1, <4>1, <3>2 DEF first
      <4>3. ~(x < k) /\ x # k
        <5>1. x < k => list[x] < list[k]
          BY <4>2, <2>1, <1>2
        <5>2. x = k => list[x] = list[k]
          OBVIOUS
        <5> QED BY <5>1, <5>2, <4>2
      <4>4. x = k + 1 \/ k + 1 < x
        BY <4>3
      <4>5. list[x] >= end
        BY <4>2, <4>4, <2>1, <1>2 DEF end
      <4> QED BY <4>1, <4>2, <4>5, <3>1, <2>1
    <3> QED BY <3>1, <3>2, <1>1 DEF From
  <2> QED BY <2>2, <2>3 DEF first, end
<1>10. ASSUME NEW k \in 1..m PROVE list[k + 1] \in list[k] + 1..n
  BY <1>6, <1>1
<1> QED BY <1>3, <1>6, <1>7, <1>8, <1>9, <1>10 DEF OffsetsAreStarts, l, n

\* The same of a text without characters, for which there are no offsets at all.
LEMMA SegmentsOfAny ==
    ASSUME NEW p \in Seq(BreakProperty), NEW list \in Seq(Nat),
           (p = <<>> /\ list = <<>>) \/ OffsetsUpTo(Len(p), list, p)
    PROVE  \E m : OffsetsAreStarts(list, p, m)
<1>1. CASE p = <<>> /\ list = <<>>
  <2>1. Len(list) = 0 /\ DOMAIN p = {}
    BY <1>1, EmptySeq
  <2>2. Starts(p) = {} /\ 1..Len(list) - 1 = 1..0 /\ \A k \in 1..0 : FALSE
    BY <2>1 DEF Starts
  <2>3. OffsetsAreStarts(list, p, 0)
    BY <2>2, FS_EmptySet DEF OffsetsAreStarts
  <2> QED BY <2>3
<1> QED BY <1>1, SegmentsAreGraphemes

\* The greatest of some widths is the only one of its kind.
LEMMA OneWidest ==
    ASSUME NEW widths, widths \subseteq 1..2, widths # {}
    PROVE  \E w \in widths : /\ \A v \in widths : v <= w
                            /\ \A x \in widths : (\A v \in widths : v <= x) => x = w
<1>1. CASE 2 \in widths
  BY <1>1
<1>2. CASE 2 \notin widths
  <2>1. \A v \in widths : v = 1
    BY <1>2
  <2>2. 1 \in widths
    BY <2>1
  <2> QED BY <2>1, <2>2
<1> QED BY <1>1, <1>2

\* The characters of the text, and what they are in UTF-8.
All == origin.standard
CharBytes == [i \in DOMAIN All |-> All[i].bytes]

LEMMA InUtf8Type ==
    ASSUME NEW c \in Nat
    PROVE  InUtf8(c) \in Seq(Nat)
<1>1. \A x, y, z, w \in Nat :
          <<x>> \in Seq(Nat) /\ <<x, y>> \in Seq(Nat) /\ <<x, y, z>> \in Seq(Nat)
          /\ <<x, y, z, w>> \in Seq(Nat)
  OBVIOUS
<1>2. /\ 128 + ((c \div 1) % 64) \in Nat /\ 128 + ((c \div 64) % 64) \in Nat
      /\ 128 + ((c \div 4096) % 64) \in Nat
      /\ 192 + (c \div 64) \in Nat /\ 224 + (c \div 4096) \in Nat /\ 240 + (c \div 262144) \in Nat
  BY SMT
<1> QED BY <1>1, <1>2, SMT DEF InUtf8

\* The characters of a well-formed text.
LEMMA CharsOfText ==
    ASSUME origin \in Texts \cup {NoText}, origin.wellFormed
    PROVE  /\ origin \in Texts /\ Points \in Seq(Nat) /\ Len(Points) \in Nat
           /\ DOMAIN All = 1..Len(Points)
           /\ \A i \in 1..Len(Points) : Points[i] = All[i].scalar /\ Points[i] \in Nat
<1>1. origin \in Texts
  BY DEF NoText
<1>2. Points \in Seq(Nat \ Surrogate)
  BY <1>1, TextAssumption DEF Points
<1>3. /\ Len(Points) \in Nat /\ DOMAIN Points = 1..Len(Points)
      /\ \A i \in 1..Len(Points) : Points[i] \in Nat \ Surrogate
  BY <1>2, LenProperties, ElementOfSeq
<1>4. DOMAIN Points = DOMAIN All /\ \A i \in DOMAIN All : Points[i] = All[i].scalar
  BY DEF Points, Standard, All
<1>5. Points \in Seq(Nat)
  BY <1>2
<1> QED BY <1>1, <1>3, <1>4, <1>5

LEMMA BytesOfText ==
    ASSUME origin \in Texts \cup {NoText}, origin.wellFormed, origin.form = "utf8"
    PROVE  /\ CharBytes \in Seq(Seq(Nat)) /\ Len(CharBytes) = Len(Points)
           /\ \A i \in 1..Len(Points) : /\ CharBytes[i] = InUtf8(Points[i])
                                        /\ Points[i] < ScalarLimit
           /\ origin.source = FlattenSeq(CharBytes)
<1>1. /\ origin \in Texts /\ Len(Points) \in Nat /\ DOMAIN All = 1..Len(Points)
      /\ \A i \in 1..Len(Points) : Points[i] = All[i].scalar /\ Points[i] \in Nat
  BY CharsOfText
<1>2. /\ origin.source = FlattenSeq(CharBytes)
      /\ \A i \in DOMAIN All : All[i].scalar < ScalarLimit /\ All[i].bytes = InUtf8(All[i].scalar)
  BY <1>1, Utf8Assumption DEF All, CharBytes
<1>3. \A i \in 1..Len(Points) : /\ All[i].bytes = InUtf8(Points[i]) /\ Points[i] < ScalarLimit
                                /\ All[i].bytes \in Seq(Nat)
  BY <1>1, <1>2, InUtf8Type
<1>4. CharBytes = [i \in 1..Len(Points) |-> All[i].bytes]
  BY <1>1 DEF CharBytes
<1>5. CharBytes \in [1..Len(Points) -> Seq(Nat)]
  BY <1>3, <1>4
<1>6. CharBytes \in Seq(Seq(Nat)) /\ Len(CharBytes) = Len(Points)
  BY <1>1, <1>5, FunctionIsSeq
<1> QED BY <1>2, <1>3, <1>4, <1>6

\* The bytes before a character are those of the characters before it.
LEMMA BytesBeforeIsLength ==
    ASSUME origin \in Texts \cup {NoText}, origin.wellFormed, origin.form = "utf8",
           NEW n \in 0..Len(Points)
    PROVE  BytesBefore(All, n + 1) = Len(FlattenSeq(SubSeq(CharBytes, 1, n)))
<1> DEFINE b == CharBytes
           s == SubSeq(b, 1, n)
           f == [j \in 1..n |-> All[j].bytes]
<1>1. b \in Seq(Seq(Nat)) /\ n \in Nat /\ n <= Len(b) /\ Len(b) = Len(Points) /\ Len(b) \in Nat
  BY BytesOfText, LenProperties
<1>2. \A i \in 1..n : b[i] \in Seq(Nat) /\ b[i] = All[i].bytes
  <2>1. \A i \in 1..n : i \in 1..Len(b) /\ i \in 1..Len(Points)
    BY <1>1
  <2>2. DOMAIN All = 1..Len(Points)
    BY CharsOfText
  <2>3. \A i \in 1..n : b[i] = All[i].bytes
    BY <2>1, <2>2 DEF CharBytes
  <2> HIDE DEF b
  <2> QED BY <2>1, <2>3, <1>1, ElementOfSeq
<1> HIDE DEF b
<1>3. s \in Seq(Seq(Nat)) /\ Len(s) = n /\ \A i \in 1..n : s[i] = b[i]
  <2>1. /\ s \in Seq(Seq(Nat)) /\ Len(s) = n - 1 + 1
        /\ \A i \in 1..n - 1 + 1 : s[i] = b[1 + i - 1]
    BY <1>1, <1>2, SubSeqProperties
  <2>2. n - 1 + 1 = n /\ \A i \in Int : 1 + i - 1 = i
    BY <1>1
  <2> QED BY <2>1, <2>2
<1>4. f \in [1..n -> Seq(Nat)]
  BY <1>2
<1>5. f \in Seq(Seq(Nat)) /\ Len(f) = n
  BY <1>1, <1>4, FunctionIsSeq
<1>6. \A i \in 1..n : f[i] = s[i]
  BY <1>2, <1>3
<1> HIDE DEF f, s
<1>7. f = s
  BY <1>3, <1>5, <1>6, SeqEqual
<1>8. (n + 1) - 1 = n
  BY <1>1
<1> QED BY <1>7, <1>8 DEF BytesBefore, f, s, b

\* So many characters have been read, each from where it begins.
ReadSoFar(n) ==
    /\ codePoints = SubSeq(Points, 1, n)
    /\ offsets = [i \in 1..n |-> BytesBefore(All, i)]
    /\ current = BytesBefore(All, n + 1)

ReadByCharacters ==
    origin.wellFormed /\ origin.form = "utf8" /\ recodings = 0 =>
        /\ source = origin.source /\ reading \in {"run", "end"}
        /\ \E n \in 0..Len(Points) : ReadSoFar(n) /\ (reading = "end" => n = Len(Points))

LEMMA ReadByCharactersStarts ==
    ASSUME origin \in Texts, ReadingStarts(origin.form, origin.source)
    PROVE  ReadByCharacters
<1> SUFFICES ASSUME origin.wellFormed, origin.form = "utf8"
             PROVE  \E n \in 0..Len(Points) : ReadSoFar(n) /\ reading # "end"
  BY DEF ReadByCharacters, ReadingStarts
<1>1. Points \in Seq(Nat) /\ Len(Points) \in Nat
  BY CharsOfText
<1>2. codePoints = <<>> /\ offsets = <<>> /\ current = 0 /\ reading = "run"
  BY DEF ReadingStarts
<1>3. 0 \in 0..Len(Points)
  BY <1>1
<1>4. SubSeq(Points, 1, 0) = <<>>
  BY <1>1, NothingRead
<1>5. [i \in 1..0 |-> BytesBefore(All, i)] = <<>>
  OBVIOUS
<1>6. BytesBefore(All, 0 + 1) = 0
  <2>1. BytesBefore(All, 0 + 1) = Len(FlattenSeq(SubSeq(CharBytes, 1, 0)))
    BY <1>3, BytesBeforeIsLength
  <2>2. SubSeq(CharBytes, 1, 0) = <<>>
    BY BytesOfText, SubSeqEmpty
  <2>3. Len(<<>>) = 0
    BY EmptySeq
  <2> QED BY <2>1, <2>2, <2>3, FlattenEmpty
<1> QED BY <1>2, <1>3, <1>4, <1>5, <1>6 DEF ReadSoFar

\* A step of the reading of a well-formed text in UTF-8 reads its next character.
LEMMA ReadOneCharacter ==
    ASSUME ReadInv, origin \in Texts \cup {NoText}, recodings = 0 => form = origin.form,
           ReadByCharacters, Read, UNCHANGED <<origin, recodings>>
    PROVE  ReadByCharacters'
<1> SUFFICES ASSUME origin.wellFormed, origin.form = "utf8", recodings = 0
             PROVE  /\ source' = origin.source /\ reading' \in {"run", "end"}
                    /\ \E n \in 0..Len(Points) :
                          /\ codePoints' = SubSeq(Points, 1, n)
                          /\ offsets' = [i \in 1..n |-> BytesBefore(All, i)]
                          /\ current' = BytesBefore(All, n + 1)
                          /\ reading' = "end" => n = Len(Points)
  BY DEF ReadByCharacters, ReadSoFar, Points, All
<1>1. /\ Points \in Seq(Nat) /\ Len(Points) \in Nat
      /\ \A i \in 1..Len(Points) : Points[i] \in Nat
  BY CharsOfText
<1>2. /\ CharBytes \in Seq(Seq(Nat)) /\ Len(CharBytes) = Len(Points)
      /\ \A i \in 1..Len(Points) : CharBytes[i] = InUtf8(Points[i]) /\ Points[i] < ScalarLimit
      /\ source = FlattenSeq(CharBytes)
  BY BytesOfText DEF ReadByCharacters
<1>3. PICK n \in 0..Len(Points) : ReadSoFar(n)
  BY DEF ReadByCharacters
<1>4. /\ reading = "run" /\ form = "utf8" /\ current \in Nat /\ Len(source) \in Nat
      /\ source \in Seq(Nat) /\ source = origin.source
  BY LenProperties DEF Read, ReadAscii, ReadMultibyte, ReadIncomplete, ReadStray, ReadUnit,
     ReadPair, ReadLoneSurrogate, ReadEnd, More, ReadInv, ReadTypes, ReadByCharacters
<1>5. BytesBefore(All, n + 1) = Len(FlattenSeq(SubSeq(CharBytes, 1, n)))
  BY BytesBeforeIsLength
<1>6. CASE n = Len(Points)
  <2>1. SubSeq(CharBytes, 1, n) = CharBytes
    BY <1>2, <1>6, SubSeqFull
  <2>2. current = Len(source)
    BY <1>2, <1>3, <1>5, <2>1 DEF ReadSoFar
  <2>3. ReadEnd
    BY <2>2, <1>4 DEF More, Read, ReadAscii, ReadMultibyte, ReadIncomplete, ReadStray, ReadUnit,
       ReadPair, ReadLoneSurrogate
  <2> QED BY <2>3, <1>3, <1>4, <1>6 DEF ReadEnd, ReadSoFar
<1>7. CASE n < Len(Points)
  <2> DEFINE c == Points[n + 1]
             char == CharBytes[n + 1]
             before == FlattenSeq(SubSeq(CharBytes, 1, n))
  <2>1. n \in Nat /\ n + 1 \in 1..Len(Points) /\ n + 1 \in 0..Len(Points) /\ n \in 0..Len(CharBytes) - 1
    BY <1>1, <1>2, <1>7
  <2>2. c \in Nat /\ c < ScalarLimit /\ char = InUtf8(c)
    BY <1>1, <1>2, <2>1
  <2>3. /\ FlattenSeq(SubSeq(CharBytes, 1, n + 1)) = before \o char
        /\ before \in Seq(Nat) /\ char \in Seq(Nat)
        /\ \E rest \in Seq(Nat) : source = (before \o char) \o rest
    BY <1>2, <2>1, FlattenNext
  <2>4. current = Len(before) /\ codePoints = SubSeq(Points, 1, n)
        /\ offsets = [i \in 1..n |-> BytesBefore(All, i)]
        /\ current = BytesBefore(All, n + 1)
    BY <1>3, <1>5 DEF ReadSoFar
  <2>5. BytesBefore(All, (n + 1) + 1) = Len(FlattenSeq(SubSeq(CharBytes, 1, n + 1)))
    BY <2>1, BytesBeforeIsLength
  <2> HIDE DEF c, char, before
  <2>6. Ahead(InUtf8(c))
    BY <2>2, <2>3, <2>4, CharIsAhead
  <2>7. DecodedHere(c, Len(InUtf8(c)))
    BY <1>4, <2>2, <2>6, DecodeUtf8
  <2>8. codePoints' = SubSeq(Points, 1, n + 1)
    <3>1. /\ SubSeq(Points, 1, n + 1) = SubSeq(Points, 1, (n + 1) - 1) \o <<Points[n + 1]>>
          /\ (n + 1) - 1 = n
      BY <1>1, <2>1, SubSeqRecursiveSecond
    <3> QED BY <3>1, <2>7, <2>4 DEF Decoded, DecodedHere, c
  <2>9. current' = BytesBefore(All, (n + 1) + 1)
    <3>1. Len(before \o char) = Len(before) + Len(char)
      BY <2>3, ConcatProperties
    <3> QED BY <3>1, <2>2, <2>3, <2>4, <2>5, <2>7 DEF Decoded, DecodedHere
  <2>10. offsets' = [i \in 1..n + 1 |-> BytesBefore(All, i)]
    <3> DEFINE old == [i \in 1..n |-> BytesBefore(All, i)]
               new == [i \in 1..n + 1 |-> BytesBefore(All, i)]
               at == BytesBefore(All, n + 1)
               S == {BytesBefore(All, i) : i \in 1..n + 1}
    <3>1. old \in Seq(S) /\ Len(old) = n
      <4>1. old \in [1..n -> S]
        BY <2>1
      <4> HIDE DEF old, S
      <4> QED BY <4>1, <2>1, FunctionIsSeq
    <3>2. new \in Seq(S) /\ Len(new) = n + 1
      <4>1. new \in [1..n + 1 -> S] /\ n + 1 \in Nat
        BY <2>1
      <4> HIDE DEF new, S
      <4> QED BY <4>1, FunctionIsSeq
    <3>3. at \in S
      BY <2>1
    <3>4. /\ \A i \in 1..n : old[i] = new[i]
          /\ new[n + 1] = at
      BY <2>1
    <3>5. offsets' = old \o <<at>>
      BY <2>4, <2>7 DEF DecodedHere
    <3> HIDE DEF old, new, at, S
    <3>6. old \o <<at>> = Append(old, at)
      BY <3>1, <3>3, AppendIsConcat
    <3>7. /\ Append(old, at) \in Seq(S) /\ Len(Append(old, at)) = n + 1
          /\ \A i \in 1..n : Append(old, at)[i] = old[i]
          /\ Append(old, at)[n + 1] = at
      BY <3>1, <3>3, AppendProperties
    <3>8. \A i \in 1..n + 1 : Append(old, at)[i] = new[i]
      <4>1. \A i \in 1..n + 1 : i = n + 1 \/ i \in 1..n
        BY <2>1
      <4> QED BY <4>1, <3>4, <3>7
    <3>9. Append(old, at) = new
      BY <3>2, <3>7, <3>8, SeqEqual
    <3> QED BY <3>5, <3>6, <3>9 DEF new
  <2>11. source' = source /\ reading' = "run"
    BY <2>7, <1>4 DEF Decoded, DecodedHere
  <2> QED BY <2>1, <2>8, <2>9, <2>10, <2>11, <1>4
<1> QED BY <1>1, <1>6, <1>7

\* What split() has done so far with a well-formed text: what it has read, the break
\* properties of all its characters, and the graphemes once the segments are known.
SplitInv ==
    /\ origin \in Texts \cup {NoText} /\ recodings \in Nat
    /\ recodings = 0 => form = origin.form
    /\ ReadByCharacters
    /\ origin.wellFormed /\ segmenting # "idle" =>
          /\ reading = "end" /\ recodings = 0 /\ form = "utf8"
          /\ properties = [i \in DOMAIN codePoints |-> PropertyOf(codePoints[i]).break]
    /\ origin.wellFormed /\ graphemes # <<>> =>
          /\ segmenting = "end"
          /\ graphemes = Append([k \in 1..Len(segmentOffsets) - 1 |-> Grapheme(k)],
                                [offset |-> Len(source), width |-> 0])

LEMMA SplitBegins == Init => SplitInv
<1> SUFFICES ASSUME Init PROVE SplitInv
  OBVIOUS
<1>1. recodings = 0 /\ graphemes = <<>>
  BY DEF Init
<1>2. CASE origin \in Texts /\ ReadingStarts(origin.form, origin.source) /\ NoSegments
  <2>1. ReadByCharacters
    BY <1>2, ReadByCharactersStarts
  <2>2. form = origin.form /\ segmenting = "idle"
    BY <1>2 DEF ReadingStarts, NoSegments
  <2> QED BY <1>1, <1>2, <2>1, <2>2 DEF SplitInv
<1>3. CASE origin = NoText /\ Nothing
  <2>1. ~origin.wellFormed /\ form = origin.form
    BY <1>3 DEF NoText, Nothing
  <2> QED BY <1>1, <1>3, <2>1 DEF SplitInv, ReadByCharacters
<1> QED BY <1>2, <1>3 DEF Init

LEMMA SplitStays ==
    SplitInv /\ UNCHANGED <<readVars, segmentVars, callVars>> => SplitInv'
<1> SUFFICES ASSUME SplitInv, UNCHANGED <<readVars, segmentVars, callVars>> PROVE SplitInv'
  OBVIOUS
<1>1. /\ UNCHANGED <<origin, recodings, language, graphemes, form, source, current, codePoints>>
      /\ UNCHANGED <<offsets, reading, properties, segmentOffsets, segmenting>>
  BY DEF readVars, segmentVars, callVars
<1>2. ReadByCharacters'
  BY <1>1 DEF SplitInv, ReadByCharacters, ReadSoFar, Points, All
<1>3. \A k : Grapheme(k)' = Grapheme(k)
  BY <1>1 DEF Grapheme, Width, WidthOf, IsEastAsian
<1>4. [k \in 1..Len(segmentOffsets) - 1 |-> Grapheme(k)]' = [k \in 1..Len(segmentOffsets) - 1 |-> Grapheme(k)]
  BY <1>1, <1>3
<1> QED BY <1>1, <1>2, <1>4 DEF SplitInv

LEMMA SplitStep == IInv /\ SplitInv /\ [Next]_vars => SplitInv'
<1> SUFFICES ASSUME IInv, SplitInv, [Next]_vars PROVE SplitInv'
  OBVIOUS
<1>1. CASE Read /\ UNCHANGED <<segmentVars, convertVars, callVars>>
  <2>1. UNCHANGED <<origin, recodings, graphemes, segmenting>>
    BY <1>1 DEF callVars, segmentVars
  <2>2. form' = form /\ reading = "run"
    BY <1>1 DEF Read, ReadAscii, ReadMultibyte, ReadIncomplete, ReadStray, ReadUnit, ReadPair,
       ReadLoneSurrogate, ReadEnd, More, Push
  <2>3. ReadByCharacters'
    BY <1>1, <2>1, ReadOneCharacter DEF IInv, SplitInv
  <2>4. origin.wellFormed => segmenting = "idle" /\ graphemes = <<>>
    BY <2>2 DEF SplitInv
  <2> QED BY <2>1, <2>2, <2>3, <2>4 DEF SplitInv
<1>2. CASE SplitRead
  <2>1. UNCHANGED <<origin, recodings, graphemes, form, source, current, codePoints, offsets, reading>>
        /\ reading = "end" /\ form = "utf8" /\ segmenting = "idle" /\ recodings = 0
    BY <1>2 DEF SplitRead, readVars
  <2>2. properties' = [i \in DOMAIN codePoints |-> PropertyOf(codePoints[i]).break]
    BY <1>2 DEF SplitRead, StartSegmenting
  <2>3. ReadByCharacters'
    BY <2>1 DEF SplitInv, ReadByCharacters, ReadSoFar, Points, All
  <2>4. origin.wellFormed => graphemes = <<>>
    BY <2>1 DEF SplitInv
  <2> QED BY <2>1, <2>2, <2>3, <2>4 DEF SplitInv
<1>3. CASE Segment /\ UNCHANGED <<readVars, convertVars, callVars>>
  <2>1. UNCHANGED <<origin, recodings, graphemes, form, source, current, codePoints, offsets, reading>>
    BY <1>3 DEF callVars, readVars
  <2>2. properties' = properties /\ segmenting = "run"
    BY <1>3 DEF Segment, Connect, Break, SegmentEnd, InLoop
  <2>3. ReadByCharacters'
    BY <2>1 DEF SplitInv, ReadByCharacters, ReadSoFar, Points, All
  <2>4. origin.wellFormed => graphemes = <<>>
    BY <2>2 DEF SplitInv
  <2> QED BY <2>1, <2>2, <2>3, <2>4 DEF SplitInv
<1>4. CASE Collect
  <2>1. /\ UNCHANGED <<origin, recodings, language, form, source, current, codePoints, offsets>>
        /\ UNCHANGED <<reading, properties, segmentOffsets, segmenting>>
        /\ segmenting = "end"
        /\ graphemes' = Append([k \in 1..Len(segmentOffsets) - 1 |-> Grapheme(k)],
                               [offset |-> Len(source), width |-> 0])
    BY <1>4 DEF Collect, readVars, segmentVars
  <2>2. ReadByCharacters'
    BY <2>1 DEF SplitInv, ReadByCharacters, ReadSoFar, Points, All
  <2>3. \A k : Grapheme(k)' = Grapheme(k)
    BY <2>1 DEF Grapheme, Width, WidthOf, IsEastAsian
  <2>4. [k \in 1..Len(segmentOffsets) - 1 |-> Grapheme(k)]'
          = [k \in 1..Len(segmentOffsets) - 1 |-> Grapheme(k)]
    BY <2>1, <2>3
  <2> QED BY <2>1, <2>2, <2>4 DEF SplitInv
<1>5. CASE Recode
  <2>1. UNCHANGED <<origin, graphemes, segmenting>> /\ segmenting = "idle" /\ recodings' = recodings + 1
    BY <1>5 DEF Recode, segmentVars
  <2>2. recodings' \in Nat /\ recodings' # 0
    BY <2>1 DEF SplitInv
  <2>3. ReadByCharacters'
    BY <2>2 DEF ReadByCharacters
  <2>4. origin.wellFormed => graphemes = <<>>
    BY <2>1 DEF SplitInv
  <2> QED BY <2>1, <2>2, <2>3, <2>4 DEF SplitInv
<1>6. CASE UNCHANGED <<readVars, segmentVars, callVars>>
  BY <1>6, SplitStays
<1> QED BY <1>1, <1>2, <1>3, <1>4, <1>5, <1>6 DEF Next, vars

\* The map has the properties and widths of the characters.
LEMMA MapFollows ==
    ASSUME MapFollowsStandard, origin \in Texts \cup {NoText}, origin.wellFormed,
           NEW i \in DOMAIN All
    PROVE  /\ PropertyOf(All[i].scalar).break = All[i].break
           /\ DefaultWidth(PropertyOf(All[i].scalar)) = All[i].narrow
           /\ EastAsianWidth(PropertyOf(All[i].scalar)) = All[i].wide
<1>1. origin \in Texts /\ All[i].scalar \in Nat
  BY CharsOfText
<1>2. PICK k \in DOMAIN PropertyMap :
          /\ PropertyMap[k].codePoint <= All[i].scalar
          /\ k < Len(PropertyMap) => All[i].scalar < PropertyMap[k + 1].codePoint
          /\ PropertyMap[k].break = All[i].break
          /\ DefaultWidth(PropertyMap[k]) = All[i].narrow
          /\ EastAsianWidth(PropertyMap[k]) = All[i].wide
  BY <1>1 DEF MapFollowsStandard, All
<1>3. PropertyOf(All[i].scalar) = PropertyMap[k]
  BY <1>1, <1>2, PropertyFound
<1> QED BY <1>2, <1>3

\* The graphemes that have been collected are those of the standard.
LEMMA SplitSuffices ==
    ASSUME MapFollowsStandard, IInv, SplitInv
    PROVE  SplitsAsTheStandard
<1> SUFFICES ASSUME graphemes # <<>>, origin.wellFormed PROVE SplitsAsTheStandard
  BY DEF SplitsAsTheStandard
<1> DEFINE breaks == [i \in DOMAIN All |-> All[i].break]
           starts == {i \in DOMAIN All : i = 1 \/ ~StaysTogether(breaks, i - 1)}
           width(i) == IF language \in {"ja", "ko", "zh"} THEN All[i].wide ELSE All[i].narrow
           widest(i) == CHOOSE w \in 1..2 :
                            LET rest == {j \in DOMAIN All :
                                            j >= i /\ \A k \in starts : k > i => j < k}
                            IN  (\E j \in rest : width(j) = w) /\ \A j \in rest : width(j) <= w
           n == Len(Points)
           end == [offset |-> Len(source), width |-> 0]
<1>1. /\ segmenting = "end" /\ reading = "end" /\ recodings = 0
      /\ form = "utf8" /\ origin.form = "utf8" /\ source = origin.source
      /\ origin \in Texts \cup {NoText}
      /\ properties = [i \in DOMAIN codePoints |-> PropertyOf(codePoints[i]).break]
      /\ graphemes = Append([k \in 1..Len(segmentOffsets) - 1 |-> Grapheme(k)], end)
  BY DEF SplitInv, ReadByCharacters
<1>2. /\ Points \in Seq(Nat) /\ n \in Nat /\ DOMAIN All = 1..n
      /\ \A i \in 1..n : Points[i] = All[i].scalar /\ Points[i] \in Nat
  BY <1>1, CharsOfText
<1>3. codePoints = Points /\ offsets = [i \in 1..n |-> BytesBefore(All, i)]
  <2>1. ReadSoFar(n)
    BY <1>1 DEF SplitInv, ReadByCharacters
  <2>2. SubSeq(Points, 1, n) = Points
    BY <1>2, SubSeqFull
  <2> QED BY <2>1, <2>2 DEF ReadSoFar
<1>4. \A i \in 1..n : /\ PropertyOf(codePoints[i]).break = All[i].break
                      /\ DefaultWidth(PropertyOf(codePoints[i])) = All[i].narrow
                      /\ EastAsianWidth(PropertyOf(codePoints[i])) = All[i].wide
  BY <1>1, <1>2, <1>3, MapFollows
<1>5. properties = breaks
  <2>1. DOMAIN codePoints = 1..n
    BY <1>2, <1>3, LenProperties
  <2> QED BY <1>1, <1>2, <1>4, <2>1
<1>6. DOMAIN breaks = DOMAIN All
  OBVIOUS
<1> HIDE DEF breaks, n
<1>7. Starts(breaks) = starts
  BY <1>6 DEF Starts
<1>8. PICK m : OffsetsAreStarts(segmentOffsets, breaks, m)
  <2>1. breaks \in Seq(BreakProperty) /\ segmentOffsets \in Seq(Nat)
    BY <1>5 DEF IInv, SegmentInv
  <2>2. (breaks = <<>> /\ segmentOffsets = <<>>) \/ OffsetsUpTo(Len(breaks), segmentOffsets, breaks)
    BY <1>1, <1>5 DEF IInv, SegmentInv
  <2> QED BY <2>1, <2>2, SegmentsOfAny
<1>9. \A i \in 1..n : WidthOf(codePoints[i]) = width(i) /\ width(i) \in 1..2
  BY <1>4 DEF WidthOf, IsEastAsian, DefaultWidth, EastAsianWidth
<1>10. Len(breaks) = n
  <2>1. breaks \in Seq(BreakProperty)
    BY <1>5 DEF IInv, SegmentInv
  <2>2. Len(breaks) \in Nat /\ DOMAIN breaks = 1..Len(breaks)
    BY <2>1, LenProperties
  <2>3. \A a, b \in Nat : 1..a = 1..b => a = b
    OBVIOUS
  <2>4. 1..Len(breaks) = 1..n
    BY <2>2, <1>2, <1>6
  <2> QED BY <2>2, <2>3, <2>4, <1>2
<1>11. ASSUME NEW k \in 1..m
       PROVE  Grapheme(k) = [offset |-> BytesBefore(All, segmentOffsets[k] + 1),
                             width |-> widest(segmentOffsets[k] + 1)]
  <2> DEFINE first == segmentOffsets[k] + 1
             last == segmentOffsets[k + 1]
             here == {WidthOf(codePoints[j]) : j \in first..last}
  <2>1. /\ segmentOffsets[k] \in Nat /\ last \in first..n
        /\ From(breaks, first) = first..last
    BY <1>8, <1>10 DEF OffsetsAreStarts
  <2>2. first \in 1..n /\ (\A j \in first..last : j \in 1..n) /\ first \in first..last
    BY <2>1, <1>2
  <2>3. offsets[first] = BytesBefore(All, first)
    BY <2>2, <1>3
  <2>4. {j \in DOMAIN All : j >= first /\ \A s \in starts : s > first => j < s} = first..last
    BY <2>1, <1>6, <1>7 DEF From
  <2> HIDE DEF first, last
  <2>5. here \subseteq 1..2 /\ here # {}
    BY <2>2, <1>9
  <2>6. PICK w \in here : /\ \A v \in here : v <= w
                          /\ \A x \in here : (\A v \in here : v <= x) => x = w
    BY <2>5, OneWidest
  <2>7. Width(k) = w
    <3>1. Width(k) = CHOOSE x \in here : \A v \in here : v <= x
      BY DEF Width, first, last
    <3> HIDE DEF here
    <3> QED BY <3>1, <2>6
  <2>8. widest(first) = w
    <3> DEFINE fits(x) == (\E j \in first..last : width(j) = x) /\ \A j \in first..last : width(j) <= x
    <3>1. \A x \in 1..2 : fits(x) <=> x \in here /\ \A v \in here : v <= x
      BY <2>2, <1>9
    <3>2. fits(w) /\ w \in 1..2 /\ \A x \in 1..2 : fits(x) => x = w
      BY <3>1, <2>5, <2>6
    <3>3. widest(first) = CHOOSE x \in 1..2 : fits(x)
      BY <2>4
    <3> HIDE DEF fits, widest
    <3> QED BY <3>2, <3>3
  <2> QED BY <2>3, <2>7, <2>8 DEF Grapheme, first
<1> DEFINE g == [k \in 1..m |-> Grapheme(k)]
           S == {Grapheme(k) : k \in 1..m} \cup {end}
<1>12. /\ Len(graphemes) = m + 1 /\ m \in Nat
       /\ \A k \in 1..m : graphemes[k] = Grapheme(k)
       /\ graphemes[m + 1] = end
  <2>1. m \in Nat /\ graphemes = Append(g, end)
    BY <1>1, <1>8 DEF OffsetsAreStarts
  <2>2. g \in [1..m -> S] /\ end \in S /\ \A k \in 1..m : g[k] = Grapheme(k)
    OBVIOUS
  <2> HIDE DEF g, S, end
  <2>3. g \in Seq(S) /\ Len(g) = m
    BY <2>1, <2>2, FunctionIsSeq
  <2> QED BY <2>1, <2>2, <2>3, AppendProperties
<1>13. Len(graphemes) = Cardinality(starts) + 1
  BY <1>7, <1>8, <1>12 DEF OffsetsAreStarts
<1>14. Last(graphemes) = [offset |-> Len(origin.source), width |-> 0]
  BY <1>1, <1>12 DEF Last
<1> HIDE DEF widest
<1>15. {graphemes[k] : k \in 1..Len(graphemes) - 1}
         = {[offset |-> BytesBefore(All, i), width |-> widest(i)] : i \in starts}
  <2>1. 1..Len(graphemes) - 1 = 1..m
    BY <1>12
  <2>2. \A k \in 1..m : /\ segmentOffsets[k] + 1 \in starts
                        /\ graphemes[k] = [offset |-> BytesBefore(All, segmentOffsets[k] + 1),
                                           width |-> widest(segmentOffsets[k] + 1)]
    BY <1>7, <1>8, <1>11, <1>12 DEF OffsetsAreStarts
  <2>3. \A i \in starts : \E k \in 1..m : i = segmentOffsets[k] + 1
    BY <1>7, <1>8 DEF OffsetsAreStarts
  <2> HIDE DEF starts
  <2> QED BY <2>1, <2>2, <2>3
<1> QED BY <1>13, <1>14, <1>15 DEF SplitsAsTheStandard, All, widest, breaks

-----------------------------------------------------------------------------
(* Converting to and from CP932                                            *)

Output == {"A", "L", "T", "?"}

LEMMA OutputTexts ==
    /\ \A x \in Output : <<x>> \in Seq(Output)
    /\ "A" \in Output /\ "L" \in Output /\ "T" \in Output /\ "?" \in Output
    /\ <<"L", "T">> \in Seq(Output) /\ <<"L", "T">> = <<"L">> \o <<"T">>
<1>1. \A S : \A x, y \in S : <<x>> \in Seq(S) /\ <<x, y>> \in Seq(S)
  OBVIOUS
<1>2. "A" \in Output /\ "L" \in Output /\ "T" \in Output /\ "?" \in Output
  BY DEF Output
<1>3. <<"L", "T">> = <<"L">> \o <<"T">>
  <2> DEFINE l == <<"L">>  t == <<"T">>  lt == <<"L", "T">>
  <2>1. Len(l) = 1 /\ Len(t) = 1 /\ Len(lt) = 2 /\ l[1] = "L" /\ t[1] = "T" /\ lt[1] = "L" /\ lt[2] = "T"
    OBVIOUS
  <2>2. l \in Seq(Output) /\ t \in Seq(Output) /\ lt \in Seq(Output)
    BY <1>1, <1>2
  <2> HIDE DEF l, t, lt
  <2>3. l \o t \in Seq(Output) /\ IsJoin(l \o t, l, t)
    BY <2>2, JoinProperties, ConcatProperties
  <2>4. Len(l \o t) = 2 /\ (l \o t)[1] = "L" /\ (l \o t)[1 + 1] = "T"
    BY <2>1, <2>3 DEF IsJoin
  <2>5. \A i \in 1..2 : (l \o t)[i] = lt[i]
    <3>1. \A i \in 1..2 : i = 1 \/ i = 2
      OBVIOUS
    <3> QED BY <3>1, <2>1, <2>4
  <2>6. lt = l \o t
    BY <2>1, <2>2, <2>3, <2>4, <2>5, SeqEqual
  <2> QED BY <2>6 DEF l, t, lt
<1> QED BY <1>1, <1>2, <1>3

\* What becomes of the byte at a place.
OutOf(i) ==
    IF input[i] = "a" THEN <<"A">>
    ELSE IF i < Len(input) /\ input[i] = "l" /\ input[i + 1] = "t" THEN <<"L">>
    ELSE IF i > 1 /\ input[i] = "t" /\ input[i - 1] = "l" THEN <<"T">>
    ELSE <<"?">>

Outputs(n) == [i \in 1..n |-> OutOf(i)]

\* Between two places no character of two bytes is cut.
IsCutAt(n) == n \in 1..Len(input) - 1 /\ input[n] = "l" /\ input[n + 1] = "t"

LEMMA ExpectedIsFlat == ASSUME NEW n PROVE Expected(n) = FlattenSeq(Outputs(n))
BY DEF Expected, Outputs, OutOf

LEMMA OutputsType ==
    ASSUME NEW n \in Nat
    PROVE  /\ Outputs(n) \in Seq(Seq(Output)) /\ Len(Outputs(n)) = n
           /\ \A i \in 1..n : Outputs(n)[i] = OutOf(i) /\ OutOf(i) \in Seq(Output)
<1>1. \A i \in 1..n : OutOf(i) \in Seq(Output)
  BY OutputTexts DEF OutOf
<1>2. Outputs(n) \in [1..n -> Seq(Output)]
  BY <1>1 DEF Outputs
<1>3. Outputs(n) \in Seq(Seq(Output)) /\ Len(Outputs(n)) = n
  BY <1>2, FunctionIsSeq
<1> QED BY <1>1, <1>3 DEF Outputs

\* One more byte has its output behind the others.
LEMMA ExpectedNext ==
    ASSUME NEW n \in Nat
    PROVE  /\ Expected(n + 1) = Expected(n) \o OutOf(n + 1)
           /\ Expected(n) \in Seq(Output) /\ OutOf(n + 1) \in Seq(Output)
<1>1. /\ Outputs(n) \in Seq(Seq(Output)) /\ Len(Outputs(n)) = n
      /\ \A i \in 1..n : Outputs(n)[i] = OutOf(i)
  BY OutputsType
<1>2. /\ Outputs(n + 1) \in Seq(Seq(Output)) /\ Len(Outputs(n + 1)) = n + 1
      /\ \A i \in 1..n + 1 : Outputs(n + 1)[i] = OutOf(i) /\ OutOf(i) \in Seq(Output)
  BY OutputsType
<1>3. n + 1 \in 1..n + 1 /\ OutOf(n + 1) \in Seq(Output)
  BY <1>2
<1> DEFINE out == OutOf(n + 1)
<1> HIDE DEF out
<1>4. Outputs(n + 1) = Append(Outputs(n), out)
  <2>1. out \in Seq(Output)
    BY <1>3 DEF out
  <2>2. /\ Append(Outputs(n), out) \in Seq(Seq(Output)) /\ Len(Append(Outputs(n), out)) = n + 1
        /\ \A i \in 1..n : Append(Outputs(n), out)[i] = OutOf(i)
        /\ Append(Outputs(n), out)[n + 1] = out
    BY <1>1, <2>1, AppendProperties
  <2>3. \A i \in 1..n + 1 : Append(Outputs(n), out)[i] = Outputs(n + 1)[i]
    BY <1>2, <2>2 DEF out
  <2> QED BY <1>2, <2>2, <2>3, SeqEqual
<1>5. FlattenSeq(Append(Outputs(n), out)) = FlattenSeq(Outputs(n)) \o out
  BY <1>1, <1>3, FlattenAppend DEF out
<1>6. FlattenSeq(Outputs(n)) \in Seq(Output)
  BY <1>1, FlattenType
<1> QED BY <1>3, <1>4, <1>5, <1>6, ExpectedIsFlat DEF out

\* Where iconv() has come to, from one place of the input.
Reached(from, s) ==
    /\ s \in [at : from..Len(input), out : Seq(Output),
              why : {"going", "done", "E2BIG", "EILSEQ", "EINVAL"}]
    /\ ~IsCutAt(s.at)
    /\ Expected(s.at) = Expected(from) \o s.out
    /\ s.why = "EILSEQ" =>
          /\ s.at < Len(input) /\ input[s.at + 1] # "a"
          /\ ~(s.at + 1 < Len(input) /\ input[s.at + 1] = "l" /\ input[s.at + 2] = "t")

\* A turn of iconv() reads a character or stops.
LEMMA IconvTurn ==
    ASSUME input \in Seq(Byte), NEW from \in 0..Len(input), NEW s, Reached(from, s)
    PROVE  Reached(from, NextCharacter(s))
<1> DEFINE left == Len(input) - s.at
           byte == input[s.at + 1]
           pair == left >= 2 /\ byte = "l" /\ input[s.at + 2] = "t"
           fits(n) == Len(s.out) + n <= OutputBuffer
<1>1. /\ Len(input) \in Nat /\ s.at \in Nat /\ s.at <= Len(input) /\ from <= s.at /\ from \in Nat
      /\ s.out \in Seq(Output) /\ s = [at |-> s.at, out |-> s.out, why |-> s.why]
      /\ left \in Nat
  BY LenProperties DEF Reached
<1>2. Expected(from) \in Seq(Output) /\ Expected(s.at) \in Seq(Output)
  BY <1>1, ExpectedNext
<1>3. ~IsCutAt(s.at) /\ Expected(s.at) = Expected(from) \o s.out
  BY DEF Reached
<1>4. CASE s.why # "going"
  BY <1>4 DEF NextCharacter
<1>5. ASSUME NEW why \in {"done", "E2BIG", "EINVAL"}, NextCharacter(s) = [s EXCEPT !.why = why]
      PROVE  Reached(from, NextCharacter(s))
  <2>1. [s EXCEPT !.why = why] = [at |-> s.at, out |-> s.out, why |-> why]
    BY <1>1
  <2> QED BY <1>1, <1>3, <1>5, <2>1 DEF Reached
<1>6. CASE s.why = "going" /\ left = 0
  <2>1. NextCharacter(s) = [s EXCEPT !.why = "done"]
    BY <1>6 DEF NextCharacter
  <2> QED BY <2>1, <1>5
<1>7. CASE s.why = "going" /\ left # 0 /\ byte = "a" /\ fits(1)
  <2>1. NextCharacter(s) = [s EXCEPT !.at = @ + 1, !.out = @ \o <<"A">>]
    BY <1>7 DEF NextCharacter
  <2>2. NextCharacter(s) = [at |-> s.at + 1, out |-> s.out \o <<"A">>, why |-> "going"]
    BY <2>1, <1>1, <1>7
  <2>3. OutOf(s.at + 1) = <<"A">>
    BY <1>7 DEF OutOf
  <2>4. Expected(s.at + 1) = (Expected(from) \o s.out) \o <<"A">>
    BY <2>3, <1>1, <1>3, ExpectedNext
  <2>5. Expected(s.at + 1) = Expected(from) \o (s.out \o <<"A">>)
    <3>1. Regrouped(Expected(from), s.out, <<"A">>)
      BY <1>1, <1>2, OutputTexts, Regrouping, Zenon
    <3> QED BY <3>1, <2>4 DEF Regrouped
  <2>6. ~IsCutAt(s.at + 1)
    BY <1>7 DEF IsCutAt
  <2>7. s.out \o <<"A">> \in Seq(Output) /\ s.at + 1 \in from..Len(input)
    <3>1. s.out \o <<"A">> \in Seq(Output)
      BY <1>1, OutputTexts, ConcatProperties
    <3> QED BY <3>1, <1>1, <1>7
  <2> QED BY <2>2, <2>5, <2>6, <2>7 DEF Reached
<1>8. CASE s.why = "going" /\ left # 0 /\ byte = "a" /\ ~fits(1)
  <2>1. NextCharacter(s) = [s EXCEPT !.why = "E2BIG"]
    BY <1>8 DEF NextCharacter
  <2> QED BY <2>1, <1>5
<1>9. CASE s.why = "going" /\ left # 0 /\ byte # "a" /\ pair /\ fits(2)
  <2>1. NextCharacter(s) = [s EXCEPT !.at = @ + 2, !.out = @ \o <<"L", "T">>]
    BY <1>9 DEF NextCharacter
  <2>2. NextCharacter(s) = [at |-> s.at + 2, out |-> s.out \o <<"L", "T">>, why |-> "going"]
    BY <2>1, <1>1, <1>9
  <2>3. OutOf(s.at + 1) = <<"L">>
    <3>1. s.at + 1 < Len(input) /\ (s.at + 1) + 1 = s.at + 2 /\ input[s.at + 1] = "l"
      BY <1>1, <1>9
    <3> QED BY <3>1, <1>9 DEF OutOf
  <2>4. OutOf((s.at + 1) + 1) = <<"T">>
    <3> DEFINE i == s.at + 2
    <3>1. (s.at + 1) + 1 = i /\ i > 1 /\ i - 1 = s.at + 1
      BY <1>1
    <3>2. input[i] = "t" /\ input[i - 1] = "l"
      BY <3>1, <1>9
    <3> HIDE DEF i
    <3> QED BY <3>1, <3>2 DEF OutOf
  <2>5. Expected((s.at + 1) + 1) = ((Expected(from) \o s.out) \o <<"L">>) \o <<"T">>
    <3>1. Expected(s.at + 1) = (Expected(from) \o s.out) \o <<"L">>
      BY <2>3, <1>1, <1>3, ExpectedNext
    <3>2. s.at + 1 \in Nat
      BY <1>1
    <3> QED BY <3>1, <3>2, <2>4, ExpectedNext
  <2>6. Expected(s.at + 2) = Expected(from) \o (s.out \o <<"L", "T">>)
    <3>1. (s.at + 1) + 1 = s.at + 2 /\ <<"L", "T">> = <<"L">> \o <<"T">>
          /\ <<"L">> \in Seq(Output) /\ <<"T">> \in Seq(Output)
      BY <1>1, OutputTexts
    <3>2. Expected(from) \o s.out \in Seq(Output)
      BY <1>2, <1>3
    <3>3. Expected(s.at + 2) = (Expected(from) \o s.out) \o (<<"L">> \o <<"T">>)
      <4>1. Regrouped(Expected(from) \o s.out, <<"L">>, <<"T">>)
        BY <3>1, <3>2, Regrouping, Zenon
      <4> QED BY <3>1, <4>1, <2>5 DEF Regrouped
    <3>4. <<"L">> \o <<"T">> \in Seq(Output)
      BY <3>1, ConcatProperties
    <3>5. Expected(s.at + 2) = Expected(from) \o (s.out \o (<<"L">> \o <<"T">>))
      <4>1. Regrouped(Expected(from), s.out, <<"L">> \o <<"T">>)
        BY <3>4, <1>1, <1>2, Regrouping, Zenon
      <4> QED BY <3>3, <4>1 DEF Regrouped
    <3> QED BY <3>1, <3>5
  <2>7. ~IsCutAt(s.at + 2)
    BY <1>9 DEF IsCutAt
  <2>8. s.out \o <<"L", "T">> \in Seq(Output) /\ s.at + 2 \in from..Len(input)
    <3>1. s.out \o <<"L", "T">> \in Seq(Output)
      BY <1>1, OutputTexts, ConcatProperties
    <3> QED BY <3>1, <1>1, <1>9
  <2> QED BY <2>2, <2>6, <2>7, <2>8 DEF Reached
<1>10. CASE s.why = "going" /\ left # 0 /\ byte # "a" /\ pair /\ ~fits(2)
  <2>1. NextCharacter(s) = [s EXCEPT !.why = "E2BIG"]
    BY <1>10 DEF NextCharacter
  <2> QED BY <2>1, <1>5
<1>11. CASE s.why = "going" /\ left # 0 /\ byte # "a" /\ ~pair /\ byte \in {"l", "n"} /\ left = 1
  <2>1. NextCharacter(s) = [s EXCEPT !.why = "EINVAL"]
    BY <1>11 DEF NextCharacter
  <2> QED BY <2>1, <1>5
<1>12. CASE s.why = "going" /\ left # 0 /\ byte # "a" /\ ~pair /\ ~(byte \in {"l", "n"} /\ left = 1)
  <2>1. NextCharacter(s) = [s EXCEPT !.why = "EILSEQ"]
    BY <1>12 DEF NextCharacter
  <2>2. NextCharacter(s) = [at |-> s.at, out |-> s.out, why |-> "EILSEQ"]
    BY <2>1, <1>1
  <2>3. s.at < Len(input) /\ (s.at + 1 < Len(input) => left >= 2)
    BY <1>1, <1>12
  <2> QED BY <2>2, <2>3, <1>1, <1>3, <1>12 DEF Reached
<1> QED BY <1>4, <1>6, <1>7, <1>8, <1>9, <1>10, <1>11, <1>12

\* iconv() has turns, as many as there are numbers.
Turns(f, from) ==
    f = [n \in 0..Len(input) + 1 |-> IF n = 0 THEN Going(from) ELSE NextCharacter(f[n - 1])]

LEMMA TurnsExist ==
    ASSUME input \in Seq(Byte), NEW from
    PROVE  \E f : Turns(f, from)
<1> DEFINE Upto(f, n) == f = [k \in 0..n |-> IF k = 0 THEN Going(from) ELSE NextCharacter(f[k - 1])]
           T == {n \in Nat : \E f : Upto(f, n)}
<1>1. 0 \in T
  <2> DEFINE f == [k \in 0..0 |-> Going(from)]
  <2>1. Upto(f, 0)
    <3>1. \A k \in 0..0 : k = 0
      OBVIOUS
    <3>2. f = [k \in 0..0 |-> IF k = 0 THEN Going(from) ELSE NextCharacter(f[k - 1])]
      BY <3>1, Zenon
    <3> QED BY <3>2
  <2> QED BY <2>1
<1>2. ASSUME NEW n \in Nat, n \in T PROVE n + 1 \in T
  <2>1. PICK g : Upto(g, n)
    BY <1>2
  <2> DEFINE f == [k \in 0..n + 1 |-> IF k = n + 1 THEN NextCharacter(g[n]) ELSE g[k]]
             h == [k \in 0..n + 1 |-> IF k = 0 THEN Going(from) ELSE NextCharacter(f[k - 1])]
  <2>2. \A k \in 0..n : g[k] = IF k = 0 THEN Going(from) ELSE NextCharacter(g[k - 1])
    BY <2>1
  <2>3. ASSUME NEW k \in 0..n + 1 PROVE f[k] = IF k = 0 THEN Going(from) ELSE NextCharacter(f[k - 1])
    <3>1. CASE k = n + 1
      <4>1. f[k] = NextCharacter(g[n]) /\ k # 0 /\ k - 1 \in 0..n + 1 /\ k - 1 = n /\ n # n + 1
        BY <3>1
      <4>2. f[k - 1] = g[n]
        BY <4>1
      <4> QED BY <4>1, <4>2
    <3>2. CASE k # n + 1
      <4>1. k \in 0..n /\ f[k] = g[k]
        BY <3>2
      <4>2. k # 0 => k - 1 \in 0..n + 1 /\ k - 1 # n + 1
        BY <4>1
      <4>3. k # 0 => f[k - 1] = g[k - 1]
        BY <4>2
      <4> QED BY <4>1, <4>3, <2>2
    <3> QED BY <3>1, <3>2
  <2>4. f = h
    BY <2>3, Zenon
  <2>5. Upto(f, n + 1)
    BY <2>4
  <2> HIDE DEF Upto, f, h
  <2> QED BY <2>5
<1>3. Nat \subseteq T
  <2> HIDE DEF T
  <2> QED BY <1>1, <1>2, SetInduction
<1>4. Len(input) + 1 \in Nat
  BY LenProperties
<1>5. \E f : Upto(f, Len(input) + 1)
  BY <1>3, <1>4
<1> QED BY <1>5 DEF Turns

LEMMA IconvReaches ==
    ASSUME input \in Seq(Byte), NEW from \in 0..Len(input), ~IsCutAt(from)
    PROVE  Reached(from, Iconv(from))
<1> DEFINE f == CHOOSE f : Turns(f, from)
           l == Len(input) + 1
           T == {n \in Nat : n <= l => Reached(from, f[n])}
<1>1. Turns(f, from)
  BY TurnsExist
<1>2. Iconv(from) = f[l]
  BY DEF Iconv, Turns
<1> HIDE DEF f
<1>3. \A n \in 0..l : f[n] = IF n = 0 THEN Going(from) ELSE NextCharacter(f[n - 1])
  BY <1>1 DEF Turns
<1>4. l \in Nat /\ Len(input) \in Nat /\ from \in Nat
  BY LenProperties
<1>5. 0 \in T
  <2>1. f[0] = [at |-> from, out |-> <<>>, why |-> "going"]
    BY <1>3, <1>4 DEF Going
  <2>2. Expected(from) \in Seq(Output) /\ <<>> \in Seq(Output)
    BY <1>4, ExpectedNext, EmptySeq
  <2>3. Expected(from) \o <<>> = Expected(from)
    BY <2>2, ConcatEmptySeq
  <2>4. from \in from..Len(input)
    BY <1>4
  <2>5. Reached(from, f[0])
    BY <2>1, <2>2, <2>3, <2>4 DEF Reached
  <2> QED BY <2>5
<1>6. ASSUME NEW n \in Nat, n \in T PROVE n + 1 \in T
  <2> SUFFICES ASSUME n + 1 <= l PROVE Reached(from, f[n + 1])
    OBVIOUS
  <2>1. n <= l /\ n + 1 \in 0..l /\ n + 1 # 0 /\ (n + 1) - 1 = n
    BY <1>4
  <2>2. f[n + 1] = NextCharacter(f[n])
    BY <2>1, <1>3
  <2>3. Reached(from, f[n])
    BY <2>1, <1>6
  <2> QED BY <2>2, <2>3, IconvTurn
<1>7. l \in T
  <2> HIDE DEF T
  <2> QED BY <1>4, <1>5, <1>6, SetInduction
<1> QED BY <1>2, <1>4, <1>7

\* What has been converted is what iconv() would make of it, and no character is cut.
ConvertInv ==
    /\ input \in Seq(Byte) /\ consumed \in 0..Len(input) /\ ~IsCutAt(consumed)
    /\ encoded = Expected(consumed)

LEMMA NothingExpected == Expected(0) = <<>>
<1>1. Outputs(0) \in Seq(Seq(Output)) /\ Len(Outputs(0)) = 0
  BY OutputsType
<1>2. Outputs(0) = <<>>
  BY <1>1, EmptySeq
<1> QED BY <1>2, FlattenEmpty, ExpectedIsFlat

LEMMA ConvertBegins == Init => ConvertInv
<1> SUFFICES ASSUME Init PROVE ConvertInv
  OBVIOUS
<1>1. input \in Seq(Byte) /\ consumed = 0 /\ encoded = <<>>
  <2>1. CASE NoConversion
    BY <2>1, EmptySeq DEF NoConversion
  <2>2. CASE \E bytes \in Bytes : ConversionStarts(bytes)
    BY <2>2, BytesAssumption DEF ConversionStarts
  <2> QED BY <2>1, <2>2 DEF Init
<1>2. 0 \in 0..Len(input) /\ ~IsCutAt(0)
  BY <1>1, LenProperties DEF IsCutAt
<1> QED BY <1>1, <1>2, NothingExpected DEF ConvertInv

LEMMA ConvertStays == ConvertInv /\ UNCHANGED convertVars => ConvertInv'
BY DEF ConvertInv, convertVars, Expected, IsCutAt

LEMMA ConvertStep == ConvertInv /\ Convert => ConvertInv'
<1> SUFFICES ASSUME ConvertInv, Convert PROVE ConvertInv'
  OBVIOUS
<1>1. PICK done : done = Iconv(consumed)
  OBVIOUS
<1>2. /\ encoded' = encoded \o done.out \o (IF done.why = "EILSEQ" THEN <<"?">> ELSE <<>>)
      /\ consumed' = IF done.why = "EILSEQ" THEN done.at + 1 ELSE done.at
      /\ input' = input
  BY <1>1 DEF Convert
<1>3. /\ input \in Seq(Byte) /\ consumed \in 0..Len(input) /\ ~IsCutAt(consumed)
      /\ encoded = Expected(consumed) /\ consumed \in Nat /\ Len(input) \in Nat
  BY LenProperties DEF ConvertInv
<1>4. Reached(consumed, done)
  BY <1>1, <1>3, IconvReaches
<1>5. /\ done.at \in consumed..Len(input) /\ done.out \in Seq(Output) /\ ~IsCutAt(done.at)
      /\ Expected(done.at) = encoded \o done.out /\ done.at \in Nat
  BY <1>3, <1>4 DEF Reached
<1>6. Expected(done.at) \in Seq(Output)
  BY <1>5, ExpectedNext
<1>7. CASE done.why = "EILSEQ"
  <2> DEFINE i == done.at + 1
  <2>1. /\ done.at < Len(input) /\ input[i] # "a"
        /\ ~(i < Len(input) /\ input[i] = "l" /\ input[done.at + 2] = "t")
        /\ i \in Nat /\ i + 1 = done.at + 2 /\ i - 1 = done.at /\ i \in 0..Len(input)
    BY <1>4, <1>5, <1>7, <1>3 DEF Reached
  <2>2. ~(i > 1 /\ input[i] = "t" /\ input[i - 1] = "l")
    <3> SUFFICES ASSUME i > 1, input[i] = "t", input[done.at] = "l" PROVE FALSE
      BY <2>1
    <3>1. done.at \in 1..Len(input) - 1
      BY <2>1, <1>3, <1>5
    <3> QED BY <3>1, <1>5 DEF IsCutAt
  <2> HIDE DEF i
  <2>3. OutOf(i) = <<"?">>
    BY <2>1, <2>2 DEF OutOf
  <2>4. Expected(i) = Expected(done.at) \o <<"?">>
    <3>1. Expected(done.at + 1) = Expected(done.at) \o OutOf(done.at + 1)
      BY <1>5, ExpectedNext
    <3> QED BY <3>1, <2>3 DEF i
  <2>5. ~IsCutAt(i)
    BY <2>1 DEF IsCutAt
  <2>6. encoded' = Expected(i) /\ consumed' = i
    BY <1>2, <1>5, <1>7, <2>4 DEF i
  <2>7. Expected(i)' = Expected(i)
    BY <1>2 DEF Expected
  <2> QED BY <1>2, <1>3, <2>1, <2>5, <2>6, <2>7 DEF ConvertInv, IsCutAt, Expected
<1>8. CASE done.why # "EILSEQ"
  <2>1. encoded' = Expected(done.at) \o <<>> /\ consumed' = done.at
    BY <1>2, <1>5, <1>8
  <2>2. encoded' = Expected(done.at)
    BY <2>1, <1>6, ConcatEmptySeq
  <2>3. done.at \in 0..Len(input)
    BY <1>3, <1>5
  <2> QED BY <1>2, <1>3, <1>5, <2>1, <2>2, <2>3 DEF ConvertInv, IsCutAt, Expected
<1> QED BY <1>7, <1>8

-----------------------------------------------------------------------------
(* The theorems                                                            *)

\* The invariant of the readers, the segmenter and the conversions holds in every state.
THEOREM Invariance == Spec => []IInv
<1> QED BY InitSatisfies, NextPreserves, PTL DEF Spec

\* The offsets of a text that has been read cut it into the parts its code points stand for.
THEOREM OffsetsCover == Spec => []OffsetsCoverTheText
<1>1. IInv => OffsetsCoverTheText
  BY ReadInvSuffices DEF IInv
<1> QED BY <1>1, Invariance, PTL

\* The segmenter breaks exactly where the rules for grapheme clusters do.
THEOREM SegmentsFollowRules == Spec => []BreaksFollowTheStandard
<1>1. IInv => BreaksFollowTheStandard
  BY SegmentInvSuffices DEF IInv
<1> QED BY <1>1, Invariance, PTL

\* A well-formed text of the planes 0 and 1 is what its characters say, whatever
\* conversions between UTF-8 and UTF-16 it has been through.
THEOREM RecodingIsLossless == Spec => []TextSurvivesRecoding
<1>1. IInv => TextSurvivesRecoding
  BY SurviveInvSuffices DEF IInv
<1> QED BY <1>1, Invariance, PTL

\* split() of a well-formed text in UTF-8, of any length and in any locale, returns the
\* graphemes of the standard, if the generated map says of its characters what the
\* standard does.
THEOREM SplittingFollowsTheStandard ==
    ASSUME MapFollowsStandard
    PROVE  Spec => []SplitsAsTheStandard
<1>1. Init => IInv /\ SplitInv
  BY InitSatisfies, SplitBegins
<1>2. IInv /\ SplitInv /\ [Next]_vars => (IInv /\ SplitInv)'
  BY NextPreserves, SplitStep
<1>3. IInv /\ SplitInv => SplitsAsTheStandard
  BY SplitSuffices
<1> QED BY <1>1, <1>2, <1>3, PTL DEF Spec

\* The conversion of any text, through a buffer of any size, is that of its characters
\* one after the other.
THEOREM ConversionKeepsOrder == Spec => []ConvertedInOrder
<1>1. ConvertInv /\ [Next]_vars => ConvertInv'
  <2> SUFFICES ASSUME ConvertInv, [Next]_vars PROVE ConvertInv'
    OBVIOUS
  <2>1. CASE Convert
    BY <2>1, ConvertStep
  <2>2. CASE UNCHANGED convertVars
    BY <2>2, ConvertStays
  <2> QED BY <2>1, <2>2 DEF Next, vars, SplitRead, Collect, Recode
<1>2. ConvertInv => ConvertedInOrder
  BY DEF ConvertInv, ConvertedInOrder
<1> QED BY <1>1, <1>2, ConvertBegins, PTL DEF Spec
=============================================================================
