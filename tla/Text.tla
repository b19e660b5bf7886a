-------------------------------- MODULE Text --------------------------------
(***************************************************************************)
(* The text library as its caller sees it: one call of                     *)
(* grapheme_splitter::split() or of an encoder, over texts of all kinds.   *)
(* Encoding to UTF-16 and decoding from it can follow each other.          *)
(***************************************************************************)
EXTENDS UnicodeEncoding, GraphemeSegment, PlatformEncoder

CONSTANTS
    Texts,         \* records: form, source; standard, the characters of the
                   \* text as the Unicode standard has them; wellFormed
    BreakTexts,    \* the sequences of break properties given to segment_offsets()
    Bytes,         \* the texts that are converted to or from CP932
    PropertyMap,   \* character_property_map, those entries that Texts needs
    Languages,     \* the languages of the locales
    MaxRecodings   \* bound: conversions between UTF-8 and UTF-16 in a row

Standard(standard) == [i \in DOMAIN standard |-> standard[i].scalar]

\* UTF-8 by its definition: a leading byte and bytes of six bits each, for the scalar
\* values below a limit.
ScalarLimit == \h110000
InUtf8(c) ==
    LET six(unit) == 128 + ((c \div unit) % 64)
    IN  IF c < \h80 THEN <<c>>
        ELSE IF c < \h800 THEN <<192 + (c \div 64), six(1)>>
        ELSE IF c < \h10000 THEN <<224 + (c \div 4096), six(64), six(1)>>
        ELSE <<240 + (c \div 262144), six(4096), six(64), six(1)>>

\* A text is a sequence of bytes or units; a well-formed one is the encoding of the
\* scalar values of its characters, as far as the program can write them.
ASSUME TextAssumption ==
    \A text \in Texts :
        /\ text.form \in {"utf8", "utf16"} /\ text.source \in Seq(Nat)
        /\ text.wellFormed =>
              /\ Standard(text.standard) \in Seq(Nat \ Surrogate)
              /\ (\A i \in DOMAIN text.standard : text.standard[i].scalar < \h20000) =>
                     text.source = Written(text.form, Standard(text.standard))
\* A well-formed text in UTF-8 is the bytes of its characters, whatever they are.
ASSUME Utf8Assumption ==
    \A text \in Texts : text.wellFormed /\ text.form = "utf8" =>
        /\ text.source = FlattenSeq([i \in DOMAIN text.standard |-> text.standard[i].bytes])
        /\ \A i \in DOMAIN text.standard :
              /\ text.standard[i].scalar < ScalarLimit
              /\ text.standard[i].bytes = InUtf8(text.standard[i].scalar)
ASSUME BreakAssumption == BreakTexts \subseteq Seq(BreakProperty)
ASSUME BytesAssumption == Bytes \subseteq Seq(Byte)
\* The map has an entry for the code point 0, and is sorted.
ASSUME MapAssumption ==
    /\ PropertyMap \in Seq([codePoint : Nat, class : STRING, emoji : BOOLEAN, break : BreakProperty])
    /\ PropertyMap # <<>> /\ PropertyMap[1].codePoint = 0
    /\ \A i, j \in DOMAIN PropertyMap : i < j => PropertyMap[i].codePoint < PropertyMap[j].codePoint

VARIABLES
    origin,      \* the text at first, one of Texts
    recodings,   \* conversions so far
    language,    \* the language of the splitter's locale
    graphemes    \* the result of split()

callVars == <<origin, recodings, language, graphemes>>
vars == <<readVars, segmentVars, convertVars, callVars>>
----------------------------------------------------------------------------
\* property_of(): the entry of the code point, or the one before its place.
LowerBound(c) ==
    CHOOSE i \in 1..Len(PropertyMap) + 1 :
        /\ \A j \in 1..i - 1 : PropertyMap[j].codePoint < c
        /\ i <= Len(PropertyMap) => PropertyMap[i].codePoint >= c

\* Variant: the entry at the place, whatever its code point.
PropertyAtBound(c) == PropertyMap[LowerBound(c)]

PropertyOf(c) ==
    LET i == LowerBound(c)
    IN  IF i <= Len(PropertyMap) /\ PropertyMap[i].codePoint = c
          THEN PropertyMap[i] ELSE PropertyMap[i - 1]

IsEastAsian == language \in {"zh", "ja", "ko"}
DefaultWidth(p) == IF p.class \in {"fullwidth", "wide"} THEN 2 ELSE 1
EastAsianWidth(p) ==
    IF \/ p.class \in {"ambiguous", "fullwidth", "wide"}
       \/ p.class = "neutral" /\ p.emoji
      THEN 2 ELSE 1
WidthOf(c) ==
    IF IsEastAsian THEN EastAsianWidth(PropertyOf(c)) ELSE DefaultWidth(PropertyOf(c))

\* The widest character from one segment offset up to the next.
Width(k) ==
    LET here == {WidthOf(codePoints[j]) : j \in segmentOffsets[k] + 1..segmentOffsets[k + 1]}
    IN  CHOOSE w \in here : \A v \in here : v <= w

Grapheme(k) == [offset |-> offsets[segmentOffsets[k] + 1], width |-> Width(k)]
----------------------------------------------------------------------------
NoText == [form |-> "utf8", source |-> <<>>, standard |-> <<>>, wellFormed |-> FALSE]

Init ==
    /\ recodings = 0 /\ language = "none" /\ graphemes = <<>>
    /\ \/ /\ origin \in Texts /\ ReadingStarts(origin.form, origin.source)
          /\ NoSegments /\ NoConversion
       \/ /\ \E breaks \in BreakTexts : SegmentingStarts(breaks)
          /\ origin = NoText /\ Nothing /\ NoConversion
       \/ /\ \E bytes \in Bytes : ConversionStarts(bytes)
          /\ origin = NoText /\ Nothing /\ NoSegments

\* split() of a splitter made for a locale has read the text.
SplitRead ==
    /\ reading = "end" /\ form = "utf8" /\ segmenting = "idle" /\ recodings = 0
    /\ language' \in Languages
    /\ StartSegmenting([i \in DOMAIN codePoints |-> PropertyOf(codePoints[i]).break])
    /\ UNCHANGED <<readVars, convertVars, origin, recodings, graphemes>>

\* The rest of split(): the offsets and widths of the graphemes, and one
\* without width at the end.
Collect ==
    /\ reading = "end" /\ segmenting = "end" /\ graphemes = <<>>
    /\ graphemes' = Append([k \in 1..Len(segmentOffsets) - 1 |-> Grapheme(k)],
                           [offset |-> Len(source), width |-> 0])
    /\ UNCHANGED <<readVars, segmentVars, convertVars, origin, recodings, language>>

\* utf16::encode() or decode() writes what has been read, and the caller
\* converts the result back.
Recode ==
    /\ reading = "end" /\ segmenting = "idle" /\ recodings < MaxRecodings
    /\ LET other == IF form = "utf8" THEN "utf16" ELSE "utf8"
       IN  Restart(other, Written(other, codePoints))
    /\ recodings' = recodings + 1
    /\ UNCHANGED <<segmentVars, convertVars, origin, language, graphemes>>

Next ==
    \/ Read /\ UNCHANGED <<segmentVars, convertVars, callVars>>
    \/ SplitRead
    \/ Segment /\ UNCHANGED <<readVars, convertVars, callVars>>
    \/ Collect
    \/ Recode
    \/ Convert /\ UNCHANGED <<readVars, segmentVars, callVars>>

Spec == Init /\ [][Next]_vars /\ WF_vars(Next)
----------------------------------------------------------------------------
\* What the bytes, or units, of one character are worth by the definition of
\* the form, as long as it needs.
Worth(aForm, part) ==
    LET bits(i) == part[i] - 128
    IN  IF Len(part) = 1 THEN part[1]
        ELSE IF aForm = "utf16" THEN (part[1] - \hD800) * 1024 + (part[2] - \hDC00) + 65536
        ELSE IF Len(part) = 2 THEN (part[1] - 192) * 64 + bits(2)
        ELSE IF Len(part) = 3 THEN (part[1] - 224) * 4096 + bits(2) * 64 + bits(3)
        ELSE (part[1] - 240) * 262144 + bits(2) * 4096 + bits(3) * 64 + bits(4)

\* A high surrogate in front of a unit that is no surrogate: the program
\* loses the second one.
HighBeforeOrdinary ==
    form = "utf16" /\ \E i \in 1..Len(source) - 1 :
        source[i] \in HighSurrogate /\ source[i + 1] \notin Surrogate

\* The offsets that the readers return cut the text, well-formed or not, into
\* the parts that the code points stand for: no part is left out or counted
\* twice, each is worth its code point, and what cannot be read is one '?' for
\* every byte or unit.  split() returns these offsets to its caller, who cuts
\* the string with them.
OffsetsCoverTheText ==
    reading = "end" /\ ~HighBeforeOrdinary =>
        LET ends == IF offsets = <<>> THEN <<>> ELSE Append(Tail(offsets), Len(source))
            part(i) == SubSeq(source, offsets[i] + 1, ends[i])
        IN  /\ source # <<>> => offsets # <<>> /\ Head(offsets) = 0
            /\ \A i \in DOMAIN offsets :
                  /\ offsets[i] < ends[i]
                  /\ \/ Worth(form, part(i)) = codePoints[i]
                     \/ codePoints[i] = Inconvertible /\ Len(part(i)) = 1

\* A well-formed text of the planes 0 and 1 is read as the characters that the
\* standard says it has, and still is after it has been converted to the other
\* form and back: encode() and decode() of utf16 are inverse to each other.
TextSurvivesRecoding ==
    origin.wellFormed /\ (\A i \in DOMAIN origin.standard : origin.standard[i].scalar < \h20000) =>
        /\ reading # "thrown"
        /\ reading = "end" => codePoints = Standard(origin.standard)
        /\ form = origin.form => source = origin.source

\* The rules of the standard for grapheme clusters (UAX #29, GB3 to GB13,
\* without the restriction of GB11 to pictographs), as the table in the header
\* of grapheme_segment has them.
RegionalsUpTo(p, k) ==
    Cardinality({j \in 1..k : \A i \in j..k : p[i] = "regional"})
StaysTogether(p, k) ==
    LET a == p[k]  b == p[k + 1]
    IN  \/ a = "cr" /\ b = "lf"
        \/ /\ {a, b} \cap {"cr", "lf", "control"} = {}
           /\ \/ b \in {"extend", "zwj", "spacing_mark"} \/ a = "prepend"
              \/ a = "l" /\ b \in {"l", "v", "lv", "lvt"}
              \/ a \in {"lv", "v"} /\ b \in {"v", "t"}
              \/ a \in {"lvt", "t"} /\ b = "t"
              \/ a = "zwj" /\ b = "other"
              \/ b = "regional" /\ RegionalsUpTo(p, k) % 2 = 1

\* The segmenter, which goes through the properties once with a counter, breaks
\* where the rules do, which count the regional indicators anew at every place;
\* its offsets begin with 0, end with the length, and come in order.
BreaksFollowTheStandard ==
    segmenting # "idle" =>
        /\ \A k \in 1..Len(properties) : k < index \/ segmenting = "end" =>
              ((\E i \in DOMAIN segmentOffsets : segmentOffsets[i] = k)
                  <=> k = Len(properties) \/ ~StaysTogether(properties, k))
        /\ segmentOffsets # <<>> => Head(segmentOffsets) = 0
        /\ \A i, j \in DOMAIN segmentOffsets : i < j => segmentOffsets[i] < segmentOffsets[j]

\* The bytes before character i of a text.
BytesBefore(standard, i) == Len(FlattenSeq([j \in 1..i - 1 |-> standard[j].bytes]))

\* The generated map says of the characters of the texts what the standard does, in the
\* last entry that is not behind them.
MapFollowsStandard ==
    \A text \in Texts : text.wellFormed =>
        \A i \in DOMAIN text.standard : \E k \in DOMAIN PropertyMap :
            LET char == text.standard[i]
                entry == PropertyMap[k]
            IN  /\ entry.codePoint <= char.scalar
                /\ k < Len(PropertyMap) => char.scalar < PropertyMap[k + 1].codePoint
                /\ entry.break = char.break
                /\ DefaultWidth(entry) = char.narrow /\ EastAsianWidth(entry) = char.wide

\* split() of a well-formed text returns the graphemes of the standard: where
\* each begins in bytes, how wide its widest character is in the locale, and
\* the end of the string.  The characters bring their own properties and
\* widths, so the look-up in the property map is checked too.
SplitsAsTheStandard ==
    graphemes # <<>> /\ origin.wellFormed =>
        LET all == origin.standard
            breaks == [i \in DOMAIN all |-> all[i].break]
            starts == {i \in DOMAIN all : i = 1 \/ ~StaysTogether(breaks, i - 1)}
            width(i) == IF language \in {"ja", "ko", "zh"} THEN all[i].wide ELSE all[i].narrow
            widest(i) == CHOOSE w \in 1..2 :
                LET rest == {j \in DOMAIN all : j >= i /\ \A k \in starts : k > i => j < k}
                IN  (\E j \in rest : width(j) = w) /\ \A j \in rest : width(j) <= w
        IN  /\ Len(graphemes) = Cardinality(starts) + 1
            /\ Last(graphemes) = [offset |-> Len(origin.source), width |-> 0]
            /\ {graphemes[k] : k \in 1..Len(graphemes) - 1}
                 = {[offset |-> BytesBefore(all, i), width |-> widest(i)] : i \in starts}

\* Character by character, what iconv() would make of the text before a place.
Expected(n) ==
    FlattenSeq([i \in 1..n |->
        IF input[i] = "a" THEN <<"A">>
        ELSE IF i < Len(input) /\ input[i] = "l" /\ input[i + 1] = "t" THEN <<"L">>
        ELSE IF i > 1 /\ input[i] = "t" /\ input[i - 1] = "l" THEN <<"T">>
        ELSE <<"?">>])

\* The conversion to and from CP932 loses, repeats and reorders nothing,
\* wherever the output buffer is full and whatever iconv() stops at.
ConvertedInOrder == encoded = Expected(consumed)

\* A call of an encoder or of split() returns, with a result or by the exception
\* that grapheme_splitter.hpp:122 promises for a string that is not valid UTF-8.
CallsReturn == <>(reading # "run" /\ converting # "run")
=============================================================================
