--------------------------- MODULE UnicodeEncoding ---------------------------
(***************************************************************************)
(* unicode_encoding: reading a text in UTF-8 or UTF-16 into code points    *)
(* and their offsets, one action per way through the body of the loop, and *)
(* writing code points in either form.  Bytes, units and code points are   *)
(* the numbers they are in the program.                                    *)
(***************************************************************************)
EXTENDS Integers, Sequences, SequencesExt

CONSTANT Patience
    \* bound: how many code points are kept of a text whose reading makes no
    \* headway; the program keeps them until its memory is exhausted

VARIABLES
    form,        \* "utf8" or "utf16": the function that reads
    source,      \* the bytes or the units of the text
    current,     \* how many of them have been read
    codePoints,  \* code_points_and_offsets.first
    offsets,     \* code_points_and_offsets.second
    reading      \* "idle", "run", "end" or "thrown" (std::invalid_argument)

readVars == <<form, source, current, codePoints, offsets, reading>>

Inconvertible == 63    \* '?'
Surrogate     == \hD800..\hDFFF
HighSurrogate == \hD800..\hDBFF
LowSurrogate  == \hDC00..\hDFFF

\* The leading bytes of two, three and four bytes, what they are shifted by, and
\* the least code point that needs so many.
Leading ==
    {[bytes |-> \hC0..\hDF, first |-> \hC0, following |-> 1, unit |-> 64, least |-> \h80],
     [bytes |-> \hE0..\hEF, first |-> \hE0, following |-> 2, unit |-> 4096, least |-> \h800],
     [bytes |-> \hF0..\hF7, first |-> \hF0, following |-> 3, unit |-> 262144, least |-> \h10000]}

Nothing == reading = "idle" /\ form = "utf8" /\ source = <<>> /\ current = 0
           /\ codePoints = <<>> /\ offsets = <<>>

ReadingStarts(aForm, text) ==
    /\ form = aForm /\ source = text /\ current = 0
    /\ codePoints = <<>> /\ offsets = <<>> /\ reading = "run"

Restart(aForm, text) ==
    /\ form' = aForm /\ source' = text /\ current' = 0
    /\ codePoints' = <<>> /\ offsets' = <<>> /\ reading' = "run"
----------------------------------------------------------------------------
Here == source[current + 1]
More == reading = "run" /\ current < Len(source)

Push(points, places) ==
    /\ codePoints' = codePoints \o points
    /\ offsets' = offsets \o places
    /\ UNCHANGED <<form, source, reading>>

\* The bytes after the leading byte, if they are continuation bytes.
IsFollowed(count) ==
    /\ current + 1 + count <= Len(source)
    /\ \A i \in 1..count : source[current + 1 + i] \in \h80..\hBF
Following(i) == source[current + 1 + i] % 64
FollowingValue(count) ==
    IF count = 1 THEN Following(1)
    ELSE IF count = 2 THEN 64 * Following(1) + Following(2)
    ELSE 4096 * Following(1) + 64 * Following(2) + Following(3)
Value(lead) == lead.unit * (Here - lead.first) + FollowingValue(lead.following)

ReadAscii ==
    /\ form = "utf8" /\ More /\ Here <= \h7F
    /\ Push(<<Here>>, <<current>>)
    /\ current' = current + 1

\* Variant: an overlong form is one '?', whatever its length.
ReadOverlongAsOne ==
    /\ form = "utf8" /\ More
    /\ \E lead \in Leading :
          /\ Here \in lead.bytes /\ IsFollowed(lead.following)
          /\ Push(<<IF Value(lead) >= lead.least THEN Value(lead) ELSE Inconvertible>>,
                  <<current + (IF Value(lead) >= lead.least THEN 0 ELSE lead.following)>>)
          /\ current' = current + 1 + lead.following

ReadMultibyte ==
    /\ form = "utf8" /\ More
    /\ \E lead \in Leading :
          /\ Here \in lead.bytes /\ IsFollowed(lead.following)
          /\ IF Value(lead) >= lead.least
               THEN Push(<<Value(lead)>>, <<current>>)
               ELSE Push([i \in 1..lead.following + 1 |-> Inconvertible],
                         [i \in 1..lead.following + 1 |-> current + i - 1])
          /\ current' = current + 1 + lead.following

\* utf8_following_byte() throws.
ReadIncomplete ==
    /\ form = "utf8" /\ More
    /\ \E lead \in Leading : Here \in lead.bytes /\ ~IsFollowed(lead.following)
    /\ reading' = "thrown"
    /\ UNCHANGED <<form, source, current, codePoints, offsets>>

\* A byte that cannot come first: a '?' is pushed, and the loop goes on at the
\* same byte.
ReadStray ==
    /\ form = "utf8" /\ More
    /\ Here > \h7F /\ \A lead \in Leading : Here \notin lead.bytes
    /\ IF Len(codePoints) < Patience
         THEN Push(<<Inconvertible>>, <<current>>)
         ELSE UNCHANGED <<form, source, codePoints, offsets, reading>>
    /\ UNCHANGED current

ReadUnit ==
    /\ form = "utf16" /\ More /\ Here \notin Surrogate
    /\ Push(<<Here>>, <<current>>)
    /\ current' = current + 1

\* Variant: the first code point of a pair counts from 0.
PairWithoutPlane(high, next) ==
    IF next \in LowSurrogate
      THEN <<(high - \hD800) * 1024 + (next - \hDC00)>>
      ELSE <<Inconvertible, IF next \in Surrogate THEN Inconvertible ELSE high>>

\* A high surrogate and the unit after it.
Pair(high, next) ==
    IF next \in LowSurrogate
      THEN <<(high - \hD800) * 1024 + (next - \hDC00) + \h10000>>
      ELSE <<Inconvertible, IF next \in Surrogate THEN Inconvertible ELSE high>>

ReadPair ==
    /\ form = "utf16" /\ More /\ Here \in HighSurrogate /\ current + 1 < Len(source)
    /\ LET points == Pair(Here, source[current + 2])
       IN  Push(points, [i \in DOMAIN points |-> current + i - 1])
    /\ current' = current + 2

\* A low surrogate, or a high one that is the last unit.
ReadLoneSurrogate ==
    /\ form = "utf16" /\ More
    /\ Here \in LowSurrogate \/ (Here \in HighSurrogate /\ current + 1 = Len(source))
    /\ Push(<<Inconvertible>>, <<current>>)
    /\ current' = current + 1

ReadEnd ==
    /\ reading = "run" /\ current = Len(source)
    /\ reading' = "end"
    /\ UNCHANGED <<form, source, current, codePoints, offsets>>

Read ==
    \/ ReadAscii \/ ReadMultibyte \/ ReadIncomplete \/ ReadStray
    \/ ReadUnit \/ ReadPair \/ ReadLoneSurrogate
    \/ ReadEnd
----------------------------------------------------------------------------
\* The byte of six bits of a code point, the lowest of which is worth the unit.
FollowingByte(c, unit) == \h80 + ((c \div unit) % 64)

Utf8Char(c) ==
    IF c < \h80 THEN <<c>>
    ELSE IF c < \h800 THEN <<\hC0 + (c \div 64), FollowingByte(c, 1)>>
    ELSE IF c < \h10000
      THEN <<\hE0 + (c \div 4096), FollowingByte(c, 64), FollowingByte(c, 1)>>
    ELSE IF c < \h20000
      THEN <<\hF0 + (c \div 262144),
             FollowingByte(c, 4096), FollowingByte(c, 64), FollowingByte(c, 1)>>
    ELSE <<Inconvertible>>

Utf16Char(c) ==
    IF c < \h10000 THEN <<c>>
    ELSE IF c < \h20000
      THEN <<\hD800 + ((c - \h10000) \div \h400), \hDC00 + ((c - \h10000) % \h400)>>
    ELSE <<Inconvertible>>

Written(aForm, points) ==
    FlattenSeq([i \in DOMAIN points |->
                   IF aForm = "utf8" THEN Utf8Char(points[i]) ELSE Utf16Char(points[i])])
=============================================================================
