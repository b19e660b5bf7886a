------------------------------- MODULE MCText -------------------------------
(* Texts made of characters and of faulty pieces, in UTF-8 and UTF-16.     *)
EXTENDS Text

CONSTANTS
    MaxPieces,    \* bound: the pieces of a text
    MaxBreaks,    \* bound: the break properties of a direct call
    MaxBytes      \* bound: the bytes of a text that iconv() converts

\* Characters with what the standard says of them: the encodings, the break
\* property and the width outside and inside East Asia.
Char(scalar, bytes, units, break, narrow, wide) ==
    [scalar |-> scalar, bytes |-> bytes, units |-> units,
     break |-> break, narrow |-> narrow, wide |-> wide]

Characters ==
    {Char(\h41, <<\h41>>, <<\h41>>, "other", 1, 1),
     Char(\h0D, <<\h0D>>, <<\h0D>>, "cr", 1, 1),
     Char(\h0A, <<\h0A>>, <<\h0A>>, "lf", 1, 1),
     Char(\h301, <<\hCC, \h81>>, <<\h301>>, "extend", 1, 2),
     Char(\h600, <<\hD8, \h80>>, <<\h600>>, "prepend", 1, 1),
     Char(\h414, <<\hD0, \h94>>, <<\h414>>, "other", 1, 2),
     Char(\h200D, <<\hE2, \h80, \h8D>>, <<\h200D>>, "zwj", 1, 2),
     Char(\h2764, <<\hE2, \h9D, \hA4>>, <<\h2764>>, "other", 1, 2),
     Char(\h6CB3, <<\hE6, \hB2, \hB3>>, <<\h6CB3>>, "other", 2, 2),
     Char(\hFF7A, <<\hEF, \hBD, \hBA>>, <<\hFF7A>>, "other", 1, 1),
     Char(\h1F1EF, <<\hF0, \h9F, \h87, \hAF>>, <<\hD83C, \hDDEF>>, "regional", 1, 2),
     Char(\h20000, <<\hF0, \hA0, \h80, \h80>>, <<\hD840, \hDC00>>, "other", 2, 2)}

\* Overlong forms, an encoded surrogate, a character cut short, bytes that
\* cannot come first.
FaultyBytes == {<<\hC0, \hAF>>, <<\hE0, \h9F, \hBF>>, <<\hF0, \h8F, \hBF, \hBF>>,
                <<\hED, \hA0, \h80>>, <<\hE6, \hB2>>, <<\h80>>, <<\hF8>>}
FaultyUnits == {<<\hD83D>>, <<\hDC00>>}

Upto(n, S) == UNION {[1..k -> S] : k \in 0..n}

Faulty(part) == [bytes |-> part, units |-> part]
TextOf(aForm, pieces) ==
    LET parts == [i \in DOMAIN pieces |->
                     IF aForm = "utf8" THEN pieces[i].bytes ELSE pieces[i].units]
        good == \A i \in DOMAIN pieces : pieces[i] \in Characters
    IN  [form |-> aForm, source |-> FlattenSeq(parts), wellFormed |-> good,
         standard |-> IF good THEN pieces ELSE <<>>]

TextsOfPieces ==
    {TextOf("utf8", p) : p \in Upto(MaxPieces, Characters \cup {Faulty(b) : b \in FaultyBytes})}
    \cup
    {TextOf("utf16", p) : p \in Upto(MaxPieces, Characters \cup {Faulty(u) : u \in FaultyUnits})}

\* The hypothesis of the theorem about split() holds of these texts and entries.
ASSUME MapIsFollowed == MapFollowsStandard

\* Every sequence of two properties, and long ones of those that count.
BreaksToSegment ==
    Upto(2, BreakProperty)
    \cup Upto(MaxBreaks, {"regional", "prepend", "extend", "other"})

BytesToConvert == Upto(MaxBytes, Byte)

\* The entries of the generated map at the characters above and beside them.
Entry(codePoint, class, emoji, break) ==
    [codePoint |-> codePoint, class |-> class, emoji |-> emoji, break |-> break]
NearbyEntries == <<
    Entry(\h0, "neutral", FALSE, "control"),       Entry(\hA, "neutral", FALSE, "lf"),
    Entry(\hB, "neutral", FALSE, "control"),       Entry(\hD, "neutral", FALSE, "cr"),
    Entry(\hE, "neutral", FALSE, "control"),       Entry(\h3A, "narrow", FALSE, "other"),
    Entry(\h7F, "neutral", FALSE, "control"),      Entry(\h300, "ambiguous", FALSE, "extend"),
    Entry(\h370, "neutral", FALSE, "other"),       Entry(\h410, "ambiguous", FALSE, "other"),
    Entry(\h450, "neutral", FALSE, "other"),       Entry(\h600, "neutral", FALSE, "prepend"),
    Entry(\h606, "neutral", FALSE, "other"),       Entry(\h200C, "neutral", FALSE, "extend"),
    Entry(\h200D, "neutral", TRUE, "zwj"),         Entry(\h200E, "neutral", FALSE, "control"),
    Entry(\h2763, "neutral", TRUE, "other"),       Entry(\h2765, "neutral", FALSE, "other"),
    Entry(\h4E00, "wide", FALSE, "other"),         Entry(\hA48D, "neutral", FALSE, "other"),
    Entry(\hD7FC, "neutral", FALSE, "other"),      Entry(\hE000, "ambiguous", FALSE, "other"),
    Entry(\hFF61, "halfwidth", FALSE, "other"),    Entry(\hFF9E, "halfwidth", FALSE, "extend"),
    Entry(\h1F1AD, "neutral", FALSE, "other"),     Entry(\h1F1E6, "neutral", TRUE, "regional"),
    Entry(\h1F200, "wide", FALSE, "other"),        Entry(\h20000, "wide", FALSE, "other"),
    Entry(\h2FFFE, "neutral", FALSE, "other")>>
=============================================================================
