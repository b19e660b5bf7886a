---------------------------- MODULE JsonSpelling ----------------------------
(***************************************************************************)
(* How numbers and strings are spelt: the rules of the JSON grammar for    *)
(* them, and the escapes that the property library writes and reads. A     *)
(* character is a string; "1" stands for the digits 1 to 9, "control" for  *)
(* the characters up to 0x19 without a name, "SUB" for 0x1A to 0x1F.       *)
(***************************************************************************)
EXTENDS Naturals, SequencesExt

IsAt(t, i, c) == i <= Len(t) /\ t[i] = c

-----------------------------------------------------------------------------
(* The grammar. An operator returns the position after what it matches at i*)
(* and 0 when it does not match; an optional one returns i itself.         *)

\* *qi::digit
RECURSIVE AfterDigits(_, _)
AfterDigits(t, i) == IF IsAt(t, i, "0") \/ IsAt(t, i, "1") THEN AfterDigits(t, i + 1) ELSE i

\* -m_minus
AfterMinus(t, i) == IF IsAt(t, i, "-") THEN i + 1 ELSE i

\* m_int: a zero ends it.
AfterInt(t, i) ==
    CASE IsAt(t, i, "0") -> i + 1
      [] IsAt(t, i, "1") -> AfterDigits(t, i + 1)
      [] OTHER -> 0

\* -m_frac
AfterFrac(t, i) ==
    IF IsAt(t, i, ".") /\ AfterDigits(t, i + 1) > i + 1 THEN AfterDigits(t, i + 1) ELSE i

\* -m_exp
AfterExp(t, i) ==
    LET digits == IF IsAt(t, i + 1, "-") \/ IsAt(t, i + 1, "+") THEN i + 2 ELSE i + 1
    IN  IF IsAt(t, i, "e") /\ AfterDigits(t, digits) > digits THEN AfterDigits(t, digits) ELSE i

\* m_number
AfterNumber(t, i) ==
    LET int == AfterInt(t, AfterMinus(t, i))
    IN  IF int = 0 THEN 0 ELSE AfterExp(t, AfterFrac(t, int))

\* The escapes of one character, by what they stand for.
EscapeLetter == [c \in {"\"", "\\", "/", "BS", "FF", "LF", "CR", "TAB"} |->
    CASE c = "BS" -> "b" [] c = "FF" -> "f" [] c = "LF" -> "n" [] c = "CR" -> "r"
      [] c = "TAB" -> "t" [] OTHER -> c]

\* The hexadecimal digits that occur; "1" is the digit itself here.
HexValue == [d \in {"0", "1", "3", "4", "5", "8", "a", "c", "d", "f"} |->
    CASE d = "0" -> 0 [] d = "1" -> 1 [] d = "3" -> 3 [] d = "4" -> 4 [] d = "5" -> 5 [] d = "8" -> 8
      [] d = "a" -> 10 [] d = "c" -> 12 [] d = "d" -> 13 [] d = "f" -> 15]

\* The characters that m_unescaped leaves out: "SUB" is not among them.
NotUnescaped == {"control", "BS", "FF", "LF", "CR", "TAB", "\"", "\\"}

HasHex(t, i) == i + 3 <= Len(t) /\ \A j \in i..(i + 3) : t[j] \in DOMAIN HexValue

\* *m_char
RECURSIVE AfterChars(_, _)
AfterChars(t, i) ==
    CASE i <= Len(t) /\ t[i] \notin NotUnescaped -> AfterChars(t, i + 1)
      [] IsAt(t, i, "\\") /\ IsAt(t, i + 1, "u") /\ HasHex(t, i + 2) -> AfterChars(t, i + 6)
      [] IsAt(t, i, "\\") /\ i < Len(t) /\ \E c \in DOMAIN EscapeLetter : t[i + 1] = EscapeLetter[c] ->
            AfterChars(t, i + 2)
      [] OTHER -> i

\* m_string
AfterString(t, i) ==
    IF IsAt(t, i, "\"") /\ IsAt(t, AfterChars(t, i + 1), "\"") THEN AfterChars(t, i + 1) + 1 ELSE 0

-----------------------------------------------------------------------------
(* The escapes of the property library                                     *)

\* escape(): what has an escape of one character gets it.
Escaped(string) ==
    FlattenSeq([i \in DOMAIN string |->
        IF string[i] \in DOMAIN EscapeLetter THEN <<"\\", EscapeLetter[string[i]]>>
        ELSE <<string[i]>>])

\* unescape_control_code(): the default is the character itself.
Unnamed(letter) ==
    IF \E c \in DOMAIN EscapeLetter : EscapeLetter[c] = letter
      THEN CHOOSE c \in DOMAIN EscapeLetter : EscapeLetter[c] = letter
      ELSE letter

\* to_utf16_code(); the grammar lets nothing but four hexadecimal digits through.
CodeAt(t, i) == FoldLeft(LAMBDA code, d : 16 * code + HexValue[d], 0, SubSeq(t, i, i + 3))

\* The characters that codes may be of: utf16 has one for each unit outside of the
\* surrogates and for each pair of them, and a '?' for what is in no pair.
Unit(code) ==
    CASE code = \h5C -> "\\" [] code = \h1F -> "SUB" [] code \in \hD800..\hDFFF -> "?"
      [] OTHER -> "other"

\* unescape_utf16_codes(): the lower code is left out when it is zero, and lost
\* when it is no surrogate.
Decoded(high, low) ==
    CASE low \in \hDC00..\hDFFF -> <<"pair">>
      [] low = 0 -> <<"?">>
      [] low \in \hD800..\hDBFF -> <<"?", "?">>
      [] OTHER -> <<"?", "surrogate">>

IsHighSurrogate(code) == code \in \hD800..\hDBFF

\* unescape_utf16(): the character at the code at i, or at it and the next one.
UnescapedUtf16(t, i) ==
    IF /\ IsHighSurrogate(CodeAt(t, i))
       /\ i + 9 <= Len(t) /\ t[i + 4] = "\\" /\ t[i + 5] = "u"
      THEN [chars |-> Decoded(CodeAt(t, i), CodeAt(t, i + 6)), after |-> i + 10]
      ELSE [chars |-> <<Unit(CodeAt(t, i))>>, after |-> i + 4]

\* unescape()
RECURSIVE UnescapedFrom(_, _)
UnescapedFrom(t, i) ==
    CASE i > Len(t) -> <<>>
      [] t[i] # "\\" -> <<t[i]>> \o UnescapedFrom(t, i + 1)
      [] IsAt(t, i + 1, "u") /\ i + 5 <= Len(t) ->
            LET utf16 == UnescapedUtf16(t, i + 2)
            IN  utf16.chars \o UnescapedFrom(t, utf16.after)
      [] i < Len(t) -> <<Unnamed(t[i + 1])>> \o UnescapedFrom(t, i + 2)
      [] OTHER -> <<>>

Unescaped(t) == UnescapedFrom(t, 1)
=============================================================================
