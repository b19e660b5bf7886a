--------------------------- MODULE PlatformEncoder ---------------------------
(***************************************************************************)
(* text_encoder::convert() on Unix: iconv() is called with an output       *)
(* buffer over and over, and what it could not convert becomes '?'.  The   *)
(* alphabet: "a" is a character of one byte, "l" and "t" together are one  *)
(* of two bytes, "n" and "t" one that the other encoding does not have.    *)
(***************************************************************************)
EXTENDS Integers, Sequences

CONSTANT OutputBuffer    \* the size of output_buffer, 1024 in the program

VARIABLES
    input,        \* the text to convert
    consumed,     \* p_current_input: how much of it is behind the conversion
    encoded,      \* the result so far
    converting    \* "idle", "run" or "end"

convertVars == <<input, consumed, encoded, converting>>

Byte == {"a", "l", "t", "n"}

NoConversion == input = <<>> /\ consumed = 0 /\ encoded = <<>> /\ converting = "idle"

ConversionStarts(text) ==
    input = text /\ consumed = 0 /\ encoded = <<>> /\ converting = "run"
----------------------------------------------------------------------------
\* iconv(): from a place of the input, as many characters as fit into the
\* buffer, and why it stopped.
Going(at) == [at |-> at, out |-> <<>>, why |-> "going"]

NextCharacter(s) ==
    LET left == Len(input) - s.at
        byte == input[s.at + 1]
        pair == left >= 2 /\ byte = "l" /\ input[s.at + 2] = "t"
        fits(n) == Len(s.out) + n <= OutputBuffer
        stop(why) == [s EXCEPT !.why = why]
        take(n, bytes) == [s EXCEPT !.at = @ + n, !.out = @ \o bytes]
    IN  IF s.why # "going" THEN s
        ELSE IF left = 0 THEN stop("done")
        ELSE IF byte = "a" THEN IF fits(1) THEN take(1, <<"A">>) ELSE stop("E2BIG")
        ELSE IF pair THEN IF fits(2) THEN take(2, <<"L", "T">>) ELSE stop("E2BIG")
        ELSE stop(IF byte \in {"l", "n"} /\ left = 1 THEN "EINVAL" ELSE "EILSEQ")

\* Each character of the input is one turn at most, and one more finds the end.
Iconv(from) ==
    LET turn[n \in 0..Len(input) + 1] == IF n = 0 THEN Going(from) ELSE NextCharacter(turn[n - 1])
    IN  turn[Len(input) + 1]

\* Variant: what was written into a full buffer is dropped.
ConvertDroppingFull ==
    /\ converting = "run"
    /\ LET done == Iconv(consumed)
       IN  /\ encoded' = encoded \o (CASE done.why = "E2BIG" -> <<>>
                                      [] done.why = "EILSEQ" -> Append(done.out, "?")
                                      [] OTHER -> done.out)
           /\ consumed' = IF done.why = "EILSEQ" THEN done.at + 1 ELSE done.at
           /\ converting' = IF done.why = "done" THEN "end" ELSE "run"
    /\ UNCHANGED input

\* One turn of the loop.
Convert ==
    /\ converting = "run"
    /\ LET done == Iconv(consumed)
       IN  /\ encoded' = encoded \o done.out \o (IF done.why = "EILSEQ" THEN <<"?">> ELSE <<>>)
           /\ consumed' = IF done.why = "EILSEQ" THEN done.at + 1 ELSE done.at
           /\ converting' = IF done.why = "done" THEN "end" ELSE "run"
    /\ UNCHANGED input
=============================================================================
