----------------------------- MODULE MCReaders -----------------------------
(* The readers over the texts up to a length over six characters.          *)
EXTENDS Readers

CONSTANT MaxLength   \* bound: the longest text

AllTexts == UNION {[1..n -> Character] : n \in 0..MaxLength}

NoLoneReturn(t) ==
    \A i \in 1..Len(t) :
        t[i] = CarriageReturn => i < Len(t) /\ t[i + 1] = LineFeed

\* The texts whose lines end as a text editor ends them, the last one perhaps
\* not at all, unless in a comment mark.
EditedTexts == {t \in AllTexts : NoLoneReturn(t) /\ (t # <<>> => Last(t) # "#")}

\* Such texts, whatever their last character: CommentsAreRemoved is violated by
\* those that end with a mark.
UnterminatedTexts == {t \in AllTexts : NoLoneReturn(t)}

HashMark == <<"#">>
=============================================================================
