---------------------------- MODULE MCJsonTexts ----------------------------
(* Every text up to five tokens, and every continuation of some longer ones*)
(* that are in the middle of an object, an array, a number or a string.    *)
EXTENDS JsonTexts

Unlimited == 2 * MaxLength

HandlerLimits == {0, 1, 2, 4, Unlimited}

Beginnings ==
    {<<"{", "s", ":", "p", ",", "s">>,
     <<"[", "{", "s", ":", "[", "]">>,
     <<"w", "{", "s", "w", ":", "p">>,
     <<"[", "p", ",", "w", "{", "}">>,
     <<"-", "1", ".", "1">>,
     <<"\"", "\\", "u", "a">>}

OfNumbers == {"-", "0", "1", ".", "e", "+"}
OfStrings == {"\"", "\\", "u", "n", "a", "control"}

SpeltAndNot == {Tokens, OfNumbers, OfStrings}

\* A substitute character, which RFC 8259 does not allow in a string:
\* AcceptsExactlyJson is violated with these alphabets.
WithSubstitutes == {OfStrings \cup {"SUB"}}
=============================================================================
