----------------------------- MODULE JsonTexts -----------------------------
(***************************************************************************)
(* The grammar over every text up to a length, against a reference that is *)
(* written without backtracking: the JSON texts as a context-free language.*)
(* The text grows token by token.                                          *)
(***************************************************************************)
EXTENDS JsonGrammar

CONSTANTS
    Alphabets,  \* sets of tokens and characters: a text is made of those of one
    MaxLength,  \* bound: the longest text
    AllLength,  \* bound: the longest text that does not begin with one of Starts
    Starts,     \* beginnings of long texts
    Limits      \* the numbers of handler calls after which handlers refuse

vars == <<text, limit>>

\* The tokens that are not spelt out.
Tokens == {"{", "}", "[", "]", ":", ",", "s", "p", "w"}

-----------------------------------------------------------------------------
Init == text \in Starts \cup {<<>>} /\ limit \in Limits

Extend ==
    /\ Len(text) < IF \E s \in Starts : IsPrefix(s, text) THEN MaxLength ELSE AllLength
    /\ \E alphabet \in Alphabets :
          /\ ToSet(text) \subseteq alphabet
          /\ \E c \in alphabet : text' = Append(text, c)
    /\ UNCHANGED limit

Spec == Init /\ [][Extend]_vars

-----------------------------------------------------------------------------
(* The reference: JSON texts as a context-free language, each with the     *)
(* events that describe it, built by length and without white space.       *)

Phrase(t, e) == [text |-> t, events |-> e]

Joined(as, bs) ==
    {Phrase(a.text \o <<",">> \o b.text, a.events \o b.events) : a \in as, b \in bs}

Enclosed(kind, begin, end, lists) ==
    {Phrase(<<begin>> \o l.text \o <<end>>, <<Open(kind)>> \o l.events \o <<Close(kind)>>)
       : l \in lists}

Nothing == {Phrase(<<>>, <<>>)}

\* The values, members and comma-separated lists of them, n tokens each.
Language[n \in 0..MaxLength] ==
    LET shorter(k) == Language[k]
        values ==
          CASE n = 0 -> {}
            [] n = 1 -> {Phrase(<<"p">>, <<Primitive>>), Phrase(<<"s">>, <<Primitive>>)}
            [] OTHER -> Enclosed("array", "[", "]",
                            IF n = 2 THEN Nothing ELSE shorter(n - 2).valueLists)
                        \cup
                        Enclosed("object", "{", "}",
                            IF n = 2 THEN Nothing ELSE shorter(n - 2).memberLists)
        members ==
          IF n < 3 THEN {}
          ELSE {Phrase(<<"s", ":">> \o v.text, <<Open("member")>> \o v.events \o <<Close("member")>>)
                  : v \in shorter(n - 2).values}
    IN  [values |-> values,
         members |-> members,
         valueLists |-> values \cup
            UNION {Joined(shorter(k).values, shorter(n - 1 - k).valueLists) : k \in 1..(n - 2)},
         memberLists |-> members \cup
            UNION {Joined(shorter(k).members, shorter(n - 1 - k).memberLists) : k \in 1..(n - 2)}]

Compact == SelectSeq(text, LAMBDA c : c # "w")

\* The numbers of RFC 8259: a sign, digits without a leading zero, a fraction and an
\* exponent, of which the middle parts are there. A part ends where the next begins.
Digits(t) == t # <<>> /\ ToSet(t) \subseteq {"0", "1"}
Behind(signs, t, IsRest(_)) == \E sign \in signs : IsPrefix(sign, t) /\ IsRest(SubSeq(t, Len(sign) + 1, Len(t)))
IsInt(t) == t = <<"0">> \/ (Digits(t) /\ Head(t) = "1")
IsFrac(t) == t = <<>> \/ (Head(t) = "." /\ Digits(Tail(t)))
IsExp(t) == t = <<>> \/ (Head(t) = "e" /\ Behind({<<>>, <<"-">>, <<"+">>}, Tail(t), Digits))
IsUnsigned(t) ==
    \E i, j \in 0..Len(t) :
        i <= j /\ IsInt(SubSeq(t, 1, i)) /\ IsFrac(SubSeq(t, i + 1, j)) /\ IsExp(SubSeq(t, j + 1, Len(t)))
IsNumber(t) == Behind({<<>>, <<"-">>}, t, IsUnsigned)

\* The strings of RFC 8259: some cut between the quotation marks makes characters.
IsCharacter(c) ==
    \/ Len(c) = 1 /\ c[1] \notin {"\"", "\\", "control", "SUB"}
    \/ Len(c) = 2 /\ c[1] = "\\" /\ c[2] \in {"\"", "\\", "/", "b", "f", "n", "r", "t"}
    \/ Len(c) = 6 /\ c[1] = "\\" /\ c[2] = "u" /\ ToSet(SubSeq(c, 3, 6)) \subseteq DOMAIN HexValue
IsString(t) ==
    /\ Len(t) >= 2 /\ Head(t) = "\"" /\ Last(t) = "\""
    /\ \E cuts \in SUBSET (2..Len(t)) :
          /\ {2, Len(t)} \subseteq cuts
          /\ \A i \in cuts \ {Len(t)} :
                LET next == Min({j \in cuts : j > i}) IN IsCharacter(SubSeq(t, i, next - 1))

\* What the text means: the events of it, if it is JSON.
Meanings ==
    IF ~(ToSet(text) \subseteq Tokens)
    THEN IF IsNumber(text) \/ IsString(text) THEN {<<Primitive>>} ELSE {}
    ELSE {v.events : v \in {u \in Language[Len(Compact)].values : u.text = Compact}}

-----------------------------------------------------------------------------
(* Properties                                                              *)

\* When no handler refuses, parse() accepts the JSON texts and no others, and
\* the events it has handled by then are those of the text, although the rules
\* that were tried and given up have called handlers too.
AcceptsExactlyJson ==
    limit >= 2 * MaxLength =>
        Meanings = (IF Parse.successful THEN {Parse.events} ELSE {})

\* The depth of nesting after the events, or -1 when a close has no open.
Nesting(events) ==
    FoldLeft(LAMBDA stack, e :
                CASE stack = <<"broken">> -> stack
                  [] e[2] = "open" -> Append(stack, e[1])
                  [] e[2] = "close" ->
                        IF stack # <<>> /\ Last(stack) = e[1] THEN Front(stack) ELSE <<"broken">>
                  [] OTHER -> stack,
             <<>>, events)

\* A client that reads up to a syntax error, or up to an abort, never sees a
\* structure closed that is not the innermost open one.
EventsAreNested == Nesting(Parse.events) # <<"broken">>

\* Once a handler has refused, the alternatives that the grammar goes back to
\* add no event, and the parse does not succeed. (The parser relies on this to
\* stop the worker.)
RefusalIsFinal ==
    Parse.successful =>
        Nesting(Parse.events) = <<>> /\ Parse.events \in Meanings
=============================================================================
