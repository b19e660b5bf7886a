----------------------------- MODULE JsonGrammar -----------------------------
(***************************************************************************)
(* The grammar of the JSON parser (tetengo::json::json_grammar): a parsing *)
(* expression grammar that backtracks, with handlers called while it       *)
(* matches. A handler call is not undone when the grammar backtracks, and  *)
(* a handler that returns false makes the expression it is attached to     *)
(* fail.                                                                   *)
(*                                                                         *)
(* The text is a sequence of tokens: a string literal "s", any other       *)
(* primitive "p" (false, null, true or a number), white space "w" and the  *)
(* six structural characters; or of the characters of JsonSpelling, when   *)
(* strings and numbers are spelt out.                                      *)
(***************************************************************************)
EXTENDS JsonSpelling

VARIABLES
    text,   \* the tokens that the reader yields
    limit   \* the handlers return true for the first limit calls

-----------------------------------------------------------------------------
(* The parsing expressions. A parser is applied at position i of the text, *)
(* the events handled so far being log; it matches up to at - 1 or fails   *)
(* and leaves the position where it was.                                   *)

Match(j, log) == [ok |-> TRUE, at |-> j, log |-> log]
Fail(i, log) == [ok |-> FALSE, at |-> i, log |-> log]

At(i, c) == i <= Len(text) /\ text[i] = c

\* m_ws
RECURSIVE Ws(_)
Ws(i) == IF At(i, "w") THEN Ws(i + 1) ELSE i

\* m_begin_array, m_end_object, m_value_separator ...: ws, the character, ws.
Structural(c, i, log) ==
    IF At(Ws(i), c) THEN Match(Ws(Ws(i) + 1), log) ELSE Fail(i, log)

\* A parser that fails leaves the position where the whole began.
Back(r, i) == IF r.ok THEN r ELSE Fail(i, r.log)

\* one >> another
Then(one, i, Another(_)) == Back(IF one.ok THEN Another(one) ELSE one, i)

\* one | another
Else(one, Another(_)) == IF one.ok THEN one ELSE Another(one)

\* -(one >> more)
Optionally(one, More(_)) == IF one.ok THEN More(one) ELSE Match(one.at, one.log)

\* Variant: the result of the handler is not looked at.
ActAnyway(r, event, i) ==
    IF ~r.ok \/ Len(r.log) >= limit THEN r ELSE Match(r.at, Append(r.log, event))

\* expression[handler]: the handler runs when the expression has matched and
\* decides whether it has.
Act(r, event, i) ==
    IF ~r.ok THEN r
    ELSE IF Len(r.log) < limit THEN Match(r.at, Append(r.log, event))
    ELSE Fail(i, r.log)

Open(name) == <<name, "open">>
Close(name) == <<name, "close">>
Primitive == <<"primitive", "value">>

Terminal(c, event, i, log) ==
    Act(IF At(i, c) THEN Match(i + 1, log) ELSE Fail(i, log), event, i)

\* m_number[handler] and m_string[handler], with the position after the match.
Spelt(after, event, i, log) ==
    Act(IF after > 0 THEN Match(after, log) ELSE Fail(i, log), event, i)

NumberAt(i, log) == Spelt(AfterNumber(text, i), Primitive, i, log)
StringAt(event, i, log) ==
    Spelt(IF At(i, "s") THEN i + 1 ELSE AfterString(text, i), event, i, log)

RECURSIVE Value(_, _), MoreItems(_, _, _)

\* Variant: the separator and the value of a member are optional.
MemberNameOnly(i, log) ==
    Then(StringAt(Open("member"), i, log), i,
         LAMBDA name : Optionally(
             Then(Structural(":", name.at, name.log), name.at,
                  LAMBDA colon : Act(Value(colon.at, colon.log), Close("member"), colon.at)),
             LAMBDA value : value))

\* m_member: a string, the separator and a value.
Member(i, log) ==
    Then(StringAt(Open("member"), i, log), i,
         LAMBDA name : Then(Structural(":", name.at, name.log), name.at,
             LAMBDA colon : Act(Value(colon.at, colon.log), Close("member"), colon.at)))

Item(kind, i, log) == IF kind = "object" THEN Member(i, log) ELSE Value(i, log)

\* Variant: the separator is consumed though no item follows it.
MoreItemsTrailing(kind, i, log) ==
    Optionally(Structural(",", i, log),
        LAMBDA comma : Optionally(Item(kind, comma.at, comma.log),
            LAMBDA item : MoreItems(kind, item.at, item.log)))

\* *(m_value_separator >> item): stops in front of the separator that no item
\* follows; the handlers of a part that matched have been called all the same.
MoreItems(kind, i, log) ==
    Optionally(
        Then(Structural(",", i, log), i, LAMBDA comma : Item(kind, comma.at, comma.log)),
        LAMBDA item : MoreItems(kind, item.at, item.log))

\* -(item >> *(m_value_separator >> item))
Items(kind, i, log) ==
    Optionally(Item(kind, i, log), LAMBDA item : MoreItems(kind, item.at, item.log))

\* m_object and m_array
Structure(kind, begin, end, i, log) ==
    Then(Act(Structural(begin, i, log), Open(kind), i), i,
         LAMBDA open : Then(Items(kind, open.at, open.log), open.at,
             LAMBDA items : Act(Structural(end, items.at, items.log), Close(kind), items.at)))

\* m_value: the alternatives in the order of the rule.
Value(i, log) ==
    Else(Terminal("p", Primitive, i, log),
         LAMBDA primitive : Else(Structure("object", "{", "}", i, primitive.log),
             LAMBDA object : Else(Structure("array", "[", "]", i, object.log),
                 LAMBDA array : Else(NumberAt(i, array.log),
                     LAMBDA number : StringAt(Primitive, i, number.log)))))

\* parse(): m_json_text matches and consumes the whole text.
Parse ==
    LET value == Value(Ws(1), <<>>)
    IN  [successful |-> value.ok /\ Ws(value.at) = Len(text) + 1,
         events |-> value.log]
=============================================================================
