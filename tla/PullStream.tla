----------------------------- MODULE PullStream -----------------------------
(***************************************************************************)
(* What tetengo::json::json_parser promises to its client: a stream that   *)
(* is pulled entry by entry. An entry is an element, or at the end an      *)
(* exception that peek() throws.                                           *)
(***************************************************************************)
EXTENDS Naturals, Sequences

VARIABLES
    stream,     \* all entries, from the first
    operation,  \* the function the client is inside of
    answer,     \* what the last one returned or threw
    consumed,   \* the number of entries the client has moved past
    gone        \* the parser is destroyed

vars == <<stream, operation, answer, consumed, gone>>

AtEnd == consumed = Len(stream)

Init ==
    /\ operation = "none"
    /\ answer = "none"
    /\ consumed = 0
    /\ gone = FALSE

Begin ==
    /\ ~gone
    /\ operation = "none"
    /\ operation' \in {"has_next", "peek", "next", "destroy"}
    /\ UNCHANGED <<stream, answer, consumed, gone>>

Return(op, a) ==
    /\ operation = op
    /\ operation' = "none"
    /\ answer' = a
    /\ UNCHANGED stream

HasNext ==
    /\ Return("has_next", IF AtEnd THEN "no" ELSE "yes")
    /\ UNCHANGED <<consumed, gone>>

Peek ==
    /\ Return("peek", IF AtEnd THEN "logic_error" ELSE stream[consumed + 1])
    /\ UNCHANGED <<consumed, gone>>

NextEntry ==
    /\ Return("next", IF AtEnd THEN "logic_error" ELSE "void")
    /\ consumed' = IF AtEnd THEN consumed ELSE consumed + 1
    /\ UNCHANGED gone

Destroy ==
    /\ Return("destroy", "void")
    /\ gone' = TRUE
    /\ UNCHANGED consumed

Next == Begin \/ HasNext \/ Peek \/ NextEntry \/ Destroy

\* Every function returns.
Returns == []<>(operation = "none")

Safety == Init /\ [][Next]_vars

Spec == Safety /\ Returns
=============================================================================
