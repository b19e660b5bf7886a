--------------------------- MODULE ClosableQueue ---------------------------
(***************************************************************************)
(* What tetengo::json::channel promises to the threads that share it: a    *)
(* bounded first-in first-out queue that can be closed. Each call is       *)
(* served atomically at some instant between its request and its return;   *)
(* how a thread is put to sleep and woken up does not appear.              *)
(***************************************************************************)
EXTENDS Naturals, Sequences

CONSTANTS Thread, Capacity, Element, Exception, Nullopt

VARIABLES
    items,      \* the items not taken yet
    closed,     \* the queue is closed
    call,       \* the request of each thread, or Idle
    result,     \* the answer to the last request of each thread
    delivered   \* the items taken so far

vars == <<items, closed, call, result, delivered>>

Item == Element \cup Exception

Idle == [op |-> "none", item |-> Nullopt]

Request == [op : {"insert"}, item : Item]
             \cup [op : {"peek", "take", "closed", "close"}, item : {Nullopt}]

\* Closing takes an entry of the bounded queue as well.
Room == Len(items) + (IF closed THEN 1 ELSE 0) < Capacity

\* There is an item, or there will never be one.
Decided == items # <<>> \/ closed

Servable(t) ==
    \/ call[t].op \in {"insert", "close"} /\ Room
    \/ call[t].op \in {"peek", "take", "closed"} /\ Decided

-----------------------------------------------------------------------------
Init ==
    /\ items = <<>>
    /\ closed = FALSE
    /\ call = [t \in Thread |-> Idle]
    /\ result = [t \in Thread |-> "none"]
    /\ delivered = <<>>

Ask(t) ==
    /\ call[t] = Idle
    /\ \E c \in Request : call' = [call EXCEPT ![t] = c]
    /\ UNCHANGED <<items, closed, result, delivered>>

Answer(t, op, r) ==
    /\ call[t].op = op
    /\ Servable(t)
    /\ call' = [call EXCEPT ![t] = Idle]
    /\ result' = [result EXCEPT ![t] = r]

Insert(t) ==
    /\ Answer(t, "insert", "void")
    /\ items' = IF closed THEN items ELSE Append(items, call[t].item)
    /\ UNCHANGED <<closed, delivered>>

Peek(t) ==
    /\ Answer(t, "peek", IF items = <<>> THEN "logic_error" ELSE Head(items))
    /\ UNCHANGED <<items, closed, delivered>>

Take(t) ==
    \/ /\ items = <<>>
       /\ Answer(t, "take", "logic_error")
       /\ UNCHANGED <<items, closed, delivered>>
    \/ /\ items # <<>>
       /\ Answer(t, "take", "void")
       /\ items' = Tail(items)
       /\ delivered' = Append(delivered, Head(items))
       /\ UNCHANGED closed

Closed(t) ==
    /\ Answer(t, "closed", IF items = <<>> THEN "closed" ELSE "open")
    /\ UNCHANGED <<items, closed, delivered>>

Close(t) ==
    /\ Answer(t, "close", "void")
    /\ closed' = TRUE
    /\ UNCHANGED <<items, delivered>>

Next ==
    \E t \in Thread :
        Ask(t) \/ Insert(t) \/ Peek(t) \/ Take(t) \/ Closed(t) \/ Close(t)

\* A request is not left servable and unserved for ever. (Serving a request
\* makes it idle, so this is weak fairness of serving it, without ENABLED.)
Served == \A t \in Thread : []<>~Servable(t)

Safety == Init /\ [][Next]_vars

Spec == Safety /\ Served
=============================================================================
