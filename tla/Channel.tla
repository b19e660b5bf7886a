------------------------------ MODULE Channel ------------------------------
(***************************************************************************)
(* The bounded channel between the threads of the JSON parser              *)
(* (tetengo::json::channel): a queue of optional items, one mutex and one  *)
(* condition variable shared by producers and consumers.                   *)
(*                                                                         *)
(* Every operation holds the mutex from its first to its last statement    *)
(* and releases it only inside condition_variable::wait, so an operation   *)
(* is at most three kinds of steps: Call (the thread enters the function), *)
(* Wait (it takes the mutex, finds its predicate false and sleeps), and    *)
(* the operation itself (it takes the mutex, finds its predicate true and  *)
(* runs to the end).                                                       *)
(***************************************************************************)
EXTENDS Naturals, Sequences

CONSTANTS
    Thread,     \* the threads that share the channel
    Capacity,   \* m_capacity
    Element,    \* parsed elements, one value per insert(element) call
    Exception,  \* captured exceptions, one value per insert(exception_ptr) call
    Nullopt     \* the empty optional, which marks the end of the stream

\* The constructor throws std::invalid_argument on a zero capacity.
ASSUME CapacityAssumption == Capacity \in Nat \ {0}

Item == Element \cup Exception

ASSUME NulloptAssumption == Nullopt \notin Item

\* An item is told apart from everything else that an operation can return.
Signal == {"none", "void", "open", "closed", "logic_error"}

ASSUME SignalAssumption == Item \cap Signal = {}

VARIABLES
    queue,       \* m_queue
    call,        \* the operation each thread is inside of, or Idle
    waiting,     \* the threads asleep on m_condition_variable
    result,      \* what the last operation of each thread returned or threw
    accepted,    \* history: the items that insert() enqueued, in order
    delivered,   \* history: the items that take() popped, in order
    closeDone    \* history: some close() has returned

vars == <<queue, call, waiting, result, accepted, delivered, closeDone>>

-----------------------------------------------------------------------------
(* Calls and results                                                       *)

Idle == [op |-> "none", item |-> Nullopt]

InsertCall(i) == [op |-> "insert", item |-> i]
PlainCall(op) == [op |-> op, item |-> Nullopt]

Request ==
    [op : {"insert"}, item : Item]
      \cup [op : {"peek", "take", "closed", "close"}, item : {Nullopt}]

\* A peek() returns a reference to the item, or rethrows it when it is an
\* exception: both are the item itself here.
Outcome == Item \cup Signal

-----------------------------------------------------------------------------
(* The predicates of the waits                                             *)

CanInsert == Len(queue) < Capacity

CanTake == queue # <<>>

\* Variant: the end marker is looked for at the back.
ClosedAtBack == CanTake /\ queue[Len(queue)] = Nullopt

\* closed_impl(): the end marker is at the front.
ClosedImpl == CanTake /\ Head(queue) = Nullopt

\* The test insert() and close() make at the back.
EndMarked == CanTake /\ queue[Len(queue)] = Nullopt

Proceeds(c) == IF c.op \in {"insert", "close"} THEN CanInsert ELSE CanTake

-----------------------------------------------------------------------------
Init ==
    /\ queue = <<>>
    /\ call = [t \in Thread |-> Idle]
    /\ waiting = {}
    /\ result = [t \in Thread |-> "none"]
    /\ accepted = <<>>
    /\ delivered = <<>>
    /\ closeDone = FALSE

\* A thread enters an operation. An item stands for one insert() call, so it
\* is not inserted again; this also bounds the histories by the set Item.
Call(t, c) ==
    /\ call[t] = Idle
    /\ \A i \in 1..Len(accepted) : accepted[i] # c.item
    /\ c.op = "insert" => \A s \in Thread : call[s] # c
    /\ call' = [call EXCEPT ![t] = c]
    /\ UNCHANGED <<queue, waiting, result, accepted, delivered, closeDone>>

\* condition_variable::wait finds the predicate false: the thread sleeps.
Wait(t) ==
    /\ call[t] # Idle
    /\ t \notin waiting
    /\ ~Proceeds(call[t])
    /\ waiting' = waiting \cup {t}
    /\ UNCHANGED <<queue, call, result, accepted, delivered, closeDone>>

\* The standard lets a wait() wake up without a notification.
SpuriousWakeup(t) ==
    /\ t \in waiting
    /\ waiting' = waiting \ {t}
    /\ UNCHANGED <<queue, call, result, accepted, delivered, closeDone>>

\* Thread t holds the mutex inside op and its predicate is true.
Enters(t, op) ==
    /\ call[t].op = op
    /\ t \notin waiting
    /\ Proceeds(call[t])

Return(t, r) ==
    /\ call' = [call EXCEPT ![t] = Idle]
    /\ result' = [result EXCEPT ![t] = r]

\* Variant: notify_one() is called where notify_all() is needed.
NotifyOne ==
    IF waiting = {} THEN UNCHANGED waiting
                    ELSE \E t \in waiting : waiting' = waiting \ {t}

NotifyAll == waiting' = {}

\* Variant: the end marker is not looked for.
InsertUnchecked(t) ==
    /\ Enters(t, "insert")
    /\ Return(t, "void")
    /\ NotifyAll
    /\ queue' = Append(queue, call[t].item)
    /\ accepted' = Append(accepted, call[t].item)
    /\ UNCHANGED <<delivered, closeDone>>

\* Both overloads of insert(): behind the end marker the item is dropped.
Insert(t) ==
    /\ Enters(t, "insert")
    /\ Return(t, "void")
    /\ NotifyAll
    /\ IF EndMarked
         THEN UNCHANGED <<queue, accepted>>
         ELSE /\ queue' = Append(queue, call[t].item)
              /\ accepted' = Append(accepted, call[t].item)
    /\ UNCHANGED <<delivered, closeDone>>

\* peek() const neither pops nor notifies.
Peek(t) ==
    /\ Enters(t, "peek")
    /\ Return(t, IF ClosedImpl THEN "logic_error" ELSE Head(queue))
    /\ UNCHANGED <<queue, waiting, accepted, delivered, closeDone>>

\* Variant: take() pops without looking for the end marker.
TakeUnchecked(t) ==
    /\ Enters(t, "take")
    /\ Return(t, "void")
    /\ queue' = Tail(queue)
    /\ delivered' = Append(delivered, Head(queue))
    /\ NotifyAll
    /\ UNCHANGED <<accepted, closeDone>>

\* Variant: the entries are kept on a stack.
TakeNewest(t) ==
    /\ Enters(t, "take")
    /\ queue[Len(queue)] # Nullopt
    /\ Return(t, "void")
    /\ queue' = SubSeq(queue, 1, Len(queue) - 1)
    /\ delivered' = Append(delivered, queue[Len(queue)])
    /\ NotifyAll
    /\ UNCHANGED <<accepted, closeDone>>

Take(t) ==
    /\ Enters(t, "take")
    /\ IF ClosedImpl
         THEN /\ Return(t, "logic_error")
              /\ UNCHANGED <<queue, waiting, delivered>>
         ELSE /\ Return(t, "void")
              /\ queue' = Tail(queue)
              /\ delivered' = Append(delivered, Head(queue))
              /\ NotifyAll
    /\ UNCHANGED <<accepted, closeDone>>

Closed(t) ==
    /\ Enters(t, "closed")
    /\ Return(t, IF ClosedImpl THEN "closed" ELSE "open")
    /\ UNCHANGED <<queue, waiting, accepted, delivered, closeDone>>

\* Variant: a second close() puts a second end marker.
CloseUnchecked(t) ==
    /\ Enters(t, "close")
    /\ Return(t, "void")
    /\ NotifyAll
    /\ queue' = Append(queue, Nullopt)
    /\ closeDone' = TRUE
    /\ UNCHANGED <<accepted, delivered>>

Close(t) ==
    /\ Enters(t, "close")
    /\ Return(t, "void")
    /\ NotifyAll
    /\ queue' = IF EndMarked THEN queue ELSE Append(queue, Nullopt)
    /\ closeDone' = TRUE
    /\ UNCHANGED <<accepted, delivered>>

\* What the scheduler owes a thread that is awake inside an operation.
Step(t) ==
    \/ Wait(t)
    \/ Insert(t)
    \/ Peek(t)
    \/ Take(t)
    \/ Closed(t)
    \/ Close(t)

Next ==
    \E t \in Thread :
        \/ \E c \in Request : Call(t, c)
        \/ SpuriousWakeup(t)
        \/ Step(t)

\* An awake thread eventually obtains the mutex. Nothing obliges a thread to
\* call an operation, nor a wait() to wake up without a notification.
Fairness == \A t \in Thread : WF_vars(Step(t))

Spec == Init /\ [][Next]_vars /\ Fairness

-----------------------------------------------------------------------------
(* Properties                                                              *)

TypeOK ==
    /\ queue \in Seq(Item \cup {Nullopt})
    /\ call \in [Thread -> Request \cup {Idle}]
    /\ waiting \subseteq Thread
    /\ result \in [Thread -> Outcome]
    /\ accepted \in Seq(Item)
    /\ delivered \in Seq(Item)
    /\ closeDone \in BOOLEAN

\* m_queue never holds more than m_capacity entries, the end marker included,
\* although insert(), close() and a queue of waiting producers all race for
\* the last free entry.
WithinCapacity == Len(queue) <= Capacity

\* A thread that sleeps on the condition variable has nothing to wake up for:
\* every change that makes a predicate true notifies every sleeper, including
\* the ones that sleep for the other predicate on the same variable.
NoLostWakeup == \A t \in waiting : call[t] # Idle /\ ~Proceeds(call[t])

\* The end marker is alone and last: two close() calls do not enqueue it
\* twice, and no insert() gets behind it.
EndMarkerIsLast == \A i \in 1..Len(queue) : queue[i] = Nullopt => i = Len(queue)

\* The entries of the queue before the end marker.
Pending == IF EndMarked THEN SubSeq(queue, 1, Len(queue) - 1) ELSE queue

\* What consumers take is what producers inserted, in order, with nothing lost,
\* duplicated or overtaken: the rest is still in the queue.
FirstInFirstOut == accepted = delivered \o Pending

\* A consumer is told that the channel is closed only after every item that
\* was accepted has been taken, and the channel then stays as it is.
ClosedMeansDrained ==
    \A t \in Thread :
        result[t] \in {"closed", "logic_error"}
            => queue = <<Nullopt>> /\ delivered = accepted

\* Once a close() has returned no item enters the stream any more, whatever
\* insert() calls were waiting for room when it returned.
NothingAcceptedAfterClose == [][closeDone => accepted' = accepted]_vars

-----------------------------------------------------------------------------
(* The channel implements a closable queue: the condition variable and its *)
(* wait set are invisible.                                                 *)

Abstract == INSTANCE ClosableQueue WITH
    items <- Pending,
    closed <- EndMarked,
    call <- call,
    result <- result,
    delivered <- delivered

\* Every operation takes effect at one instant of its call.
AbstractSafety == Abstract!Safety

\* Every operation takes effect at one instant of its call, and a call that may
\* be served is not left unserved for ever.
ImplementsClosableQueue == Abstract!Spec
=============================================================================
