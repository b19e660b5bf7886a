----------------------------- MODULE JsonParser -----------------------------
(***************************************************************************)
(* The pull parser (tetengo::json::json_parser). A worker thread runs the  *)
(* grammar over the text and inserts one element per event into the        *)
(* channel; the client thread pulls the elements with has_next(), peek()   *)
(* and next(), and may destroy the parser at any time.                     *)
(*                                                                         *)
(* The text is abstracted to what the grammar makes of it: the elements its*)
(* event handlers build, in order, and how the parse ends.                 *)
(***************************************************************************)
EXTENDS Naturals, Sequences

CONSTANTS
    Capacity,      \* buffer_capacity
    Event,         \* the longest sequence of elements a text makes
    SyntaxError,   \* the runtime_error "JSON syntax error."
    ReaderError,   \* an exception thrown while the text is read
    Nullopt

Worker == "worker"
Client == "client"

VARIABLES
    queue, call, waiting, result, accepted, delivered, closeDone, \* m_channel
    text,      \* what the grammar makes of the text
    position,  \* the number of event handlers called so far
    worker,    \* what the worker thread does next
    aborting,  \* m_parsing_abortion_requested
    operation, \* the parser function the client is inside of
    client,    \* how far the client is in it
    answer,    \* what the last one returned or threw
    consumed,  \* the number of next() calls that returned
    held,      \* the element the client got a reference to by peek(), or Nullopt
    insertedBeforeAbort  \* history: Len(accepted) when the abort was requested

channelVars == <<queue, call, waiting, result, accepted, delivered, closeDone>>
workerVars == <<text, position, worker>>
clientVars == <<aborting, operation, client, answer, consumed, held, insertedBeforeAbort>>
vars == <<channelVars, workerVars, clientVars>>

EventElement == {Event[i] : i \in 1..Len(Event)}

Channel == INSTANCE Channel WITH
    Thread <- {Worker, Client},
    Element <- EventElement,
    Exception <- {SyntaxError, ReaderError}

\* The constructor of the channel checks its capacity.
ASSUME CapacityAssumption == Capacity \in Nat \ {0}

\* Elements and exceptions are told apart from each other, from the empty optional
\* and from what else an operation can return.
ASSUME EventAssumption == Event \in Seq(EventElement)
ASSUME ErrorAssumption == {SyntaxError, ReaderError} \cap EventElement = {}
ASSUME NulloptAssumption == Nullopt \notin Channel!Item
ASSUME SignalAssumption == Channel!Item \cap Channel!Signal = {}

\* The three ways a parse ends when nobody aborts it.
Verdict == {"matched", "unmatched", "throws"}

Text == [events : {SubSeq(Event, 1, n) : n \in 0..Len(Event)}, verdict : Verdict]

-----------------------------------------------------------------------------
\* The constructor has started the worker thread.
Init ==
    /\ Channel!Init
    /\ text \in Text
    /\ position = 0
    /\ worker = "parsing"
    /\ aborting = FALSE
    /\ operation = "none"
    /\ client = "outside"
    /\ answer = "none"
    /\ consumed = 0
    /\ held = Nullopt
    /\ insertedBeforeAbort = 0

Idles(t) == call[t] = Channel!Idle

-----------------------------------------------------------------------------
(* The worker thread: worker_procedure() and the event handlers            *)

\* Variant: the handlers do not look at the abort flag.
HandleEventAnyway ==
    /\ worker = "parsing"
    /\ Idles(Worker)
    /\ position < Len(text.events)
    /\ position' = position + 1
    /\ Channel!Call(Worker, Channel!InsertCall(text.events[position + 1]))
    /\ UNCHANGED <<text, worker, clientVars>>

\* on_primitive() or on_structure() finds no abort requested and enters
\* channel::insert() with the next element.
HandleEvent ==
    /\ worker = "parsing"
    /\ Idles(Worker)
    /\ position < Len(text.events)
    /\ ~aborting
    /\ position' = position + 1
    /\ Channel!Call(Worker, Channel!InsertCall(text.events[position + 1]))
    /\ UNCHANGED <<text, worker, clientVars>>

\* The handler finds the abort requested and returns false. The grammar fails
\* to match: the flag is never reset, so the handlers of the alternatives that
\* it goes back to return false as well. The worker inserts the syntax error.
RefuseEvent ==
    /\ worker = "parsing"
    /\ Idles(Worker)
    /\ position < Len(text.events)
    /\ aborting
    /\ worker' = "reporting"
    /\ Channel!Call(Worker, Channel!InsertCall(SyntaxError))
    /\ UNCHANGED <<text, position, clientVars>>

\* Variant: an exception out of the reader ends the stream without a report.
FinishParseSilently ==
    /\ worker = "parsing"
    /\ Idles(Worker)
    /\ position = Len(text.events)
    /\ IF text.verdict = "unmatched"
         THEN /\ worker' = "reporting"
              /\ Channel!Call(Worker, Channel!InsertCall(SyntaxError))
         ELSE /\ worker' = "closing"
              /\ Channel!Call(Worker, Channel!PlainCall("close"))
    /\ UNCHANGED <<text, position, clientVars>>

\* The exception that the worker inserts when the text does not match.
Failure == IF text.verdict = "throws" THEN ReaderError ELSE SyntaxError

\* json_grammar::parse() returns, or throws out of the reader.
FinishParse ==
    /\ worker = "parsing"
    /\ Idles(Worker)
    /\ position = Len(text.events)
    /\ \/ /\ text.verdict = "matched"
          /\ worker' = "closing"
          /\ Channel!Call(Worker, Channel!PlainCall("close"))
       \/ /\ text.verdict # "matched"
          /\ worker' = "reporting"
          /\ Channel!Call(Worker, Channel!InsertCall(Failure))
    /\ UNCHANGED <<text, position, clientVars>>

\* Variant: the worker reports the error and forgets to close the channel.
FinishAfterReport ==
    /\ worker = "reporting"
    /\ Idles(Worker)
    /\ worker' = "finished"
    /\ UNCHANGED <<channelVars, text, position, clientVars>>

\* Variant: the end marker is inserted as an element.
InsertEndAfterReport ==
    /\ worker = "reporting"
    /\ Idles(Worker)
    /\ worker' = "closing"
    /\ Channel!Call(Worker, Channel!InsertCall(Nullopt))
    /\ UNCHANGED <<text, position, clientVars>>

CloseAfterReport ==
    /\ worker = "reporting"
    /\ Idles(Worker)
    /\ worker' = "closing"
    /\ Channel!Call(Worker, Channel!PlainCall("close"))
    /\ UNCHANGED <<text, position, clientVars>>

FinishWorker ==
    /\ worker = "closing"
    /\ Idles(Worker)
    /\ worker' = "finished"
    /\ UNCHANGED <<channelVars, text, position, clientVars>>

-----------------------------------------------------------------------------
(* The client thread                                                       *)

Ask == Channel!Call(Client, Channel!PlainCall("closed"))

\* has_next(), peek() and next() all begin with channel::closed().
Begin(op) ==
    /\ client = "outside"
    /\ operation' = op
    /\ client' = "asking"
    /\ Ask
    /\ UNCHANGED <<aborting, answer, consumed, insertedBeforeAbort, workerVars>>

HasNext == Begin("has_next") /\ UNCHANGED held

PeekElement == Begin("peek") /\ UNCHANGED held

\* The reference of an earlier peek() is not used any more.
NextElement == Begin("next") /\ held' = Nullopt

\* ~impl() requests the abort; the loop that drains the channel comes next.
Destroy ==
    /\ client = "outside"
    /\ operation' = "destroy"
    /\ client' = "draining"
    /\ aborting' = TRUE
    /\ insertedBeforeAbort' = Len(accepted)
    /\ held' = Nullopt
    /\ UNCHANGED <<channelVars, answer, consumed, workerVars>>

\* The next test of the loop condition of ~impl().
Drain ==
    /\ client = "draining"
    /\ client' = "asking"
    /\ Ask
    /\ UNCHANGED <<aborting, operation, answer, consumed, held, insertedBeforeAbort, workerVars>>

Leave(a) ==
    /\ client' = "outside"
    /\ operation' = "none"
    /\ answer' = a

\* Variant: peek() and next() do not test has_next().
HearClosedUnchecked ==
    /\ client = "asking"
    /\ Idles(Client)
    /\ result[Client] = "closed"
    /\ CASE operation = "has_next" -> Leave("no") /\ UNCHANGED channelVars
         [] operation = "peek" -> /\ client' = "acting"
                                  /\ Channel!Call(Client, Channel!PlainCall("peek"))
                                  /\ UNCHANGED <<operation, answer>>
         [] operation = "next" -> /\ client' = "acting"
                                  /\ Channel!Call(Client, Channel!PlainCall("take"))
                                  /\ UNCHANGED <<operation, answer>>
         [] operation = "destroy" -> /\ client' = "joining"
                                     /\ UNCHANGED <<operation, answer, channelVars>>
    /\ UNCHANGED <<aborting, consumed, held, insertedBeforeAbort, workerVars>>

\* channel::closed() has returned true.
HearClosed ==
    /\ client = "asking"
    /\ Idles(Client)
    /\ result[Client] = "closed"
    /\ \/ operation = "has_next" /\ Leave("no")
       \/ operation \in {"peek", "next"} /\ Leave("logic_error")
       \/ operation = "destroy" /\ client' = "joining" /\ UNCHANGED <<operation, answer>>
    /\ UNCHANGED <<channelVars, aborting, consumed, held, insertedBeforeAbort, workerVars>>

\* Variant: has_next() moves on to the element that it announces.
HearOpenAndAdvance ==
    /\ client = "asking"
    /\ Idles(Client)
    /\ result[Client] = "open"
    /\ client' = "acting"
    /\ Channel!Call(Client, Channel!PlainCall(IF operation = "peek" THEN "peek" ELSE "take"))
    /\ UNCHANGED <<operation, answer, aborting, consumed, held, insertedBeforeAbort, workerVars>>

\* channel::closed() has returned false; the mutex has been released since.
HearOpen ==
    /\ client = "asking"
    /\ Idles(Client)
    /\ result[Client] = "open"
    /\ \/ /\ operation = "has_next"
          /\ Leave("yes")
          /\ UNCHANGED channelVars
       \/ /\ operation # "has_next"
          /\ client' = "acting"
          /\ Channel!Call(Client,
                Channel!PlainCall(IF operation = "peek" THEN "peek" ELSE "take"))
          /\ UNCHANGED <<operation, answer>>
    /\ UNCHANGED <<aborting, consumed, held, insertedBeforeAbort, workerVars>>

Acted(op) ==
    /\ client = "acting"
    /\ operation = op
    /\ Idles(Client)
    /\ UNCHANGED <<channelVars, aborting, insertedBeforeAbort, workerVars>>

\* channel::peek() has returned a reference, rethrown an exception or thrown.
ReturnPeek ==
    /\ Acted("peek")
    /\ Leave(result[Client])
    /\ held' = IF result[Client] \in EventElement THEN result[Client] ELSE Nullopt
    /\ UNCHANGED consumed

ReturnNext ==
    /\ Acted("next")
    /\ Leave(result[Client])
    /\ consumed' = consumed + (IF result[Client] = "void" THEN 1 ELSE 0)
    /\ UNCHANGED held

\* A take() that throws inside ~impl() is swallowed, and the destructor of the
\* joinable thread then calls std::terminate().
ReturnDrain ==
    /\ Acted("destroy")
    /\ client' = IF result[Client] = "logic_error" THEN "terminated" ELSE "draining"
    /\ UNCHANGED <<operation, answer, consumed, held>>

\* ~impl() joins the worker thread; the members are then destroyed.
Join ==
    /\ client = "joining"
    /\ worker = "finished"
    /\ client' = "gone"
    /\ answer' = "void"
    /\ operation' = "none"
    /\ UNCHANGED <<channelVars, aborting, consumed, held, insertedBeforeAbort, workerVars>>

-----------------------------------------------------------------------------
InChannel(t) == Channel!Step(t) /\ UNCHANGED <<workerVars, clientVars>>

WorkerStep ==
    \/ HandleEvent
    \/ RefuseEvent
    \/ FinishParse
    \/ CloseAfterReport
    \/ FinishWorker
    \/ InChannel(Worker)

\* The steps of the client inside a function of the parser.
ClientStep ==
    \/ Drain
    \/ HearClosed
    \/ HearOpen
    \/ ReturnPeek
    \/ ReturnNext
    \/ ReturnDrain
    \/ Join
    \/ InChannel(Client)

ClientCall == HasNext \/ PeekElement \/ NextElement \/ Destroy

SpuriousWakeup ==
    /\ \E t \in {Worker, Client} : Channel!SpuriousWakeup(t)
    /\ UNCHANGED <<workerVars, clientVars>>

Terminated == client = "gone" /\ UNCHANGED vars

Next == WorkerStep \/ ClientStep \/ ClientCall \/ SpuriousWakeup \/ Terminated

\* The two threads run. The client need not call anything.
Fairness == WF_vars(WorkerStep) /\ WF_vars(ClientStep)

Spec == Init /\ [][Next]_vars /\ Fairness

-----------------------------------------------------------------------------
(* Properties                                                              *)

TypeOK ==
    /\ Channel!TypeOK
    /\ text \in Text
    /\ position \in 0..Len(text.events)
    /\ worker \in {"parsing", "reporting", "closing", "finished"}
    /\ aborting \in BOOLEAN
    /\ operation \in {"none", "has_next", "peek", "next", "destroy"}
    /\ client \in {"outside", "asking", "acting", "draining", "joining", "gone", "terminated"}
    /\ answer \in Channel!Outcome \cup {"yes", "no"}
    /\ consumed \in Nat
    /\ held \in EventElement \cup {Nullopt}
    /\ insertedBeforeAbort \in Nat

\* has_next() releases the mutex before peek(), next() and ~impl() go on, yet
\* what it found still holds when they do: the channel never throws
\* logic_error at the client, and ~impl() never ends in std::terminate().
OpenStaysOpen == result[Client] # "logic_error" /\ client # "terminated"

\* The reference that peek() returned denotes the front entry of the queue
\* until the client moves on, however much the worker inserts meanwhile.
PeekedReferenceStaysValid == held # Nullopt => queue # <<>> /\ Head(queue) = held

\* After the destructor has requested the abort at most one more element gets
\* into the channel: the one whose handler had already passed the test.
AbortStopsParsing ==
    aborting =>
        /\ Len(accepted) <= insertedBeforeAbort + 2
        /\ \A i \in insertedBeforeAbort + 2..Len(accepted) :
              accepted[i] \notin EventElement

\* The destructor terminates, whatever the worker was doing, even asleep in
\* insert() on a full channel, and the worker terminates first.
DestructorTerminates == (operation = "destroy") ~> (client = "gone")

\* What the client can pull: the elements, and at the end the exception, if any.
Stream == text.events \o (IF text.verdict = "matched" THEN <<>> ELSE <<Failure>>)

Abstract == INSTANCE PullStream WITH
    stream <- Stream,
    operation <- operation,
    answer <- answer,
    consumed <- consumed,
    gone <- client = "gone"

\* To the client the two threads and the channel are a stream.
AbstractSafety == Abstract!Safety

\* The two threads and the channel are invisible to the client: it pulls the
\* elements of the text and then the error, if any, and every call returns.
ImplementsPullStream == Abstract!Spec
=============================================================================
