-------------------------- MODULE JsonParserProofs --------------------------
(***************************************************************************)
(* The safety of the pull parser, for every text, every sequence of events *)
(* and every capacity of the channel, from the invariant of the channel.   *)
(***************************************************************************)
EXTENDS JsonParser, SequenceTheorems, TLAPS

ChannelFacts == INSTANCE ChannelProofs WITH
    Thread <- {Worker, Client},
    Element <- EventElement,
    Exception <- {SyntaxError, ReaderError}

-----------------------------------------------------------------------------
(* The inductive invariant                                                 *)

\* The front entry is an item: peek() and take() neither sleep nor throw.
HasItem == queue # <<>> /\ Head(queue) # Nullopt

\* Without an abort the channel has accepted a prefix of the stream.
AcceptedIsPrefix ==
    ~aborting =>
        /\ Len(accepted) <= Len(Stream)
        /\ \A i \in 1..Len(accepted) : accepted[i] = Stream[i]

\* Where the worker is, what it is inserting, and how much it has inserted.
WorkerInv ==
    /\ worker = "parsing" =>
          /\ ~Channel!EndMarked
          /\ \/ Idles(Worker) /\ Len(accepted) = position
             \/ /\ position # 0 /\ Len(accepted) = position - 1
                /\ call[Worker] = Channel!InsertCall(text.events[position])
    /\ worker = "reporting" =>
          /\ ~Channel!EndMarked
          /\ \/ Idles(Worker) /\ (~aborting => Len(accepted) = Len(Stream))
             \/ \E e \in {SyntaxError, ReaderError} :
                   /\ call[Worker] = Channel!InsertCall(e)
                   /\ ~aborting => Len(accepted) + 1 = Len(Stream) /\ Stream[Len(Stream)] = e
    /\ worker \in {"closing", "finished"} =>
          /\ ~aborting => Len(accepted) = Len(Stream)
          /\ \/ Idles(Worker) /\ Channel!EndMarked
             \/ /\ worker = "closing" /\ ~Channel!EndMarked
                /\ call[Worker] = Channel!PlainCall("close")

\* Where the client is, and that what it was told still holds.
ClientInv ==
    /\ client # "terminated" /\ result[Client] # "logic_error"
    /\ client \in {"outside", "draining", "joining", "gone"} => Idles(Client)
    /\ client = "asking" =>
          \/ call[Client] = Channel!PlainCall("closed")
          \/ Idles(Client) /\ result[Client] = "closed"
          \/ Idles(Client) /\ result[Client] = "open" /\ HasItem
    /\ client = "acting" =>
          \/ /\ HasItem
             /\ call[Client] = Channel!PlainCall(IF operation = "peek" THEN "peek" ELSE "take")
          \/ Idles(Client) /\ operation = "peek" /\ HasItem /\ result[Client] = Head(queue)
          \/ Idles(Client) /\ operation # "peek" /\ result[Client] = "void"

\* Which function the client is inside of.
OperationInv ==
    /\ client \in {"outside", "gone"} <=> operation = "none"
    /\ client = "acting" => operation # "has_next"
    /\ client \in {"draining", "joining"} => operation = "destroy"
    /\ aborting <=> operation = "destroy" \/ client = "gone"
    /\ operation \in {"next", "destroy"} => held = Nullopt
    /\ held # Nullopt => HasItem /\ Head(queue) = held

\* The entries that the client has moved past are those that were taken.
ConsumedInv ==
    ~aborting =>
        Len(delivered) = IF client = "acting" /\ operation = "next" /\ Idles(Client)
                           THEN consumed + 1 ELSE consumed

\* What gets into the channel after an abort, by the place of the worker.
AbortInv ==
    aborting =>
        /\ Len(accepted) >= insertedBeforeAbort
        /\ worker = "parsing" /\ ~Idles(Worker) => Len(accepted) = insertedBeforeAbort
        /\ worker = "parsing" \/ (worker = "reporting" /\ ~Idles(Worker)) =>
              Len(accepted) <= insertedBeforeAbort + 1
        /\ Len(accepted) <= insertedBeforeAbort + 2
        /\ Len(accepted) = insertedBeforeAbort + 2 => accepted[Len(accepted)] \notin EventElement

IInv ==
    /\ ChannelFacts!IInv
    /\ TypeOK
    /\ AcceptedIsPrefix
    /\ WorkerInv
    /\ ClientInv
    /\ OperationInv
    /\ ConsumedInv
    /\ AbortInv

-----------------------------------------------------------------------------
(* What the invariant says, and what a text is                             *)

LEMMA SameChannel ==
    /\ [Channel!Next]_channelVars <=> [ChannelFacts!Next]_(ChannelFacts!vars)
    /\ Channel!Init <=> ChannelFacts!Init
    /\ Channel!TypeOK <=> ChannelFacts!TypeOK
BY DEF Channel!Next, ChannelFacts!Next, Channel!Init, ChannelFacts!Init, Channel!Call,
   ChannelFacts!Call, Channel!SpuriousWakeup, ChannelFacts!SpuriousWakeup,
   Channel!Step, ChannelFacts!Step, Channel!Wait, ChannelFacts!Wait,
   Channel!Insert, ChannelFacts!Insert, Channel!Peek, ChannelFacts!Peek,
   Channel!Take, ChannelFacts!Take, Channel!Closed, ChannelFacts!Closed,
   Channel!Close, ChannelFacts!Close, Channel!Enters, ChannelFacts!Enters,
   Channel!Return, ChannelFacts!Return, Channel!Proceeds, ChannelFacts!Proceeds,
   Channel!CanInsert, ChannelFacts!CanInsert, Channel!CanTake,
   ChannelFacts!CanTake, Channel!ClosedImpl, ChannelFacts!ClosedImpl,
   Channel!EndMarked, ChannelFacts!EndMarked, Channel!NotifyAll,
   ChannelFacts!NotifyAll, Channel!Idle, ChannelFacts!Idle, Channel!Request,
   ChannelFacts!Request, Channel!Item, ChannelFacts!Item, Channel!Signal,
   ChannelFacts!Signal, Channel!Outcome, ChannelFacts!Outcome, Channel!TypeOK,
   ChannelFacts!TypeOK,
   channelVars, ChannelFacts!vars

LEMMA ChannelAssumptions ==
    /\ Capacity \in Nat \ {0}
    /\ Nullopt \notin ChannelFacts!Item
    /\ ChannelFacts!Item \cap ChannelFacts!Signal = {}
BY CapacityAssumption, NulloptAssumption, SignalAssumption
   DEF Channel!Item, ChannelFacts!Item, Channel!Signal, ChannelFacts!Signal

\* The invariant of the channel in the terms of the parser.
LEMMA ChannelState ==
    ASSUME ChannelFacts!IInv
    PROVE  /\ queue \in Seq(Channel!Item \cup {Nullopt})
           /\ accepted \in Seq(Channel!Item)
           /\ delivered \in Seq(Channel!Item)
           /\ call \in [{Worker, Client} -> Channel!Request \cup {Channel!Idle}]
           /\ result \in [{Worker, Client} -> Channel!Outcome]
           /\ \A t \in waiting : call[t] # Channel!Idle
           /\ \A t \in {Worker, Client} :
                 result[t] \in {"closed", "logic_error"} => queue = <<Nullopt>> /\ delivered = accepted
BY DEF ChannelFacts!IInv, ChannelFacts!TypeOK, Channel!Idle, ChannelFacts!Idle, Channel!Request, ChannelFacts!Request, Channel!Item, ChannelFacts!Item, Channel!Signal, ChannelFacts!Signal, Channel!Outcome, ChannelFacts!Outcome, ChannelFacts!NoLostWakeup, ChannelFacts!ClosedMeansDrained

LEMMA TextFacts ==
    ASSUME TypeOK
    PROVE  /\ text.events \in Seq(EventElement)
           /\ Len(text.events) \in Nat
           /\ position \in Nat /\ position <= Len(text.events)
           /\ text.verdict \in Verdict
<1>1. PICK n \in 0..Len(Event) : text.events = SubSeq(Event, 1, n)
  BY DEF TypeOK, Text
<1>2. \A i \in 1..n : Event[i] \in EventElement
  BY EventAssumption, LenProperties DEF EventElement
<1>3. n \in Int /\ 1 \in Int
  BY EventAssumption, LenProperties
<1>4. text.events \in Seq(EventElement)
  BY <1>1, <1>2, <1>3, SubSeqProperties
<1> QED BY <1>4, LenProperties DEF TypeOK, Text

\* The entries of the stream: the elements, and the exception.
LEMMA StreamFacts ==
    ASSUME TypeOK
    PROVE  /\ Stream \in Seq(Channel!Item)
           /\ Len(Stream) \in Nat
           /\ \A i \in 1..Len(text.events) : Stream[i] = text.events[i]
           /\ Failure \in {SyntaxError, ReaderError}
           /\ text.verdict = "matched" => Len(Stream) = Len(text.events)
           /\ text.verdict # "matched" =>
                 Len(Stream) = Len(text.events) + 1 /\ Stream[Len(Stream)] = Failure
<1>1. text.events \in Seq(Channel!Item) /\ Len(text.events) \in Nat
  BY TextFacts, SeqMonotonic DEF Channel!Item
<1>2. Failure \in {SyntaxError, ReaderError} /\ Failure \in Channel!Item
  BY DEF Failure, Channel!Item
<1>3. CASE text.verdict = "matched"
  BY <1>1, <1>2, <1>3, ConcatEmptySeq DEF Stream
<1>4. CASE text.verdict # "matched"
  <2>1. Stream = Append(text.events, Failure)
    BY <1>1, <1>2, <1>4, AppendIsConcat DEF Stream
  <2> QED BY <1>1, <1>2, <1>4, <2>1, AppendProperties
<1> QED BY <1>3, <1>4

-----------------------------------------------------------------------------
(* Every step of the parser is a step of the channel or leaves it alone    *)

LEMMA RequestsOfTheParser ==
    /\ \A e \in EventElement \cup {SyntaxError, ReaderError} :
          Channel!InsertCall(e) \in ChannelFacts!Request
    /\ \A op \in {"peek", "take", "closed", "close"} :
          Channel!PlainCall(op) \in ChannelFacts!Request
BY DEF Channel!InsertCall, Channel!PlainCall, ChannelFacts!Request, ChannelFacts!Item

LEMMA CallIsStep ==
    ASSUME NEW t \in {Worker, Client}, NEW c \in ChannelFacts!Request, Channel!Call(t, c)
    PROVE  ChannelFacts!Next
BY DEF ChannelFacts!Next, Channel!Call, ChannelFacts!Call, Channel!Idle, ChannelFacts!Idle

LEMMA ChannelStep ==
    ASSUME TypeOK, [Next]_vars
    PROVE  [ChannelFacts!Next]_(ChannelFacts!vars)
<1>1. ASSUME UNCHANGED channelVars PROVE UNCHANGED ChannelFacts!vars
  BY <1>1 DEF channelVars, ChannelFacts!vars
<1>2. ASSUME NEW t \in {Worker, Client}, Channel!SpuriousWakeup(t) \/ Channel!Step(t)
      PROVE  [ChannelFacts!Next]_(ChannelFacts!vars)
  BY <1>2, SameChannel DEF Channel!Next
<1>3. CASE WorkerStep
  <2>1. CASE HandleEvent
    <3>1. text.events[position + 1] \in EventElement
      BY <2>1, TextFacts, ElementOfSeq DEF HandleEvent
    <3> QED BY <2>1, <3>1, RequestsOfTheParser, CallIsStep DEF HandleEvent
  <2>2. CASE RefuseEvent
    BY <2>2, RequestsOfTheParser, CallIsStep DEF RefuseEvent
  <2>3. CASE FinishParse
    BY <2>3, StreamFacts, RequestsOfTheParser, CallIsStep DEF FinishParse
  <2>4. CASE CloseAfterReport
    BY <2>4, RequestsOfTheParser, CallIsStep DEF CloseAfterReport
  <2>5. CASE FinishWorker
    BY <2>5, <1>1 DEF FinishWorker
  <2>6. CASE InChannel(Worker)
    BY <2>6, <1>2 DEF InChannel
  <2> QED BY <1>3, <2>1, <2>2, <2>3, <2>4, <2>5, <2>6 DEF WorkerStep
<1>4. ASSUME Ask PROVE ChannelFacts!Next
  BY <1>4, RequestsOfTheParser, CallIsStep DEF Ask
<1>5. CASE ClientStep
  <2>1. CASE HearOpen
    BY <2>1, <1>1, RequestsOfTheParser, CallIsStep DEF HearOpen
  <2>2. CASE HearClosed \/ ReturnPeek \/ ReturnNext \/ ReturnDrain \/ Join
    BY <2>2, <1>1 DEF HearClosed, ReturnPeek, ReturnNext, ReturnDrain, Acted, Join
  <2>3. CASE Drain
    BY <2>3, <1>4 DEF Drain
  <2>4. CASE InChannel(Client)
    BY <2>4, <1>2 DEF InChannel
  <2> QED BY <1>5, <2>1, <2>2, <2>3, <2>4 DEF ClientStep
<1>6. CASE ClientCall
  BY <1>6, <1>1, <1>4 DEF ClientCall, HasNext, PeekElement, NextElement, Begin, Destroy
<1>7. CASE SpuriousWakeup
  BY <1>7, <1>2 DEF SpuriousWakeup
<1>8. CASE Terminated \/ UNCHANGED vars
  BY <1>8, <1>1 DEF Terminated, vars
<1> QED BY <1>3, <1>5, <1>6, <1>7, <1>8 DEF Next

LEMMA ChannelInvPreserved ==
    ASSUME ChannelFacts!IInv, TypeOK, [Next]_vars
    PROVE  ChannelFacts!IInv' /\ ChannelFacts!TypeOK'
<1>1. [ChannelFacts!Next]_(ChannelFacts!vars)
  BY ChannelStep
<1>2. ChannelFacts!TypeOK
  BY DEF ChannelFacts!IInv
<1>3. ChannelFacts!TypeOK'
  BY <1>1, <1>2, ChannelAssumptions, ChannelFacts!StepTypes
<1> QED BY <1>1, <1>3, ChannelAssumptions, ChannelFacts!NextPreserves

-----------------------------------------------------------------------------
(* What a step of a thread inside the channel does                         *)

LEMMA QueueFacts ==
    ASSUME ChannelFacts!IInv
    PROVE  /\ queue \in Seq(ChannelFacts!Entry)
           /\ ChannelFacts!WellMarked(queue)
           /\ Channel!EndMarked <=> ChannelFacts!Marked(queue)
           /\ HasItem => /\ Len(delivered) < Len(accepted)
                         /\ Head(queue) = accepted[Len(delivered) + 1]
                         /\ Head(queue) \in Channel!Item
<1>1. queue \in Seq(ChannelFacts!Entry) /\ delivered \in Seq(ChannelFacts!Item)
  BY DEF ChannelFacts!IInv, ChannelFacts!TypeOK, ChannelFacts!Entry
<1>2. ChannelFacts!WellMarked(queue)
  BY DEF ChannelFacts!IInv, ChannelFacts!EndMarkerIsLast, ChannelFacts!WellMarked
<1>3. Channel!EndMarked <=> ChannelFacts!Marked(queue)
  BY DEF Channel!EndMarked, Channel!CanTake, ChannelFacts!Marked
<1>4. ASSUME HasItem
      PROVE  /\ Len(delivered) < Len(accepted)
             /\ Head(queue) = accepted[Len(delivered) + 1]
             /\ Head(queue) \in Channel!Item
  <2> DEFINE pending == ChannelFacts!Unmarked(queue)
  <2>1. pending # <<>> /\ Head(pending) = Head(queue) /\ Head(queue) \in ChannelFacts!Item
    BY <1>1, <1>2, <1>4, ChannelAssumptions, ChannelFacts!TailOfQueue DEF HasItem
  <2>2. pending \in Seq(ChannelFacts!Item)
    BY <1>1, <1>2, ChannelAssumptions, ChannelFacts!UnmarkedProperties
  <2>3. accepted = delivered \o pending
    BY ChannelAssumptions, ChannelFacts!NamesOfQueue DEF ChannelFacts!IInv, ChannelFacts!FirstInFirstOut
  <2> HIDE DEF pending
  <2>4. /\ Len(pending) \in Nat \ {0} /\ Len(delivered) \in Nat
        /\ Head(pending) = pending[1]
    BY <1>1, <2>1, <2>2, EmptySeq, LenProperties, HeadTailProperties
  <2>5. /\ Len(accepted) = Len(delivered) + Len(pending)
        /\ accepted[Len(delivered) + 1] = pending[1]
    BY <1>1, <2>2, <2>3, <2>4, ConcatProperties
  <2> QED BY <2>1, <2>4, <2>5 DEF Channel!Item, ChannelFacts!Item
<1> QED BY <1>1, <1>2, <1>3, <1>4

\* An entry is put behind a queue without an end marker.
LEMMA AppendFacts ==
    ASSUME ChannelFacts!IInv, ~Channel!EndMarked, NEW x \in Channel!Item \cup {Nullopt},
           queue' = Append(queue, x)
    PROVE  /\ Channel!EndMarked' <=> x = Nullopt
           /\ HasItem => HasItem' /\ Head(queue') = Head(queue)
<1>1. /\ queue \in Seq(ChannelFacts!Entry) /\ x \in ChannelFacts!Entry
      /\ ChannelFacts!WellMarked(queue) /\ ~ChannelFacts!Marked(queue)
  BY QueueFacts DEF ChannelFacts!Entry, Channel!Item, ChannelFacts!Item
<1>2. ChannelFacts!Marked(queue') <=> x = Nullopt
  BY <1>1, ChannelAssumptions, ChannelFacts!AppendToUnmarked
<1>3. Channel!EndMarked' <=> ChannelFacts!Marked(queue')
  BY DEF Channel!EndMarked, Channel!CanTake, ChannelFacts!Marked
<1>4. ASSUME HasItem PROVE HasItem' /\ Head(queue') = Head(queue)
  <2>1. Len(queue) \in Nat \ {0} /\ Head(queue) = queue[1]
    BY <1>1, <1>4, EmptySeq, LenProperties, HeadTailProperties DEF HasItem
  <2>2. queue' \in Seq(ChannelFacts!Entry) /\ queue' # <<>> /\ queue'[1] = queue[1]
    BY <1>1, <2>1, AppendProperties
  <2>3. Head(queue') = Head(queue)
    BY <2>1, <2>2, HeadTailProperties
  <2> QED BY <1>4, <2>2, <2>3 DEF HasItem
<1> QED BY <1>2, <1>3, <1>4

\* The front entry is taken.
LEMMA TakeFacts ==
    ASSUME ChannelFacts!IInv, HasItem, queue' = Tail(queue)
    PROVE  Channel!EndMarked' <=> Channel!EndMarked
<1>1. ChannelFacts!Marked(queue') <=> ChannelFacts!Marked(queue)
  BY QueueFacts, ChannelAssumptions, ChannelFacts!TailOfQueue DEF HasItem
<1>2. Channel!EndMarked' <=> ChannelFacts!Marked(queue')
  BY DEF Channel!EndMarked, Channel!CanTake, ChannelFacts!Marked
<1> QED BY <1>1, <1>2, QueueFacts

\* Whoever is inside of the channel, and in which operation.
LEMMA Requests ==
    ASSUME ChannelFacts!IInv
    PROVE  /\ \A t \in {Worker, Client} :
                 call[t] = Channel!Idle \/ call[t] \in Channel!Request
           /\ \A c \in Channel!Request :
                 /\ c.op \in {"insert", "peek", "take", "closed", "close"}
                 /\ c.op = "insert" => c.item \in Channel!Item
           /\ Channel!Idle.op = "none"
           /\ \A i : Channel!InsertCall(i).op = "insert" /\ Channel!InsertCall(i).item = i
           /\ \A op : Channel!PlainCall(op).op = op
           /\ \A t \in {Worker, Client} : Idles(t) <=> call[t].op = "none"
           /\ Worker # Client
BY ChannelState DEF Channel!Request, Channel!Idle, Channel!InsertCall, Channel!PlainCall, Idles, Worker, Client

LEMMA WorkerEffect ==
    ASSUME IInv, InChannel(Worker)
    PROVE  /\ UNCHANGED <<delivered, workerVars, clientVars>>
           /\ call'[Client] = call[Client] /\ result'[Client] = result[Client]
           /\ ~Idles(Worker) /\ ~Channel!EndMarked
           /\ \/ UNCHANGED <<queue, accepted>> /\ call'[Worker] = call[Worker]
              \/ /\ worker \in {"parsing", "reporting"}
                 /\ Idles(Worker)' /\ ~Channel!EndMarked'
                 /\ queue' = Append(queue, call[Worker].item)
                 /\ accepted' = Append(accepted, call[Worker].item)
              \/ /\ worker = "closing"
                 /\ Idles(Worker)' /\ Channel!EndMarked'
                 /\ queue' = Append(queue, Nullopt)
                 /\ UNCHANGED accepted
<1> USE DEF InChannel
<1>1. /\ call \in [{Worker, Client} -> Channel!Request \cup {Channel!Idle}]
      /\ result \in [{Worker, Client} -> Channel!Outcome]
      /\ worker \in {"parsing", "reporting", "closing", "finished"}
      /\ Worker # Client
  BY ChannelState, Requests DEF IInv, TypeOK
<1>2. call[Worker].op # "none"
  BY Requests DEF IInv, Channel!Step, Channel!Wait, Channel!Insert, Channel!Peek, Channel!Take,
                  Channel!Closed, Channel!Close, Channel!Enters, Idles
<1>3. /\ ~Idles(Worker) /\ ~Channel!EndMarked
      /\ worker \in {"parsing", "reporting"} => call[Worker].op = "insert"
      /\ worker \in {"closing", "finished"} => worker = "closing" /\ call[Worker].op = "close"
  BY <1>1, <1>2, Requests DEF IInv, WorkerInv
<1>4. call[Worker].op = "insert" => call[Worker].item \in Channel!Item
  BY <1>1, <1>2, Requests DEF IInv
<1>5. CASE Channel!Wait(Worker)
  BY <1>3, <1>5 DEF Channel!Wait
<1>6. CASE Channel!Insert(Worker)
  <2>1. /\ queue' = Append(queue, call[Worker].item)
        /\ accepted' = Append(accepted, call[Worker].item)
        /\ UNCHANGED delivered
        /\ call[Worker].op = "insert"
    BY <1>3, <1>6 DEF Channel!Insert, Channel!Enters
  <2>2. ~Channel!EndMarked'
    BY <1>3, <1>4, <2>1, AppendFacts, NulloptAssumption DEF IInv
  <2>3. /\ call' = [call EXCEPT ![Worker] = Channel!Idle]
        /\ result' = [result EXCEPT ![Worker] = "void"]
    BY <1>6 DEF Channel!Insert, Channel!Return
  <2> QED BY <1>1, <1>3, <2>1, <2>2, <2>3 DEF Idles
<1>7. CASE Channel!Close(Worker)
  <2>1. /\ queue' = Append(queue, Nullopt)
        /\ UNCHANGED <<accepted, delivered>>
        /\ call[Worker].op = "close"
    BY <1>3, <1>7 DEF Channel!Close, Channel!Enters
  <2>2. Channel!EndMarked'
    BY <1>3, <2>1, AppendFacts DEF IInv
  <2>3. /\ call' = [call EXCEPT ![Worker] = Channel!Idle]
        /\ result' = [result EXCEPT ![Worker] = "void"]
    BY <1>7 DEF Channel!Close, Channel!Return
  <2> QED BY <1>1, <1>3, <2>1, <2>2, <2>3 DEF Idles
<1>8. CASE Channel!Peek(Worker) \/ Channel!Take(Worker) \/ Channel!Closed(Worker)
  BY <1>1, <1>3, <1>8 DEF Channel!Peek, Channel!Take, Channel!Closed, Channel!Enters
<1> QED BY <1>5, <1>6, <1>7, <1>8 DEF Channel!Step

LEMMA ClientEffect ==
    ASSUME IInv, InChannel(Client)
    PROVE  /\ UNCHANGED <<accepted, workerVars, clientVars>>
           /\ call'[Worker] = call[Worker]
           /\ ~Idles(Client)
           /\ Channel!EndMarked' <=> Channel!EndMarked
           /\ \/ /\ UNCHANGED <<queue, delivered>>
                 /\ call'[Client] = call[Client] /\ result'[Client] = result[Client]
              \/ /\ client = "asking" /\ Idles(Client)'
                 /\ UNCHANGED <<queue, delivered>>
                 /\ result'[Client] = "closed" \/ (result'[Client] = "open" /\ HasItem)
              \/ /\ client = "acting" /\ operation = "peek" /\ Idles(Client)'
                 /\ UNCHANGED <<queue, delivered>>
                 /\ HasItem /\ result'[Client] = Head(queue)
              \/ /\ client = "acting" /\ operation # "peek" /\ Idles(Client)'
                 /\ HasItem /\ queue' = Tail(queue)
                 /\ delivered' = Append(delivered, Head(queue))
                 /\ result'[Client] = "void"
<1> USE DEF InChannel
<1>1. /\ call \in [{Worker, Client} -> Channel!Request \cup {Channel!Idle}]
      /\ result \in [{Worker, Client} -> Channel!Outcome]
      /\ client \in {"outside", "asking", "acting", "draining", "joining", "gone", "terminated"}
      /\ Worker # Client
  BY ChannelState, Requests DEF IInv, TypeOK
<1>2. call[Client].op # "none"
  BY Requests DEF IInv, Channel!Step, Channel!Wait, Channel!Insert, Channel!Peek, Channel!Take,
                  Channel!Closed, Channel!Close, Channel!Enters, Idles
<1>3. /\ ~Idles(Client)
      /\ \/ client = "asking" /\ call[Client].op = "closed"
         \/ /\ client = "acting" /\ HasItem
            /\ call[Client].op = IF operation = "peek" THEN "peek" ELSE "take"
  BY <1>1, <1>2, Requests DEF IInv, ClientInv
<1>4. HasItem => Channel!CanTake /\ ~Channel!ClosedImpl
  BY DEF HasItem, Channel!CanTake, Channel!ClosedImpl
<1>5. CASE Channel!Wait(Client)
  BY <1>3, <1>5 DEF Channel!Wait, Channel!EndMarked, Channel!CanTake
<1>6. CASE Channel!Closed(Client)
  <2>1. /\ client = "asking"
        /\ Channel!CanTake
        /\ UNCHANGED <<queue, accepted, delivered>>
        /\ call' = [call EXCEPT ![Client] = Channel!Idle]
        /\ result' = [result EXCEPT ![Client] = IF Channel!ClosedImpl THEN "closed" ELSE "open"]
    BY <1>3, <1>6 DEF Channel!Closed, Channel!Enters, Channel!Return, Channel!Proceeds
  <2>2. Channel!CanTake /\ ~Channel!ClosedImpl => HasItem
    BY DEF HasItem, Channel!CanTake, Channel!ClosedImpl
  <2> QED BY <1>1, <1>3, <2>1, <2>2 DEF Idles, Channel!EndMarked, Channel!CanTake
<1>7. CASE Channel!Peek(Client)
  <2>1. /\ client = "acting" /\ operation = "peek" /\ HasItem
        /\ UNCHANGED <<queue, accepted, delivered>>
        /\ call' = [call EXCEPT ![Client] = Channel!Idle]
        /\ result' = [result EXCEPT ![Client] = Head(queue)]
    BY <1>3, <1>4, <1>7 DEF Channel!Peek, Channel!Enters, Channel!Return
  <2> QED BY <1>1, <1>3, <2>1 DEF Idles, Channel!EndMarked, Channel!CanTake
<1>8. CASE Channel!Take(Client)
  <2>1. /\ client = "acting" /\ operation # "peek" /\ HasItem
        /\ queue' = Tail(queue) /\ delivered' = Append(delivered, Head(queue))
        /\ UNCHANGED accepted
        /\ call' = [call EXCEPT ![Client] = Channel!Idle]
        /\ result' = [result EXCEPT ![Client] = "void"]
    BY <1>3, <1>4, <1>8 DEF Channel!Take, Channel!Enters, Channel!Return
  <2>2. Channel!EndMarked' <=> Channel!EndMarked
    BY <2>1, TakeFacts DEF IInv
  <2> QED BY <1>1, <1>3, <2>1, <2>2 DEF Idles
<1>9. CASE Channel!Insert(Client) \/ Channel!Close(Client)
  BY <1>1, <1>3, <1>9 DEF Channel!Insert, Channel!Close, Channel!Enters
<1> QED BY <1>5, <1>6, <1>7, <1>8, <1>9 DEF Channel!Step

-----------------------------------------------------------------------------
(* The steps of one thread leave the invariant of the other alone          *)

WorkerSide == AcceptedIsPrefix /\ WorkerInv /\ AbortInv

ClientSide == ClientInv /\ OperationInv /\ ConsumedInv

LEMMA WorkerFrame ==
    ASSUME WorkerSide,
           UNCHANGED <<accepted, workerVars, aborting, insertedBeforeAbort>>,
           call'[Worker] = call[Worker],
           Channel!EndMarked' <=> Channel!EndMarked
    PROVE  WorkerSide'
<1>1. Stream' = Stream
  BY DEF workerVars, Stream, Failure
<1>2. AcceptedIsPrefix'
  BY <1>1 DEF WorkerSide, AcceptedIsPrefix
<1>3. WorkerInv'
  BY <1>1 DEF WorkerSide, WorkerInv, workerVars, Idles, Channel!InsertCall, Channel!PlainCall, Channel!Idle
<1>4. AbortInv'
  BY DEF WorkerSide, AbortInv, workerVars, Idles
<1> QED BY <1>2, <1>3, <1>4 DEF WorkerSide

LEMMA ClientFrame ==
    ASSUME ClientSide,
           UNCHANGED <<delivered, clientVars>>,
           call'[Client] = call[Client], result'[Client] = result[Client],
           HasItem => HasItem' /\ Head(queue') = Head(queue)
    PROVE  ClientSide'
<1>1. ClientInv'
  BY DEF ClientSide, ClientInv, clientVars, Idles, Channel!PlainCall, Channel!Idle
<1>2. OperationInv'
  BY DEF ClientSide, OperationInv, clientVars
<1>3. ConsumedInv'
  BY DEF ClientSide, ConsumedInv, clientVars, Idles
<1> QED BY <1>1, <1>2, <1>3 DEF ClientSide

\* A thread that enters an operation changes nothing else in the channel.
LEMMA CallEffect ==
    ASSUME IInv, NEW t \in {Worker, Client}, NEW c, Channel!Call(t, c)
    PROVE  /\ UNCHANGED <<queue, waiting, result, accepted, delivered, closeDone>>
           /\ Channel!EndMarked' <=> Channel!EndMarked
           /\ HasItem' <=> HasItem
           /\ \A s \in {Worker, Client} : call'[s] = IF s = t THEN c ELSE call[s]
BY ChannelState DEF IInv, Channel!Call, Channel!EndMarked, Channel!CanTake, HasItem

\* A step that leaves the channel alone.
LEMMA ChannelFrame ==
    ASSUME UNCHANGED channelVars
    PROVE  /\ UNCHANGED <<queue, call, waiting, result, accepted, delivered, closeDone>>
           /\ Channel!EndMarked' <=> Channel!EndMarked
           /\ HasItem' <=> HasItem
BY DEF channelVars, Channel!EndMarked, Channel!CanTake, HasItem

-----------------------------------------------------------------------------
(* The worker                                                              *)

LEMMA HandleEventPreserves ==
    ASSUME IInv, HandleEvent
    PROVE  WorkerSide' /\ ClientSide'
<1> DEFINE e == text.events[position + 1]
<1>1. /\ UNCHANGED <<queue, waiting, result, accepted, delivered, closeDone>>
      /\ Channel!EndMarked' <=> Channel!EndMarked
      /\ HasItem' <=> HasItem
      /\ call'[Worker] = Channel!InsertCall(e)
      /\ call'[Client] = call[Client]
  BY CallEffect, Requests DEF IInv, HandleEvent
<1>2. /\ worker = "parsing" /\ Idles(Worker) /\ ~aborting /\ ~Channel!EndMarked
      /\ position' = position + 1 /\ position \in Nat
      /\ Len(accepted) = position
      /\ UNCHANGED <<text, worker, clientVars>>
  BY TextFacts DEF IInv, HandleEvent, WorkerInv, Idles, Channel!InsertCall, Channel!Idle
<1>3. ClientSide'
  BY <1>1, <1>2, ClientFrame DEF IInv, ClientSide
<1>4. Stream' = Stream
  BY <1>2 DEF Stream, Failure
<1>5. AcceptedIsPrefix'
  BY <1>1, <1>2, <1>4 DEF IInv, AcceptedIsPrefix, clientVars
<1>6. WorkerInv'
  BY <1>1, <1>2 DEF WorkerInv
<1>7. AbortInv'
  BY <1>2 DEF AbortInv, clientVars
<1> QED BY <1>3, <1>5, <1>6, <1>7 DEF WorkerSide

LEMMA FinishPreserves ==
    ASSUME IInv, RefuseEvent \/ FinishParse
    PROVE  WorkerSide' /\ ClientSide'
<1>1. PICK c \in {Channel!InsertCall(SyntaxError), Channel!InsertCall(ReaderError),
                  Channel!PlainCall("close")} : Channel!Call(Worker, c)
  BY StreamFacts DEF IInv, RefuseEvent, FinishParse
<1>2. /\ UNCHANGED <<queue, waiting, result, accepted, delivered, closeDone>>
      /\ Channel!EndMarked' <=> Channel!EndMarked
      /\ HasItem' <=> HasItem
      /\ call'[Worker] = c
      /\ call'[Client] = call[Client]
  BY <1>1, CallEffect, Requests DEF IInv
<1>3. /\ worker = "parsing" /\ Idles(Worker) /\ ~Channel!EndMarked
      /\ Len(accepted) = position /\ position \in Nat
      /\ UNCHANGED <<text, position, clientVars>>
  BY TextFacts DEF IInv, RefuseEvent, FinishParse, WorkerInv, Idles, Channel!InsertCall, Channel!Idle
<1>4. ClientSide'
  BY <1>2, <1>3, ClientFrame DEF IInv, ClientSide
<1>5. Stream' = Stream
  BY <1>3 DEF Stream, Failure
<1>6. AcceptedIsPrefix'
  BY <1>2, <1>3, <1>5 DEF IInv, AcceptedIsPrefix, clientVars
<1>7. WorkerInv'
  <2>1. CASE RefuseEvent
    <3>1. worker' = "reporting" /\ call'[Worker] = Channel!InsertCall(SyntaxError) /\ aborting'
      BY <1>3, <2>1, CallEffect DEF IInv, RefuseEvent, clientVars
    <3> QED BY <1>2, <1>3, <3>1 DEF WorkerInv
  <2>2. CASE FinishParse /\ text.verdict = "matched"
    <3>1. worker' = "closing" /\ call'[Worker] = Channel!PlainCall("close")
      BY <2>2, CallEffect DEF IInv, FinishParse
    <3>2. Len(accepted) = Len(Stream)
      BY <1>3, <2>2, StreamFacts, TextFacts DEF IInv, FinishParse
    <3> QED BY <1>2, <1>3, <1>5, <3>1, <3>2 DEF WorkerInv
  <2>3. CASE FinishParse /\ text.verdict # "matched"
    <3>1. worker' = "reporting" /\ call'[Worker] = Channel!InsertCall(Failure)
      BY <2>3, CallEffect DEF IInv, FinishParse
    <3>2. /\ Len(accepted) + 1 = Len(Stream) /\ Stream[Len(Stream)] = Failure
          /\ Failure \in {SyntaxError, ReaderError}
      BY <1>3, <2>3, StreamFacts, TextFacts DEF IInv, FinishParse
    <3> QED BY <1>2, <1>3, <1>5, <3>1, <3>2 DEF WorkerInv
  <2> QED BY <2>1, <2>2, <2>3
<1>8. AbortInv'
  <2>1. worker' \in {"reporting", "closing"}
    BY DEF RefuseEvent, FinishParse
  <2> QED BY <1>2, <1>3, <2>1 DEF IInv, AbortInv, clientVars
<1> QED BY <1>4, <1>6, <1>7, <1>8 DEF WorkerSide

LEMMA EndOfWorkerPreserves ==
    ASSUME IInv, CloseAfterReport \/ FinishWorker
    PROVE  WorkerSide' /\ ClientSide'
<1>1. /\ UNCHANGED <<queue, waiting, result, accepted, delivered, closeDone>>
      /\ Channel!EndMarked' <=> Channel!EndMarked
      /\ HasItem' <=> HasItem
      /\ call'[Client] = call[Client]
      /\ CloseAfterReport => call'[Worker] = Channel!PlainCall("close")
      /\ FinishWorker => call'[Worker] = call[Worker]
  <2>1. CASE CloseAfterReport
    <3>1. Channel!Call(Worker, Channel!PlainCall("close")) /\ worker = "reporting"
      BY <2>1 DEF CloseAfterReport
    <3> QED BY <3>1, CallEffect, Requests DEF IInv, FinishWorker
  <2>2. CASE FinishWorker
    BY <2>2, ChannelFrame DEF FinishWorker, CloseAfterReport
  <2> QED BY <2>1, <2>2
<1>2. /\ Idles(Worker)
      /\ UNCHANGED <<text, position, clientVars>>
      /\ CloseAfterReport => worker = "reporting" /\ worker' = "closing" /\ ~Channel!EndMarked
      /\ FinishWorker => worker = "closing" /\ worker' = "finished" /\ Channel!EndMarked
      /\ ~aborting => Len(accepted) = Len(Stream)
  BY DEF IInv, CloseAfterReport, FinishWorker, WorkerInv, Idles, Channel!PlainCall,
         Channel!InsertCall, Channel!Idle
<1>3. ClientSide'
  BY <1>1, <1>2, ClientFrame DEF IInv, ClientSide
<1>4. Stream' = Stream
  BY <1>2 DEF Stream, Failure
<1>5. AcceptedIsPrefix'
  BY <1>1, <1>2, <1>4 DEF IInv, AcceptedIsPrefix, clientVars
<1>6. WorkerInv'
  <2>1. worker' \in {"closing", "finished"}
    BY DEF CloseAfterReport, FinishWorker
  <2>2. /\ ~aborting' => Len(accepted') = Len(Stream')
        /\ \/ Idles(Worker)' /\ Channel!EndMarked'
           \/ /\ worker' = "closing" /\ ~Channel!EndMarked'
              /\ call'[Worker] = Channel!PlainCall("close")
    BY <1>1, <1>2, <1>4 DEF Idles, clientVars, Channel!Idle
  <2> QED BY <2>1, <2>2 DEF WorkerInv, Idles, Channel!Idle, Channel!PlainCall
<1>7. AbortInv'
  BY <1>1, <1>2 DEF IInv, AbortInv, clientVars, CloseAfterReport, FinishWorker
<1> QED BY <1>3, <1>5, <1>6, <1>7 DEF WorkerSide

LEMMA WorkerInChannelPreserves ==
    ASSUME IInv, InChannel(Worker)
    PROVE  WorkerSide' /\ ClientSide'
<1>1. /\ UNCHANGED <<delivered, workerVars, clientVars>>
      /\ call'[Client] = call[Client] /\ result'[Client] = result[Client]
      /\ ~Idles(Worker) /\ ~Channel!EndMarked
  BY WorkerEffect
<1>2. Stream' = Stream
  BY <1>1 DEF workerVars, Stream, Failure
<1> DEFINE x == call[Worker].item
           n == Len(accepted)
<1>3. accepted \in Seq(Channel!Item) /\ n \in Nat
  BY ChannelState, LenProperties DEF IInv
<1>4. CASE UNCHANGED <<queue, accepted>> /\ call'[Worker] = call[Worker]
  <2>1. (Channel!EndMarked' <=> Channel!EndMarked) /\ (HasItem' <=> HasItem)
    BY <1>4 DEF Channel!EndMarked, Channel!CanTake, HasItem
  <2> QED BY <1>1, <1>4, <2>1, WorkerFrame, ClientFrame DEF IInv, WorkerSide, ClientSide, clientVars
<1>5. CASE /\ worker \in {"parsing", "reporting"}
           /\ Idles(Worker)' /\ ~Channel!EndMarked'
           /\ queue' = Append(queue, x)
           /\ accepted' = Append(accepted, x)
  <2>1. x \in Channel!Item
    BY <1>1, <1>5, Requests DEF IInv, WorkerInv, Idles
  <2>2. ClientSide'
    BY <1>1, <1>5, <2>1, AppendFacts, ClientFrame DEF IInv, ClientSide
  <2>3. /\ Len(accepted') = n + 1
        /\ \A i \in 1..n : accepted'[i] = accepted[i]
        /\ accepted'[n + 1] = x
    BY <1>3, <1>5, <2>1, AppendProperties
  <2>4. CASE worker = "parsing"
    <3>1. /\ position # 0 /\ n = position - 1 /\ x = text.events[position]
          /\ position \in 1..Len(text.events) /\ Len(text.events) \in Nat
          /\ x \in EventElement
      BY <1>1, <2>4, TextFacts, Requests, ElementOfSeq DEF IInv, WorkerInv
    <3>2. Len(Stream) \in Nat /\ Len(Stream) >= Len(text.events) /\ Stream[position] = x
      <4>1. Stream[position] = text.events[position]
        BY <3>1, StreamFacts DEF IInv
      <4>2. Len(Stream) = Len(text.events) \/ Len(Stream) = Len(text.events) + 1
        BY <3>1, StreamFacts DEF IInv
      <4> QED BY <3>1, <4>1, <4>2
    <3>3. AcceptedIsPrefix'
      BY <1>1, <1>2, <1>3, <2>3, <3>1, <3>2 DEF IInv, AcceptedIsPrefix, clientVars
    <3>4. WorkerInv'
      BY <1>1, <1>5, <2>3, <2>4, <3>1 DEF WorkerInv, workerVars
    <3>5. AbortInv'
      <4>1. aborting => n = insertedBeforeAbort
        BY <1>1, <2>4 DEF IInv, AbortInv
      <4> QED BY <1>1, <1>3, <1>5, <2>3, <2>4, <4>1 DEF AbortInv, clientVars, workerVars
    <3> QED BY <2>2, <3>3, <3>4, <3>5 DEF WorkerSide
  <2>5. CASE worker = "reporting"
    <3>1. /\ x \in {SyntaxError, ReaderError} /\ x \notin EventElement
          /\ ~aborting => n + 1 = Len(Stream) /\ Stream[Len(Stream)] = x
      BY <1>1, <2>5, Requests, ErrorAssumption DEF IInv, WorkerInv
    <3>2. Len(Stream) \in Nat
      BY StreamFacts DEF IInv
    <3>3. AcceptedIsPrefix'
      BY <1>1, <1>2, <1>3, <2>3, <3>1, <3>2 DEF IInv, AcceptedIsPrefix, clientVars
    <3>4. WorkerInv'
      BY <1>1, <1>2, <1>5, <2>3, <2>5, <3>1 DEF WorkerInv, workerVars, clientVars
    <3>5. AbortInv'
      <4>1. aborting => n <= insertedBeforeAbort + 1 /\ n >= insertedBeforeAbort
        BY <1>1, <2>5 DEF IInv, AbortInv
      <4>2. insertedBeforeAbort \in Nat
        BY DEF IInv, TypeOK
      <4> QED BY <1>1, <1>3, <1>5, <2>3, <2>5, <3>1, <4>1, <4>2 DEF AbortInv, clientVars, workerVars
    <3> QED BY <2>2, <3>3, <3>4, <3>5 DEF WorkerSide
  <2> QED BY <1>5, <2>4, <2>5
<1>6. CASE /\ worker = "closing"
           /\ Idles(Worker)' /\ Channel!EndMarked'
           /\ queue' = Append(queue, Nullopt)
           /\ UNCHANGED accepted
  <2>1. ClientSide'
    BY <1>1, <1>6, AppendFacts, ClientFrame DEF IInv, ClientSide
  <2>2. AcceptedIsPrefix' /\ AbortInv'
    BY <1>1, <1>2, <1>6 DEF IInv, AcceptedIsPrefix, AbortInv, clientVars, workerVars
  <2>3. WorkerInv'
    BY <1>1, <1>2, <1>6 DEF IInv, WorkerInv, clientVars, workerVars
  <2> QED BY <2>1, <2>2, <2>3 DEF WorkerSide
<1> QED BY <1>4, <1>5, <1>6, WorkerEffect

-----------------------------------------------------------------------------
(* The client                                                              *)

\* A step of the client that leaves the worker, the abort request and the
\* histories of the channel alone.
LEMMA ClientCallFrame ==
    ASSUME IInv, NEW c, Channel!Call(Client, c),
           UNCHANGED <<workerVars, aborting, insertedBeforeAbort>>
    PROVE  /\ WorkerSide'
           /\ UNCHANGED <<queue, accepted, delivered, result>>
           /\ call'[Client] = c
           /\ HasItem' <=> HasItem
<1>1. /\ UNCHANGED <<queue, waiting, result, accepted, delivered, closeDone>>
      /\ Channel!EndMarked' <=> Channel!EndMarked
      /\ HasItem' <=> HasItem
      /\ call'[Client] = c /\ call'[Worker] = call[Worker]
  BY CallEffect, Requests DEF IInv
<1> QED BY <1>1, WorkerFrame DEF IInv, WorkerSide

LEMMA BeginPreserves ==
    ASSUME IInv, Drain \/ HasNext \/ PeekElement \/ NextElement
    PROVE  WorkerSide' /\ ClientSide'
<1>1. Channel!Call(Client, Channel!PlainCall("closed"))
  BY DEF Drain, HasNext, PeekElement, NextElement, Begin, Ask
<1>2. UNCHANGED <<workerVars, aborting, insertedBeforeAbort, consumed>>
  BY DEF Drain, HasNext, PeekElement, NextElement, Begin
<1>3. /\ WorkerSide'
      /\ UNCHANGED <<queue, accepted, delivered, result>>
      /\ call'[Client] = Channel!PlainCall("closed")
      /\ HasItem' <=> HasItem
  BY <1>1, <1>2, ClientCallFrame
<1>4. /\ client' = "asking"
      /\ \/ client = "draining" /\ operation = "destroy" /\ UNCHANGED <<operation, held>>
         \/ /\ client = "outside" /\ operation = "none"
            /\ operation' \in {"has_next", "peek", "next"}
            /\ held' = held \/ held' = Nullopt
            /\ operation' = "next" => held' = Nullopt
  BY DEF IInv, OperationInv, Drain, HasNext, PeekElement, NextElement, Begin
<1>5. ClientInv'
  BY <1>3, <1>4 DEF IInv, ClientInv, Idles, Channel!Idle, Channel!PlainCall
<1>6. OperationInv'
  BY <1>2, <1>3, <1>4 DEF IInv, OperationInv, HasItem
<1>7. ConsumedInv'
  BY <1>2, <1>3, <1>4 DEF IInv, ConsumedInv
<1> QED BY <1>3, <1>5, <1>6, <1>7 DEF ClientSide

LEMMA DestroyPreserves ==
    ASSUME IInv, Destroy
    PROVE  WorkerSide' /\ ClientSide'
<1>1. /\ UNCHANGED <<queue, call, waiting, result, accepted, delivered, closeDone>>
      /\ Channel!EndMarked' <=> Channel!EndMarked
      /\ HasItem' <=> HasItem
  BY ChannelFrame DEF Destroy
<1>2. /\ UNCHANGED <<workerVars, consumed>>
      /\ client = "outside" /\ operation = "none" /\ ~aborting /\ Idles(Client)
      /\ client' = "draining" /\ operation' = "destroy" /\ aborting' = TRUE /\ held' = Nullopt
      /\ insertedBeforeAbort' = Len(accepted) /\ Len(accepted) \in Nat
  BY ChannelState, LenProperties DEF IInv, ClientInv, OperationInv, Destroy, TypeOK
<1>3. AcceptedIsPrefix'
  BY <1>2 DEF AcceptedIsPrefix
<1>4. WorkerInv'
  BY <1>1, <1>2 DEF IInv, WorkerInv, workerVars, Idles, Channel!Idle, Channel!InsertCall, Channel!PlainCall
<1>5. AbortInv'
  BY <1>1, <1>2 DEF AbortInv
<1>6. ClientInv' /\ OperationInv' /\ ConsumedInv'
  BY <1>1, <1>2 DEF IInv, ClientInv, OperationInv, ConsumedInv, Idles, Channel!Idle
<1> QED BY <1>3, <1>4, <1>5, <1>6 DEF WorkerSide, ClientSide

LEMMA HearOpenPreserves ==
    ASSUME IInv, HearOpen
    PROVE  WorkerSide' /\ ClientSide'
<1>1. /\ client = "asking" /\ Idles(Client) /\ result[Client] = "open" /\ HasItem
      /\ UNCHANGED <<aborting, consumed, held, insertedBeforeAbort, workerVars>>
  BY DEF IInv, ClientInv, HearOpen, Idles, Channel!Idle, Channel!PlainCall
<1>2. CASE operation = "has_next"
  <2>1. client' = "outside" /\ operation' = "none" /\ UNCHANGED channelVars
    BY <1>2 DEF HearOpen, Leave
  <2>2. /\ UNCHANGED <<queue, call, waiting, result, accepted, delivered, closeDone>>
        /\ Channel!EndMarked' <=> Channel!EndMarked
        /\ HasItem' <=> HasItem
    BY <2>1, ChannelFrame
  <2>3. WorkerSide'
    BY <1>1, <2>2, WorkerFrame DEF IInv, WorkerSide
  <2>4. ClientInv'
    BY <1>1, <2>1, <2>2 DEF IInv, ClientInv, Idles, Channel!Idle
  <2>5. OperationInv'
    BY <1>1, <1>2, <2>1, <2>2 DEF IInv, OperationInv, HasItem
  <2>6. ConsumedInv'
    BY <1>1, <2>1, <2>2 DEF IInv, ConsumedInv
  <2> QED BY <2>3, <2>4, <2>5, <2>6 DEF ClientSide
<1>3. CASE operation # "has_next"
  <2> DEFINE c == Channel!PlainCall(IF operation = "peek" THEN "peek" ELSE "take")
  <2>1. client' = "acting" /\ UNCHANGED <<operation, answer>> /\ Channel!Call(Client, c)
    BY <1>3 DEF HearOpen, Leave
  <2>2. /\ WorkerSide'
        /\ UNCHANGED <<queue, accepted, delivered, result>>
        /\ call'[Client] = c
        /\ HasItem' <=> HasItem
    BY <1>1, <2>1, ClientCallFrame
  <2>3. ClientInv'
    BY <1>1, <2>1, <2>2 DEF IInv, ClientInv
  <2>4. OperationInv'
    BY <1>1, <1>3, <2>1, <2>2 DEF IInv, OperationInv, HasItem
  <2>5. ~Idles(Client)'
    BY <2>2 DEF Idles, Channel!Idle, Channel!PlainCall
  <2>6. ConsumedInv'
    BY <1>1, <2>1, <2>2, <2>5 DEF IInv, ConsumedInv
  <2> QED BY <2>2, <2>3, <2>4, <2>6 DEF ClientSide
<1> QED BY <1>2, <1>3

LEMMA HearClosedPreserves ==
    ASSUME IInv, HearClosed
    PROVE  WorkerSide' /\ ClientSide'
<1>1. /\ UNCHANGED <<queue, call, waiting, result, accepted, delivered, closeDone>>
      /\ Channel!EndMarked' <=> Channel!EndMarked
      /\ HasItem' <=> HasItem
  BY ChannelFrame DEF HearClosed
<1>2. /\ client = "asking" /\ Idles(Client)
      /\ UNCHANGED <<aborting, consumed, held, insertedBeforeAbort, workerVars>>
      /\ \/ client' = "outside" /\ operation \in {"has_next", "peek", "next"} /\ operation' = "none"
         \/ client' = "joining" /\ operation = "destroy" /\ UNCHANGED operation
  BY DEF HearClosed, Leave
<1>3. WorkerSide'
  BY <1>1, <1>2, WorkerFrame DEF IInv, WorkerSide
<1>4. ClientInv'
  BY <1>1, <1>2 DEF IInv, ClientInv, Idles, Channel!Idle
<1>5. OperationInv'
  BY <1>1, <1>2 DEF IInv, OperationInv, HasItem
<1>6. ConsumedInv'
  BY <1>1, <1>2 DEF IInv, ConsumedInv
<1> QED BY <1>3, <1>4, <1>5, <1>6 DEF ClientSide

LEMMA ReturnPreserves ==
    ASSUME IInv, ReturnPeek \/ ReturnNext \/ ReturnDrain
    PROVE  WorkerSide' /\ ClientSide'
<1>1. /\ UNCHANGED <<queue, call, waiting, result, accepted, delivered, closeDone>>
      /\ Channel!EndMarked' <=> Channel!EndMarked
      /\ HasItem' <=> HasItem
  BY ChannelFrame DEF ReturnPeek, ReturnNext, ReturnDrain, Acted
<1>2. client = "acting" /\ Idles(Client) /\ UNCHANGED <<aborting, insertedBeforeAbort, workerVars>>
  BY DEF ReturnPeek, ReturnNext, ReturnDrain, Acted
<1>3. \/ operation = "peek" /\ HasItem /\ result[Client] = Head(queue)
      \/ operation # "peek" /\ result[Client] = "void"
  BY <1>2 DEF IInv, ClientInv, Idles, Channel!Idle, Channel!PlainCall
<1>4. WorkerSide'
  BY <1>1, <1>2, WorkerFrame DEF IInv, WorkerSide
<1>5. CASE ReturnPeek
  <2>1. /\ operation = "peek" /\ operation' = "none" /\ client' = "outside" /\ UNCHANGED consumed
        /\ held' = result[Client] \/ held' = Nullopt
    BY <1>5 DEF ReturnPeek, Acted, Leave
  <2>2. ClientInv'
    BY <1>1, <1>2, <2>1 DEF IInv, ClientInv, Idles, Channel!Idle
  <2>3. OperationInv'
    BY <1>1, <1>2, <1>3, <2>1 DEF IInv, OperationInv, HasItem
  <2>4. ConsumedInv'
    BY <1>1, <1>2, <2>1 DEF IInv, ConsumedInv
  <2> QED BY <1>4, <2>2, <2>3, <2>4 DEF ClientSide
<1>6. CASE ReturnNext
  <2>1. /\ operation = "next" /\ operation' = "none" /\ client' = "outside" /\ UNCHANGED held
        /\ result[Client] = "void" /\ consumed' = consumed + 1
    BY <1>3, <1>6 DEF ReturnNext, Acted, Leave
  <2>2. ClientInv'
    BY <1>1, <1>2, <2>1 DEF IInv, ClientInv, Idles, Channel!Idle
  <2>3. OperationInv'
    BY <1>1, <1>2, <2>1 DEF IInv, OperationInv, HasItem
  <2>4. ConsumedInv'
    BY <1>1, <1>2, <2>1 DEF IInv, ConsumedInv
  <2> QED BY <1>4, <2>2, <2>3, <2>4 DEF ClientSide
<1>7. CASE ReturnDrain
  <2>1. /\ operation = "destroy" /\ client' = "draining" /\ UNCHANGED <<operation, consumed, held>>
        /\ aborting
    BY <1>3, <1>7 DEF IInv, OperationInv, ReturnDrain, Acted
  <2>2. ClientInv'
    BY <1>1, <1>2, <2>1 DEF IInv, ClientInv, Idles, Channel!Idle
  <2>3. OperationInv'
    BY <1>1, <1>2, <2>1 DEF IInv, OperationInv, HasItem
  <2>4. ConsumedInv'
    BY <1>2, <2>1 DEF ConsumedInv
  <2> QED BY <1>4, <2>2, <2>3, <2>4 DEF ClientSide
<1> QED BY <1>5, <1>6, <1>7

LEMMA JoinPreserves ==
    ASSUME IInv, Join
    PROVE  WorkerSide' /\ ClientSide'
<1>1. /\ UNCHANGED <<queue, call, waiting, result, accepted, delivered, closeDone>>
      /\ Channel!EndMarked' <=> Channel!EndMarked
      /\ HasItem' <=> HasItem
  BY ChannelFrame DEF Join
<1>2. /\ client = "joining" /\ client' = "gone" /\ operation' = "none" /\ operation = "destroy" /\ aborting
      /\ UNCHANGED <<aborting, consumed, held, insertedBeforeAbort, workerVars>>
  BY DEF IInv, OperationInv, Join
<1>3. WorkerSide'
  BY <1>1, <1>2, WorkerFrame DEF IInv, WorkerSide
<1>4. ClientInv' /\ OperationInv' /\ ConsumedInv'
  BY <1>1, <1>2 DEF IInv, ClientInv, OperationInv, ConsumedInv, HasItem, Idles, Channel!Idle
<1> QED BY <1>3, <1>4 DEF ClientSide

LEMMA ClientInChannelPreserves ==
    ASSUME IInv, InChannel(Client)
    PROVE  WorkerSide' /\ ClientSide'
<1>1. /\ UNCHANGED <<accepted, workerVars, clientVars>>
      /\ call'[Worker] = call[Worker]
      /\ ~Idles(Client)
      /\ Channel!EndMarked' <=> Channel!EndMarked
  BY ClientEffect
<1>2. WorkerSide'
  BY <1>1, WorkerFrame DEF IInv, WorkerSide, clientVars
<1>3. delivered \in Seq(Channel!Item) /\ Len(delivered) \in Nat
  BY ChannelState, LenProperties DEF IInv
<1>4. ASSUME UNCHANGED queue PROVE HasItem' <=> HasItem
  BY <1>4 DEF HasItem
<1>5. CASE /\ UNCHANGED <<queue, delivered>>
           /\ call'[Client] = call[Client] /\ result'[Client] = result[Client]
  BY <1>1, <1>2, <1>4, <1>5, ClientFrame DEF IInv, ClientSide
<1>6. CASE /\ client = "asking" /\ Idles(Client)'
           /\ UNCHANGED <<queue, delivered>>
           /\ result'[Client] = "closed" \/ (result'[Client] = "open" /\ HasItem)
  <2>1. ClientInv'
    BY <1>1, <1>4, <1>6 DEF IInv, ClientInv, clientVars
  <2>2. OperationInv'
    BY <1>1, <1>4, <1>6 DEF IInv, OperationInv, clientVars
  <2>3. ConsumedInv'
    BY <1>1, <1>6 DEF IInv, ConsumedInv, clientVars
  <2> QED BY <1>2, <2>1, <2>2, <2>3 DEF ClientSide
<1>7. CASE /\ client = "acting" /\ operation = "peek" /\ Idles(Client)'
           /\ UNCHANGED <<queue, delivered>>
           /\ HasItem /\ result'[Client] = Head(queue)
  <2>1. result'[Client] \in Channel!Item /\ result'[Client] # "logic_error"
    BY <1>7, QueueFacts, SignalAssumption DEF IInv, Channel!Signal
  <2>2. ClientInv'
    BY <1>1, <1>4, <1>7, <2>1 DEF IInv, ClientInv, clientVars
  <2>3. OperationInv'
    BY <1>1, <1>4, <1>7 DEF IInv, OperationInv, clientVars
  <2>4. ConsumedInv'
    BY <1>1, <1>7 DEF IInv, ConsumedInv, clientVars
  <2> QED BY <1>2, <2>2, <2>3, <2>4 DEF ClientSide
<1>8. CASE /\ client = "acting" /\ operation # "peek" /\ Idles(Client)'
           /\ HasItem /\ queue' = Tail(queue)
           /\ delivered' = Append(delivered, Head(queue))
           /\ result'[Client] = "void"
  <2>1. Len(delivered') = Len(delivered) + 1
    BY <1>3, <1>8, QueueFacts, AppendProperties DEF IInv
  <2>2. operation \in {"next", "destroy"} /\ held = Nullopt
    BY <1>8 DEF IInv, TypeOK, OperationInv
  <2>3. ClientInv'
    BY <1>1, <1>8 DEF IInv, ClientInv, clientVars
  <2>4. OperationInv'
    BY <1>1, <1>8, <2>2 DEF IInv, OperationInv, clientVars
  <2>5. ConsumedInv'
    <3>1. ~aborting => Len(delivered) = consumed /\ operation = "next"
      BY <1>1, <1>8, <2>2 DEF IInv, OperationInv, ConsumedInv
    <3> QED BY <1>1, <1>8, <2>1, <3>1 DEF ConsumedInv, clientVars
  <2> QED BY <1>2, <2>3, <2>4, <2>5 DEF ClientSide
<1> QED BY <1>5, <1>6, <1>7, <1>8, ClientEffect

-----------------------------------------------------------------------------
(* The invariant                                                           *)

LEMMA QuietPreserves ==
    ASSUME IInv, SpuriousWakeup \/ Terminated \/ UNCHANGED vars
    PROVE  WorkerSide' /\ ClientSide'
<1>1. /\ UNCHANGED <<queue, call, result, accepted, delivered>>
      /\ UNCHANGED <<workerVars, clientVars>>
  BY DEF SpuriousWakeup, Channel!SpuriousWakeup, Terminated, vars, channelVars
<1>2. (Channel!EndMarked' <=> Channel!EndMarked) /\ (HasItem' <=> HasItem)
  BY <1>1 DEF Channel!EndMarked, Channel!CanTake, HasItem
<1> QED BY <1>1, <1>2, WorkerFrame, ClientFrame DEF IInv, WorkerSide, ClientSide, clientVars

LEMMA SidesPreserved ==
    ASSUME IInv, [Next]_vars
    PROVE  WorkerSide' /\ ClientSide'
<1>1. CASE WorkerStep
  BY <1>1, HandleEventPreserves, FinishPreserves, EndOfWorkerPreserves, WorkerInChannelPreserves
     DEF WorkerStep
<1>2. CASE ClientStep
  BY <1>2, BeginPreserves, HearClosedPreserves, HearOpenPreserves, ReturnPreserves, JoinPreserves,
     ClientInChannelPreserves DEF ClientStep
<1>3. CASE ClientCall
  BY <1>3, BeginPreserves, DestroyPreserves DEF ClientCall
<1> QED BY <1>1, <1>2, <1>3, QuietPreserves DEF Next

LEMMA TypesPreserved ==
    ASSUME IInv, [Next]_vars
    PROVE  TypeOK'
<1>1. Channel!TypeOK'
  BY ChannelInvPreserved DEF IInv, ChannelFacts!TypeOK, Channel!TypeOK, Channel!Idle,
     ChannelFacts!Idle, Channel!Request, ChannelFacts!Request, Channel!Item, ChannelFacts!Item,
     Channel!Signal, ChannelFacts!Signal, Channel!Outcome, ChannelFacts!Outcome
<1>2. /\ TypeOK
      /\ result[Client] \in Channel!Outcome
      /\ Len(accepted) \in Nat
      /\ position \in Nat /\ Len(text.events) \in Nat
  BY ChannelState, TextFacts, LenProperties DEF IInv
<1> DEFINE OwnTypes ==
        /\ text \in Text
        /\ position \in 0..Len(text.events)
        /\ worker \in {"parsing", "reporting", "closing", "finished"}
        /\ aborting \in BOOLEAN
        /\ operation \in {"none", "has_next", "peek", "next", "destroy"}
        /\ client \in {"outside", "asking", "acting", "draining", "joining", "gone", "terminated"}
        /\ answer \in Channel!Outcome \cup {"yes", "no"}
        /\ consumed \in Nat
        /\ held \in EventElement \cup {Nullopt}
        /\ insertedBeforeAbort \in Nat
<1>3. OwnTypes /\ "logic_error" \in Channel!Outcome /\ "void" \in Channel!Outcome
  BY <1>2 DEF TypeOK, Channel!Outcome, Channel!Signal
<1> SUFFICES OwnTypes'
  BY <1>1 DEF TypeOK
<1>4. ASSUME UNCHANGED <<workerVars, clientVars>> PROVE OwnTypes'
  BY <1>3, <1>4 DEF workerVars, clientVars
<1>5. CASE WorkerStep
  <2>1. ASSUME HandleEvent \/ RefuseEvent \/ FinishParse \/ CloseAfterReport \/ FinishWorker
        PROVE  OwnTypes'
    BY <1>2, <1>3, <2>1 DEF HandleEvent, RefuseEvent, FinishParse, CloseAfterReport, FinishWorker, clientVars
  <2> QED BY <1>4, <1>5, <2>1 DEF WorkerStep, InChannel
<1>6. CASE ClientStep
  <2>1. ASSUME Drain \/ HearClosed \/ HearOpen \/ Join PROVE OwnTypes'
    BY <1>3, <2>1 DEF Drain, HearClosed, HearOpen, Join, Leave, workerVars
  <2>2. ASSUME ReturnPeek \/ ReturnNext \/ ReturnDrain PROVE OwnTypes'
    BY <1>2, <1>3, <2>2 DEF ReturnPeek, ReturnNext, ReturnDrain, Acted, Leave, workerVars
  <2> QED BY <1>4, <1>6, <2>1, <2>2 DEF ClientStep, InChannel
<1>7. CASE ClientCall
  BY <1>2, <1>3, <1>7 DEF ClientCall, HasNext, PeekElement, NextElement, Begin, Destroy, workerVars
<1>8. CASE SpuriousWakeup \/ Terminated \/ UNCHANGED vars
  BY <1>4, <1>8 DEF SpuriousWakeup, Terminated, vars
<1> HIDE DEF OwnTypes
<1> QED BY <1>5, <1>6, <1>7, <1>8 DEF Next

LEMMA InitEstablishes == Init => IInv
<1> SUFFICES ASSUME Init PROVE IInv
  OBVIOUS
<1>1. ChannelFacts!IInv
  BY SameChannel, ChannelAssumptions, ChannelFacts!InitEstablishes DEF Init
<1>2. Channel!TypeOK
  BY <1>1, SameChannel DEF ChannelFacts!IInv
<1>3. Len(text.events) \in Nat
  <2>1. PICK n \in 0..Len(Event) : text.events = SubSeq(Event, 1, n)
    BY DEF Init, Text
  <2>2. \A i \in 1..n : Event[i] \in EventElement
    BY EventAssumption, LenProperties DEF EventElement
  <2>3. n \in Int /\ 1 \in Int
    BY EventAssumption, LenProperties
  <2>4. text.events \in Seq(EventElement)
    BY <2>1, <2>2, <2>3, SubSeqProperties
  <2> QED BY <2>4, LenProperties
<1>4. TypeOK
  <2>1. "none" \in Channel!Outcome
    BY DEF Channel!Outcome, Channel!Signal
  <2>2. position \in 0..Len(text.events)
    BY <1>3 DEF Init
  <2> QED BY <1>2, <2>1, <2>2 DEF Init, TypeOK
<1>5. /\ queue = <<>> /\ accepted = <<>> /\ delivered = <<>>
      /\ Len(accepted) = 0 /\ Len(delivered) = 0
      /\ call[Client] = Channel!Idle /\ call[Worker] = Channel!Idle
      /\ result[Client] = "none"
  BY EmptySeq DEF Init, Channel!Init
<1>6. AcceptedIsPrefix
  BY <1>4, <1>5, StreamFacts DEF AcceptedIsPrefix
<1>7. WorkerInv
  BY <1>5 DEF Init, WorkerInv, Idles, Channel!EndMarked, Channel!CanTake
<1>8. ClientInv /\ OperationInv /\ ConsumedInv /\ AbortInv
  BY <1>5 DEF Init, ClientInv, OperationInv, ConsumedInv, AbortInv, Idles
<1> QED BY <1>1, <1>4, <1>6, <1>7, <1>8 DEF IInv

\* The inductive invariant holds in every reachable state.
THEOREM Invariance == Spec => []IInv
<1>1. IInv /\ [Next]_vars => IInv'
  BY ChannelInvPreserved, TypesPreserved, SidesPreserved DEF IInv, WorkerSide, ClientSide
<1> QED BY InitEstablishes, <1>1, PTL DEF Spec

-----------------------------------------------------------------------------
(* What the invariant shows                                                *)

\* The variables hold values of their types in every reachable state.
THEOREM TypeCorrectness == Spec => []TypeOK
<1>1. IInv => TypeOK
  BY DEF IInv
<1> QED BY <1>1, Invariance, PTL

\* What has_next() found is still true when peek(), next() and ~impl() act on it:
\* the channel throws no logic_error, and the destructor does not terminate the
\* program.
THEOREM ChecksStayTrue == Spec => []OpenStaysOpen
<1>1. IInv => OpenStaysOpen
  BY DEF IInv, ClientInv, OpenStaysOpen
<1> QED BY <1>1, Invariance, PTL

\* The reference that peek() returned denotes the front entry until the client
\* moves on.
THEOREM ReferencesStayValid == Spec => []PeekedReferenceStaysValid
<1>1. IInv => PeekedReferenceStaysValid
  BY DEF IInv, OperationInv, HasItem, PeekedReferenceStaysValid
<1> QED BY <1>1, Invariance, PTL

\* Behind an abort the channel accepts one element at most, and one exception.
THEOREM AbortIsPrompt == Spec => []AbortStopsParsing
<1>1. IInv => AbortStopsParsing
  <2> SUFFICES ASSUME IInv, aborting PROVE
        /\ Len(accepted) <= insertedBeforeAbort + 2
        /\ \A i \in insertedBeforeAbort + 2..Len(accepted) : accepted[i] \notin EventElement
    BY DEF AbortStopsParsing
  <2>1. Len(accepted) \in Nat /\ insertedBeforeAbort \in Nat
    BY ChannelState, LenProperties DEF IInv, TypeOK
  <2>2. /\ Len(accepted) <= insertedBeforeAbort + 2
        /\ Len(accepted) = insertedBeforeAbort + 2 => accepted[Len(accepted)] \notin EventElement
    BY DEF IInv, AbortInv
  <2> QED BY <2>1, <2>2
<1> QED BY <1>1, Invariance, PTL

-----------------------------------------------------------------------------
(* The parser implements a stream that is pulled                           *)

\* How far the client is in the stream, seen from the channel.
LEMMA PlaceInStream ==
    ASSUME IInv, ~aborting
    PROVE  /\ consumed \in Nat /\ Len(Stream) \in Nat
           /\ Idles(Client) /\ client = "asking" /\ result[Client] = "open" => consumed < Len(Stream)
           /\ Idles(Client) /\ client = "asking" /\ result[Client] = "closed" => consumed = Len(Stream)
           /\ Idles(Client) /\ client = "acting" /\ operation = "peek" =>
                 consumed < Len(Stream) /\ result[Client] = Stream[consumed + 1]
           /\ Idles(Client) /\ client = "acting" /\ operation = "next" =>
                 consumed < Len(Stream) /\ result[Client] = "void"
<1>1. /\ consumed \in Nat /\ Len(Stream) \in Nat
      /\ Len(accepted) \in Nat /\ Len(delivered) \in Nat
      /\ Len(accepted) <= Len(Stream)
      /\ \A i \in 1..Len(accepted) : accepted[i] = Stream[i]
  BY ChannelState, StreamFacts, LenProperties DEF IInv, TypeOK, AcceptedIsPrefix
<1>2. Len(delivered) <= Len(accepted)
  <2>1. /\ ChannelFacts!Pending \in Seq(ChannelFacts!Item)
        /\ accepted = delivered \o ChannelFacts!Pending
        /\ delivered \in Seq(ChannelFacts!Item)
    BY ChannelAssumptions, ChannelFacts!QueueView
       DEF IInv, ChannelFacts!IInv, ChannelFacts!FirstInFirstOut, ChannelFacts!TypeOK
  <2>2. Len(ChannelFacts!Pending) \in Nat
    BY <2>1, LenProperties
  <2>3. Len(accepted) = Len(delivered) + Len(ChannelFacts!Pending)
    BY <2>1, ConcatProperties
  <2> QED BY <1>1, <2>2, <2>3
<1>3. HasItem => Len(delivered) < Len(accepted) /\ Head(queue) = accepted[Len(delivered) + 1]
  BY QueueFacts DEF IInv
<1>4. ~(client = "acting" /\ operation = "next" /\ Idles(Client)) => Len(delivered) = consumed
  BY DEF IInv, ConsumedInv
<1>5. ASSUME Idles(Client), client = "asking", result[Client] = "open" PROVE consumed < Len(Stream)
  <2>1. HasItem
    BY <1>5 DEF IInv, ClientInv, Idles, Channel!Idle, Channel!PlainCall
  <2> QED BY <1>1, <1>3, <1>4, <1>5, <2>1
<1>6. ASSUME Idles(Client), client = "asking", result[Client] = "closed"
      PROVE  consumed = Len(Stream)
  <2>1. delivered = accepted /\ queue = <<Nullopt>>
    BY <1>6, ChannelState DEF IInv
  <2>2. Channel!EndMarked
    BY <2>1 DEF Channel!EndMarked, Channel!CanTake
  <2>3. Len(accepted) = Len(Stream)
    BY <2>2 DEF IInv, TypeOK, WorkerInv
  <2> QED BY <1>4, <1>6, <2>1, <2>3
<1>7. ASSUME Idles(Client), client = "acting", operation = "peek"
      PROVE  consumed < Len(Stream) /\ result[Client] = Stream[consumed + 1]
  <2>1. HasItem /\ result[Client] = Head(queue)
    BY <1>7 DEF IInv, ClientInv, Idles, Channel!Idle, Channel!PlainCall
  <2> QED BY <1>1, <1>3, <1>4, <1>7, <2>1
<1>8. ASSUME Idles(Client), client = "acting", operation = "next"
      PROVE  consumed < Len(Stream) /\ result[Client] = "void"
  <2>1. result[Client] = "void"
    BY <1>8 DEF IInv, ClientInv, Idles, Channel!Idle, Channel!PlainCall
  <2>2. Len(delivered) = consumed + 1
    BY <1>8 DEF IInv, ConsumedInv
  <2> QED BY <1>1, <1>2, <2>1, <2>2
<1> QED BY <1>1, <1>5, <1>6, <1>7, <1>8

LEMMA HearImplements ==
    ASSUME IInv, HearClosed \/ HearOpen, Stream' = Stream
    PROVE  [Abstract!Next]_(Abstract!vars)
<1>1. /\ client = "asking" /\ Idles(Client) /\ result[Client] \in {"closed", "open"}
      /\ UNCHANGED consumed
  BY DEF HearClosed, HearOpen
<1>2. CASE operation \in {"has_next", "peek", "next"}
  <2>1. ~aborting
    BY <1>1, <1>2 DEF IInv, OperationInv
  <2>2. /\ result[Client] = "closed" => Abstract!AtEnd
        /\ result[Client] = "open" => ~Abstract!AtEnd
    BY <1>1, <2>1, PlaceInStream DEF Abstract!AtEnd
  <2>3. CASE HearClosed
    BY <1>1, <1>2, <2>2, <2>3 DEF HearClosed, Leave, Abstract!Next, Abstract!HasNext, Abstract!Peek,
       Abstract!NextEntry, Abstract!Return
  <2>4. CASE HearOpen
    BY <1>1, <1>2, <2>2, <2>4 DEF HearOpen, Leave, Abstract!Next, Abstract!HasNext, Abstract!Return,
       Abstract!vars
  <2> QED BY <2>3, <2>4
<1>3. CASE operation = "destroy"
  BY <1>1, <1>3 DEF HearClosed, HearOpen, Leave, Abstract!vars
<1> QED BY <1>1, <1>2, <1>3 DEF IInv, TypeOK, OperationInv

LEMMA ReturnImplements ==
    ASSUME IInv, ReturnPeek \/ ReturnNext \/ ReturnDrain, Stream' = Stream
    PROVE  [Abstract!Next]_(Abstract!vars)
<1>1. client = "acting" /\ Idles(Client)
  BY DEF ReturnPeek, ReturnNext, ReturnDrain, Acted
<1>2. CASE ReturnPeek
  <2>1. operation = "peek" /\ ~aborting
    BY <1>1, <1>2 DEF IInv, OperationInv, ReturnPeek, Acted
  <2>2. ~Abstract!AtEnd /\ result[Client] = Stream[consumed + 1]
    BY <1>1, <2>1, PlaceInStream DEF Abstract!AtEnd
  <2> QED BY <1>1, <1>2, <2>1, <2>2 DEF ReturnPeek, Leave, Abstract!Next, Abstract!Peek, Abstract!Return
<1>3. CASE ReturnNext
  <2>1. operation = "next" /\ ~aborting
    BY <1>1, <1>3 DEF IInv, OperationInv, ReturnNext, Acted
  <2>2. ~Abstract!AtEnd /\ result[Client] = "void"
    BY <1>1, <2>1, PlaceInStream DEF Abstract!AtEnd
  <2> QED BY <1>1, <1>3, <2>1, <2>2
          DEF ReturnNext, Leave, Abstract!Next, Abstract!NextEntry, Abstract!Return
<1>4. CASE ReturnDrain
  BY <1>1, <1>4 DEF ReturnDrain, Abstract!vars
<1> QED BY <1>2, <1>3, <1>4

\* Whatever the threads do, the client sees the functions of a stream that holds
\* the elements of the text and the exception: has_next() and peek() tell what
\* comes next, next() moves on, and nothing is lost, repeated or out of order.
THEOREM ParserImplementsStream == Spec => AbstractSafety
<1>1. Init => Abstract!Init
  BY DEF Init, Abstract!Init
<1>2. IInv /\ [Next]_vars => [Abstract!Next]_(Abstract!vars)
  <2> SUFFICES ASSUME IInv, [Next]_vars PROVE [Abstract!Next]_(Abstract!vars)
    OBVIOUS
  <2>1. text' = text
    BY DEF Next, vars, workerVars, WorkerStep, HandleEvent, RefuseEvent, FinishParse,
       CloseAfterReport, FinishWorker, InChannel, ClientStep, Drain, HearClosed, HearOpen,
       ReturnPeek, ReturnNext, ReturnDrain, Acted, Join, ClientCall, HasNext, PeekElement,
       NextElement, Begin, Destroy, SpuriousWakeup, Terminated
  <2>2. Stream' = Stream
    BY <2>1 DEF Stream, Failure
  <2>3. CASE WorkerStep \/ InChannel(Client) \/ SpuriousWakeup \/ Terminated \/ UNCHANGED vars
    BY <2>2, <2>3 DEF WorkerStep, HandleEvent, RefuseEvent, FinishParse, CloseAfterReport,
       FinishWorker, InChannel, SpuriousWakeup, Terminated, vars, clientVars, Abstract!vars
  <2>4. CASE ClientCall
    BY <2>2, <2>4 DEF IInv, OperationInv, ClientCall, HasNext, PeekElement, NextElement, Begin,
       Destroy, Abstract!Next, Abstract!Begin
  <2>5. CASE Drain
    BY <2>2, <2>5 DEF Drain, Abstract!vars
  <2>6. CASE Join
    <3>1. operation = "destroy"
      BY <2>6 DEF IInv, OperationInv, Join
    <3> QED BY <2>2, <2>6, <3>1 DEF Join, Abstract!Next, Abstract!Destroy, Abstract!Return
  <2> QED BY <2>2, <2>3, <2>4, <2>5, <2>6, HearImplements, ReturnImplements DEF Next, ClientStep
<1> QED BY <1>1, <1>2, Invariance, PTL DEF Spec, AbstractSafety, Abstract!Safety
=============================================================================
