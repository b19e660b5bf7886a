--------------------------- MODULE ChannelProofs ---------------------------
(***************************************************************************)
(* The safety properties of the channel, for every set of threads, every   *)
(* set of items and every capacity.                                        *)
(***************************************************************************)
EXTENDS Channel, SequenceTheorems, TLAPS

LEMMA RequestFacts ==
    /\ Idle \notin Request
    /\ \A c \in Request : /\ c.op \in {"insert", "peek", "take", "closed", "close"}
                          /\ c.op = "insert" => c.item \in Item
    /\ Idle.op = "none"
BY DEF Request, Idle

LEMMA LengthFacts ==
    ASSUME NEW S, NEW s \in Seq(S)
    PROVE  /\ Len(s) \in Nat
           /\ s = <<>> <=> Len(s) = 0
BY LenProperties, EmptySeq

-----------------------------------------------------------------------------
(* Queues with an end marker. WellMarked, Marked and Unmarked are          *)
(* EndMarkerIsLast, EndMarked and Pending of any sequence.                 *)

WellMarked(q) == \A i \in 1..Len(q) : q[i] = Nullopt => i = Len(q)

Marked(q) == q # <<>> /\ q[Len(q)] = Nullopt

Unmarked(q) == IF Marked(q) THEN SubSeq(q, 1, Len(q) - 1) ELSE q

Entry == Item \cup {Nullopt}

LEMMA NamesOfQueue ==
    /\ EndMarked <=> Marked(queue)
    /\ EndMarked' <=> Marked(queue')
    /\ Pending = Unmarked(queue)
    /\ Pending' = Unmarked(queue')
    /\ EndMarkerIsLast <=> WellMarked(queue)
    /\ EndMarkerIsLast' <=> WellMarked(queue')
BY DEF EndMarked, CanTake, Marked, Pending, Unmarked, EndMarkerIsLast, WellMarked

\* The entries before the end marker are items.
LEMMA UnmarkedProperties ==
    ASSUME NEW q \in Seq(Entry), WellMarked(q)
    PROVE  /\ Unmarked(q) \in Seq(Item)
           /\ Len(q) = Len(Unmarked(q)) + (IF Marked(q) THEN 1 ELSE 0)
           /\ \A i \in 1..Len(Unmarked(q)) : Unmarked(q)[i] = q[i]
<1>0. /\ Len(q) \in Nat
      /\ \A i \in 1..Len(q) : q[i] \in Entry
  BY LenProperties, ElementOfSeq
<1>1. CASE Marked(q)
  <2> DEFINE n == Len(q) - 1
  <2>1. n \in Nat
    BY <1>0, <1>1, EmptySeq DEF Marked
  <2>2. \A i \in 1..n : q[i] \in Item
    BY <1>0, <2>1 DEF WellMarked, Entry
  <2>3. /\ SubSeq(q, 1, n) \in Seq(Item)
        /\ Len(SubSeq(q, 1, n)) = n
        /\ \A i \in 1..n : SubSeq(q, 1, n)[i] = q[i]
    <3>1. \A i \in 1..n : q[i] \in Item
      BY <2>2
    <3>2. n \in Int /\ 1 \in Int
      BY <2>1
    <3> HIDE DEF n
    <3>3. /\ SubSeq(q, 1, n) \in Seq(Item)
          /\ Len(SubSeq(q, 1, n)) = IF 1 <= n THEN n - 1 + 1 ELSE 0
          /\ \A i \in 1..n - 1 + 1 : SubSeq(q, 1, n)[i] = q[1 + i - 1]
      BY <3>1, <3>2, SubSeqProperties
    <3> QED BY <2>1, <3>3
  <2> QED BY <1>0, <1>1, <2>1, <2>3 DEF Unmarked
<1>2. CASE ~Marked(q)
  <2>1. \A i \in 1..Len(q) : q[i] \in Item
    BY <1>0, <1>2 DEF WellMarked, Entry, Marked
  <2>2. q \in Seq(Item)
    BY <2>1, <1>0, LenProperties, SeqDef
  <2> QED BY <1>0, <1>2, <2>2 DEF Unmarked
<1> QED BY <1>1, <1>2

\* Appending behind a queue that is not marked.
LEMMA AppendToUnmarked ==
    ASSUME NEW q \in Seq(Entry), WellMarked(q), ~Marked(q), NEW x \in Entry
    PROVE  /\ Append(q, x) \in Seq(Entry)
           /\ Len(Append(q, x)) = Len(q) + 1
           /\ WellMarked(Append(q, x))
           /\ Marked(Append(q, x)) <=> x = Nullopt
           /\ Unmarked(Append(q, x)) = IF x = Nullopt THEN q ELSE Append(q, x)
<1>0. Len(q) \in Nat
  BY LenProperties
<1>1. /\ Append(q, x) \in Seq(Entry)
      /\ Append(q, x) # <<>>
      /\ Len(Append(q, x)) = Len(q) + 1
      /\ \A i \in 1..Len(q) : Append(q, x)[i] = q[i]
      /\ Append(q, x)[Len(q) + 1] = x
  BY AppendProperties
<1>2. \A i \in 1..Len(q) : q[i] # Nullopt
  BY <1>0, EmptySeq DEF WellMarked, Marked
<1>3. WellMarked(Append(q, x))
  BY <1>0, <1>1, <1>2 DEF WellMarked
<1>4. Marked(Append(q, x)) <=> x = Nullopt
  BY <1>1 DEF Marked
<1>5. SubSeq(Append(q, x), 1, Len(q)) = q
  <2> DEFINE s == SubSeq(Append(q, x), 1, Len(q))
  <2>1. /\ s \in Seq(Entry)
        /\ Len(s) = Len(q)
        /\ \A i \in 1..Len(q) : s[i] = Append(q, x)[i]
    BY <1>0, <1>1, ElementOfSeq, SubSeqProperties
  <2> QED BY <1>1, <2>1, SeqEqual
<1>6. Unmarked(Append(q, x)) = IF x = Nullopt THEN q ELSE Append(q, x)
  <2>1. Len(Append(q, x)) - 1 = Len(q)
    BY <1>0, <1>1
  <2> QED BY <2>1, <1>4, <1>5 DEF Unmarked
<1> QED BY <1>1, <1>3, <1>4, <1>6

\* Taking an item off the front of a queue.
LEMMA TailOfQueue ==
    ASSUME NEW q \in Seq(Entry), WellMarked(q), q # <<>>, Head(q) # Nullopt
    PROVE  /\ Tail(q) \in Seq(Entry)
           /\ Len(Tail(q)) = Len(q) - 1
           /\ WellMarked(Tail(q))
           /\ Marked(Tail(q)) <=> Marked(q)
           /\ Head(q) \in Item
           /\ Unmarked(q) # <<>>
           /\ Unmarked(Tail(q)) = Tail(Unmarked(q))
           /\ Head(Unmarked(q)) = Head(q)
<1>0. PICK n \in Nat : n = Len(q) /\ n # 0
  BY LengthFacts
<1>1. /\ Head(q) = q[1]
      /\ Head(q) \in Entry
      /\ Tail(q) \in Seq(Entry)
      /\ Len(Tail(q)) = Len(q) - 1
      /\ \A i \in 1..Len(Tail(q)) : Tail(q)[i] = q[i + 1]
  BY HeadTailProperties
<1>2. WellMarked(Tail(q))
  <2> SUFFICES ASSUME NEW i \in 1..Len(Tail(q)), Tail(q)[i] = Nullopt
               PROVE  i = Len(Tail(q))
    BY DEF WellMarked
  <2>1. i + 1 \in 1..Len(q)
    BY <1>0, <1>1
  <2>2. q[i + 1] = Nullopt
    BY <1>1
  <2>3. i + 1 = Len(q)
    BY <2>1, <2>2 DEF WellMarked
  <2> QED BY <2>3, <1>0, <1>1
<1>t. Tail(q) = <<>> <=> Len(Tail(q)) = 0
  BY <1>1, LengthFacts
<1>3. Marked(Tail(q)) <=> Marked(q)
  <2>1. CASE Len(q) = 1
    <3>1. Tail(q) = <<>>
      BY <2>1, <1>0, <1>1, <1>t
    <3> QED BY <2>1, <3>1, <1>1 DEF Marked
  <2>2. CASE Len(q) > 1
    <3>1. Len(q) - 1 \in 1..Len(Tail(q)) /\ Len(q) - 1 + 1 = Len(q)
      BY <2>2, <1>0, <1>1
    <3>2. Tail(q)[Len(Tail(q))] = q[Len(q)]
      BY <3>1, <1>1
    <3>3. Tail(q) # <<>>
      BY <2>2, <1>0, <1>1, <1>t
    <3> QED BY <3>2, <3>3 DEF Marked
  <2> QED BY <1>0, <2>1, <2>2
<1>4. Unmarked(q) # <<>>
  <2>1. Len(Unmarked(q)) # 0
    <3>1. CASE Len(q) = 1
      BY <3>1, <1>0, <1>1, UnmarkedProperties DEF Marked
    <3>2. CASE Len(q) > 1
      BY <3>2, <1>0, UnmarkedProperties
    <3> QED BY <1>0, <3>1, <3>2
  <2> QED BY <2>1, EmptySeq
<1>5. /\ Unmarked(q) \in Seq(Item)
      /\ Len(Unmarked(q)) \in Nat \ {0}
      /\ Len(q) = Len(Unmarked(q)) + (IF Marked(q) THEN 1 ELSE 0)
      /\ \A i \in 1..Len(Unmarked(q)) : Unmarked(q)[i] = q[i]
  BY <1>4, UnmarkedProperties, EmptySeq
<1>6. /\ Head(Unmarked(q)) = Unmarked(q)[1]
      /\ Tail(Unmarked(q)) \in Seq(Item)
      /\ Len(Tail(Unmarked(q))) = Len(Unmarked(q)) - 1
      /\ \A i \in 1..Len(Tail(Unmarked(q))) : Tail(Unmarked(q))[i] = Unmarked(q)[i + 1]
  BY <1>4, <1>5, HeadTailProperties
<1>7. /\ Unmarked(Tail(q)) \in Seq(Item)
      /\ Len(Tail(q)) = Len(Unmarked(Tail(q))) + (IF Marked(Tail(q)) THEN 1 ELSE 0)
      /\ \A i \in 1..Len(Unmarked(Tail(q))) : Unmarked(Tail(q))[i] = Tail(q)[i]
  BY <1>1, <1>2, UnmarkedProperties
<1>8. Len(Unmarked(Tail(q))) = Len(Tail(Unmarked(q)))
  <2>1. /\ \E k \in Nat : k = Len(Unmarked(Tail(q)))
        /\ \E k \in Nat : k = Len(Unmarked(q))
        /\ \E k \in Nat : k = Len(Tail(q))
        /\ \E k \in Nat : k = Len(Tail(Unmarked(q)))
    BY <1>1, <1>5, <1>6, <1>7, LengthFacts
  <2>2. CASE Marked(q)
    BY <2>1, <2>2, <1>0, <1>1, <1>3, <1>5, <1>6, <1>7
  <2>3. CASE ~Marked(q)
    BY <2>1, <2>3, <1>0, <1>1, <1>3, <1>5, <1>6, <1>7
  <2> QED BY <2>2, <2>3
<1>9. Unmarked(Tail(q)) = Tail(Unmarked(q))
  <2>1. \A i \in 1..Len(Unmarked(Tail(q))) : Unmarked(Tail(q))[i] = Tail(Unmarked(q))[i]
    <3> SUFFICES ASSUME NEW i \in 1..Len(Unmarked(Tail(q)))
                 PROVE  Unmarked(Tail(q))[i] = Tail(Unmarked(q))[i]
      OBVIOUS
    <3>1. /\ \E k \in Nat : k = Len(Unmarked(Tail(q)))
          /\ \E k \in Nat : k = Len(Unmarked(q))
      BY <1>5, <1>7, LengthFacts
    <3>2. /\ i \in 1..Len(Tail(Unmarked(q)))
          /\ i \in 1..Len(Tail(q))
          /\ i + 1 \in 1..Len(Unmarked(q))
      BY <3>1, <1>0, <1>1, <1>5, <1>6, <1>7, <1>8
    <3>3. Unmarked(Tail(q))[i] = q[i + 1]
      BY <3>2, <1>1, <1>7
    <3>4. Tail(Unmarked(q))[i] = q[i + 1]
      BY <3>2, <1>5, <1>6
    <3> QED BY <3>3, <3>4
  <2> QED BY <1>6, <1>7, <1>8, <2>1, SeqEqual
<1>10. Head(q) \in Item
  BY <1>1 DEF Entry
<1>11. Head(Unmarked(q)) = Head(q)
  BY <1>1, <1>5, <1>6
<1> QED BY <1>1, <1>2, <1>3, <1>4, <1>9, <1>10, <1>11
\* A channel that is closed holds the end marker and nothing else.
LEMMA ClosedQueue ==
    ASSUME NEW q \in Seq(Entry), WellMarked(q), q # <<>>, Head(q) = Nullopt
    PROVE  q = <<Nullopt>> /\ Marked(q) /\ Unmarked(q) = <<>>
<1>1. PICK n \in Nat : n = Len(q) /\ n # 0
  BY LengthFacts
<1>2. Head(q) = q[1]
  BY HeadTailProperties
<1>3. Len(q) = 1
  BY <1>1, <1>2 DEF WellMarked
<1>4. <<Nullopt>> \in Seq(Entry) /\ Len(<<Nullopt>>) = 1 /\ <<Nullopt>>[1] = Nullopt
  BY DEF Entry
<1>5. \A i \in 1..Len(q) : q[i] = <<Nullopt>>[i]
  BY <1>2, <1>3, <1>4
<1>6. q = <<Nullopt>>
  BY <1>3, <1>4, <1>5, SeqEqual
<1>7. Marked(q)
  BY <1>2, <1>3 DEF Marked
<1>8. Unmarked(q) = <<>>
  <2>1. Unmarked(q) \in Seq(Item) /\ 1 = Len(Unmarked(q)) + 1
    BY <1>3, <1>7, UnmarkedProperties
  <2> QED BY <2>1, LengthFacts
<1> QED BY <1>6, <1>7, <1>8

\* What the queue is as a queue of items that may be closed.
LEMMA QueueView ==
    ASSUME TypeOK, EndMarkerIsLast
    PROVE  /\ Pending \in Seq(Item)
           /\ Len(queue) = Len(Pending) + (IF EndMarked THEN 1 ELSE 0)
           /\ CanTake <=> Pending # <<>> \/ EndMarked
           /\ ClosedImpl <=> CanTake /\ Pending = <<>>
           /\ CanTake /\ ~ClosedImpl => Head(Pending) = Head(queue)
<1>1. queue \in Seq(Entry) /\ WellMarked(queue)
  BY NamesOfQueue DEF TypeOK, Entry
<1>2. Pending \in Seq(Item) /\ Len(queue) = Len(Pending) + (IF EndMarked THEN 1 ELSE 0)
  BY <1>1, NamesOfQueue, UnmarkedProperties
<1>3. CASE queue = <<>>
  BY <1>3 DEF CanTake, ClosedImpl, EndMarked, Pending
<1>4. CASE ClosedImpl
  BY <1>1, <1>4, <1>2, ClosedQueue, NamesOfQueue DEF CanTake, ClosedImpl
<1>5. CASE queue # <<>> /\ ~ClosedImpl
  BY <1>1, <1>5, <1>2, TailOfQueue, NamesOfQueue DEF CanTake, ClosedImpl
<1> QED BY <1>2, <1>3, <1>4, <1>5

-----------------------------------------------------------------------------
(* Type correctness                                                        *)

LEMMA StepTypes == TypeOK /\ [Next]_vars => TypeOK'
<1> SUFFICES ASSUME TypeOK, [Next]_vars PROVE TypeOK'
  OBVIOUS
<1> USE DEF TypeOK
<1>1. ASSUME NEW t \in Thread, NEW c \in Request, Call(t, c) PROVE TypeOK'
  BY <1>1 DEF Call
<1>2. ASSUME NEW t \in Thread, SpuriousWakeup(t) PROVE TypeOK'
  BY <1>2 DEF SpuriousWakeup
<1>3. ASSUME NEW t \in Thread, Wait(t) PROVE TypeOK'
  BY <1>3 DEF Wait
<1>4. ASSUME NEW t \in Thread, NEW r \in Outcome, Return(t, r)
      PROVE  /\ call' \in [Thread -> Request \cup {Idle}]
             /\ result' \in [Thread -> Outcome]
  BY <1>4 DEF Return
<1>5. "void" \in Outcome /\ "open" \in Outcome /\ "closed" \in Outcome /\ "logic_error" \in Outcome
  BY DEF Outcome, Signal
<1>6. ASSUME NEW t \in Thread, Insert(t) PROVE TypeOK'
  <2>1. call[t].item \in Item
    BY <1>6, RequestFacts DEF Insert, Enters
  <2>2. /\ Append(queue, call[t].item) \in Seq(Item \cup {Nullopt})
        /\ Append(accepted, call[t].item) \in Seq(Item)
    BY <2>1, AppendProperties
  <2>3. /\ queue' \in Seq(Item \cup {Nullopt})
        /\ accepted' \in Seq(Item)
    BY <1>6, <2>2 DEF Insert
  <2> QED BY <1>4, <1>5, <1>6, <2>3 DEF Insert, NotifyAll
<1>7. CanTake => Head(queue) \in Item \cup {Nullopt} /\ Tail(queue) \in Seq(Item \cup {Nullopt})
  BY HeadTailProperties DEF CanTake
<1>8. ASSUME NEW t \in Thread, Peek(t) PROVE TypeOK'
  <2>1. CanTake
    BY <1>8 DEF Peek, Enters, Proceeds
  <2>2. (IF ClosedImpl THEN "logic_error" ELSE Head(queue)) \in Outcome
    BY <1>5, <1>7, <2>1 DEF ClosedImpl, Outcome
  <2> QED BY <1>4, <1>8, <2>2 DEF Peek
<1>9. ASSUME NEW t \in Thread, Take(t) PROVE TypeOK'
  <2>1. CanTake
    BY <1>9 DEF Take, Enters, Proceeds
  <2>2. CASE ClosedImpl
    BY <1>4, <1>5, <1>9, <2>2 DEF Take
  <2>3. CASE ~ClosedImpl
    <3>1. Head(queue) \in Item
      BY <1>7, <2>1, <2>3 DEF ClosedImpl
    <3>a. Append(delivered, Head(queue)) \in Seq(Item)
      BY <3>1, AppendProperties
    <3>2. delivered' \in Seq(Item) /\ queue' \in Seq(Item \cup {Nullopt})
      BY <1>7, <1>9, <2>1, <2>3, <3>a DEF Take
    <3> QED BY <1>4, <1>5, <1>9, <2>3, <3>2 DEF Take, NotifyAll
  <2> QED BY <2>2, <2>3
<1>10. ASSUME NEW t \in Thread, Closed(t) PROVE TypeOK'
  BY <1>4, <1>5, <1>10 DEF Closed
<1>11. ASSUME NEW t \in Thread, Close(t) PROVE TypeOK'
  <2>a. Append(queue, Nullopt) \in Seq(Item \cup {Nullopt})
    BY AppendProperties
  <2>1. queue' \in Seq(Item \cup {Nullopt})
    BY <1>11, <2>a DEF Close
  <2> QED BY <1>4, <1>5, <1>11, <2>1 DEF Close, NotifyAll
<1>12. CASE UNCHANGED vars
  BY <1>12 DEF vars
<1> QED BY <1>1, <1>2, <1>3, <1>6, <1>8, <1>9, <1>10, <1>11, <1>12 DEF Next, Step

\* The variables hold values of their types in every reachable state.
THEOREM TypeCorrectness == Spec => []TypeOK
<1>1. Init => TypeOK
  BY EmptySeq DEF Init, TypeOK, Outcome, Signal
<1> QED BY <1>1, StepTypes, PTL DEF Spec
-----------------------------------------------------------------------------
(* The inductive invariant                                                 *)

\* The properties of the channel, together with what they need to be
\* inductive: a returned close() has left the end marker at the back.
IInv ==
    /\ TypeOK
    /\ WithinCapacity
    /\ NoLostWakeup
    /\ EndMarkerIsLast
    /\ FirstInFirstOut
    /\ ClosedMeansDrained
    /\ closeDone => EndMarked

LEMMA ConcatMove ==
    ASSUME NEW S, NEW d \in Seq(S), NEW p \in Seq(S), p # <<>>
    PROVE  Append(d, Head(p)) \o Tail(p) = d \o p
<1>1. Head(p) \in S /\ Tail(p) \in Seq(S) /\ <<Head(p)>> \in Seq(S)
  BY HeadTailProperties
<1>2. Append(d, Head(p)) = d \o <<Head(p)>>
  BY <1>1, AppendIsConcat
<1>3. PICK n \in Nat : n = Len(p) /\ n # 0
  BY LengthFacts
<1>4. p = <<Head(p)>> \o Tail(p)
  <2>1. 1 \in 1..Len(p) /\ Len(p) \in 1..Len(p) /\ p[1] = Head(p)
    BY <1>3, HeadTailProperties
  <2>2. SubSeq(p, 1, Len(p)) = <<p[1]>> \o SubSeq(p, 1 + 1, Len(p))
    BY <2>1, SubSeqRecursiveFirst
  <2>3. SubSeq(p, 1 + 1, Len(p)) = Tail(p)
    BY TailIsSubSeq
  <2> QED BY <2>1, <2>2, <2>3, SubSeqFull
<1>5. (d \o <<Head(p)>>) \o Tail(p) = d \o (<<Head(p)>> \o Tail(p))
  BY <1>1, ConcatAssociative
<1> QED BY <1>2, <1>4, <1>5

\* An operation that leaves the queue and its histories alone.
QueueUnchanged == UNCHANGED <<queue, accepted, delivered, closeDone>>

LEMMA QuietStep ==
    ASSUME IInv, TypeOK', QueueUnchanged, NoLostWakeup', ClosedMeansDrained'
    PROVE  IInv'
BY DEF IInv, QueueUnchanged, WithinCapacity, EndMarkerIsLast, FirstInFirstOut,
       Pending, EndMarked, CanTake

\* The sleepers that an operation of an awake thread does not notify sleep on
\* for the same reason.
LEMMA SleepersStayAsleep ==
    ASSUME TypeOK, NoLostWakeup, NEW t \in Thread, t \notin waiting,
           UNCHANGED <<queue, waiting>>, NEW c, call' = [call EXCEPT ![t] = c]
    PROVE  NoLostWakeup'
BY DEF TypeOK, NoLostWakeup, Proceeds, CanInsert, CanTake

\* An operation that finds the channel closed returns only when it is drained.
LEMMA ClosedAnswer ==
    ASSUME TypeOK, EndMarkerIsLast, FirstInFirstOut, ClosedImpl
    PROVE  queue = <<Nullopt>> /\ delivered = accepted
<1>1. queue \in Seq(Entry) /\ WellMarked(queue)
  BY NamesOfQueue DEF TypeOK, Entry
<1>2. queue = <<Nullopt>> /\ Pending = <<>>
  BY <1>1, ClosedQueue, NamesOfQueue DEF ClosedImpl, CanTake
<1>3. delivered \o <<>> = delivered
  BY ConcatEmptySeq DEF TypeOK
<1> QED BY <1>2, <1>3 DEF FirstInFirstOut

LEMMA InitEstablishes == Init => IInv
<1> SUFFICES ASSUME Init PROVE IInv
  OBVIOUS
<1>1. TypeOK
  BY EmptySeq DEF Init, TypeOK, Outcome, Signal
<1>2. Len(queue) = 0
  BY EmptySeq DEF Init
<1>3. WithinCapacity
  BY <1>2, CapacityAssumption DEF WithinCapacity
<1>4. NoLostWakeup /\ ClosedMeansDrained /\ (closeDone => EndMarked)
  BY DEF Init, NoLostWakeup, ClosedMeansDrained
<1>5. EndMarkerIsLast
  BY <1>2 DEF EndMarkerIsLast
<1>6. FirstInFirstOut
  BY ConcatEmptySeq DEF Init, FirstInFirstOut, Pending, EndMarked, CanTake, TypeOK
<1> QED BY <1>1, <1>3, <1>4, <1>5, <1>6 DEF IInv

LEMMA InsertPreserves ==
    ASSUME IInv, TypeOK', NEW t \in Thread, Insert(t)
    PROVE  IInv'
<1> DEFINE x == call[t].item
<1>1. x \in Item /\ x # Nullopt
  BY RequestFacts, NulloptAssumption DEF IInv, TypeOK, Insert, Enters
<1>2. NoLostWakeup'
  BY DEF Insert, NotifyAll, NoLostWakeup
<1>3. CASE EndMarked
  <2>1. QueueUnchanged
    BY <1>3 DEF Insert, QueueUnchanged
  <2>2. ClosedMeansDrained'
    BY <2>1 DEF IInv, TypeOK, Insert, Return, ClosedMeansDrained, QueueUnchanged
  <2> QED BY <2>1, <2>2, <1>2, QuietStep
<1>4. CASE ~EndMarked
  <2>1. /\ queue' = Append(queue, x)
        /\ accepted' = Append(accepted, x)
        /\ UNCHANGED <<delivered, closeDone>>
    BY <1>4 DEF Insert
  <2>2. queue \in Seq(Entry) /\ WellMarked(queue) /\ ~Marked(queue)
    BY <1>4, NamesOfQueue DEF IInv, TypeOK, Entry
  <2>3. /\ Len(queue') = Len(queue) + 1
        /\ EndMarkerIsLast'
        /\ Pending' = Append(queue, x)
    BY <1>1, <2>1, <2>2, AppendToUnmarked, NamesOfQueue DEF Entry
  <2>4. WithinCapacity'
    <3>1. /\ \E n \in Nat : n = Len(queue)
          /\ Len(queue) < Capacity
      BY LengthFacts DEF IInv, TypeOK, Insert, Enters, Proceeds, CanInsert
    <3> QED BY <2>3, <3>1, CapacityAssumption DEF WithinCapacity
  <2>5. FirstInFirstOut'
    <3>1. /\ queue \in Seq(Item)
          /\ delivered \in Seq(Item)
          /\ accepted = delivered \o queue
      BY <1>4, QueueView DEF IInv, TypeOK, FirstInFirstOut, Pending
    <3> HIDE DEF x
    <3>2. accepted \in Seq(Item) /\ <<x>> \in Seq(Item)
      BY <1>1 DEF IInv, TypeOK
    <3>3. Append(accepted, x) = (delivered \o queue) \o <<x>>
      BY <1>1, <3>1, <3>2, AppendIsConcat
    <3>4. Append(queue, x) = queue \o <<x>>
      BY <1>1, <3>1, AppendIsConcat
    <3>5. Append(accepted, x) = delivered \o Append(queue, x)
      BY <3>1, <3>2, <3>3, <3>4, ConcatAssociative
    <3> QED BY <2>1, <2>3, <3>5 DEF FirstInFirstOut
  <2>6. queue # <<Nullopt>>
    BY <2>2 DEF Marked
  <2>7. ClosedMeansDrained'
    BY <2>6 DEF IInv, TypeOK, Insert, Return, ClosedMeansDrained
  <2>8. ~closeDone'
    BY <1>4, <2>1 DEF IInv
  <2> QED BY <1>2, <2>3, <2>4, <2>5, <2>7, <2>8 DEF IInv
<1> QED BY <1>3, <1>4

LEMMA TakePreserves ==
    ASSUME IInv, TypeOK', NEW t \in Thread, Take(t)
    PROVE  IInv'
<1>1. CanTake /\ t \notin waiting
  BY DEF Take, Enters, Proceeds
<1>2. CASE ClosedImpl
  <2>1. QueueUnchanged /\ UNCHANGED waiting /\ call' = [call EXCEPT ![t] = Idle]
    BY <1>2 DEF Take, Return, QueueUnchanged
  <2>2. queue = <<Nullopt>> /\ delivered = accepted
    BY <1>2, ClosedAnswer DEF IInv
  <2>3. ClosedMeansDrained'
    BY <2>1, <2>2 DEF QueueUnchanged, ClosedMeansDrained
  <2>4. NoLostWakeup'
    BY <1>1, <2>1, SleepersStayAsleep DEF IInv, QueueUnchanged
  <2> QED BY <2>1, <2>3, <2>4, QuietStep
<1>3. CASE ~ClosedImpl
  <2>1. /\ queue' = Tail(queue)
        /\ delivered' = Append(delivered, Head(queue))
        /\ UNCHANGED <<accepted, closeDone>>
        /\ waiting' = {}
    BY <1>3 DEF Take, NotifyAll
  <2>2. queue \in Seq(Entry) /\ WellMarked(queue) /\ queue # <<>> /\ Head(queue) # Nullopt
    BY <1>1, <1>3, NamesOfQueue DEF IInv, TypeOK, Entry, CanTake, ClosedImpl
  <2>3. /\ Len(queue') = Len(queue) - 1
        /\ EndMarkerIsLast'
        /\ EndMarked' <=> EndMarked
        /\ Pending # <<>>
        /\ Pending' = Tail(Pending)
        /\ Head(Pending) = Head(queue)
    BY <2>1, <2>2, TailOfQueue, NamesOfQueue
  <2>4. WithinCapacity'
    <3>1. \E n \in Nat : n = Len(queue)
      BY LengthFacts DEF IInv, TypeOK
    <3> QED BY <2>3, <3>1, CapacityAssumption DEF IInv, WithinCapacity
  <2>5. FirstInFirstOut'
    <3>1. Pending \in Seq(Item) /\ delivered \in Seq(Item)
      BY QueueView DEF IInv, TypeOK
    <3>2. Append(delivered, Head(Pending)) \o Tail(Pending) = delivered \o Pending
      BY <2>3, <3>1, ConcatMove
    <3> QED BY <2>1, <2>3, <3>2 DEF IInv, FirstInFirstOut
  <2>6. Head(<<Nullopt>>) = Nullopt
    OBVIOUS
  <2>7. ClosedMeansDrained'
    BY <1>3, <2>2, <2>6 DEF IInv, TypeOK, Take, Return, ClosedMeansDrained
  <2> QED BY <2>1, <2>3, <2>4, <2>5, <2>7 DEF IInv, NoLostWakeup
<1> QED BY <1>2, <1>3

LEMMA ClosePreserves ==
    ASSUME IInv, TypeOK', NEW t \in Thread, Close(t)
    PROVE  IInv'
<1>1. NoLostWakeup'
  BY DEF Close, NotifyAll, NoLostWakeup
<1>2. /\ UNCHANGED <<accepted, delivered>>
      /\ \A s \in Thread : result'[s] \in {"closed", "logic_error"} => result[s] = result'[s]
  BY DEF IInv, TypeOK, Close, Return
<1>3. CASE EndMarked
  <2>1. UNCHANGED queue
    BY <1>3 DEF Close
  <2>2. ClosedMeansDrained'
    BY <1>2, <2>1 DEF IInv, ClosedMeansDrained
  <2> QED BY <1>1, <1>2, <1>3, <2>1, <2>2
        DEF IInv, WithinCapacity, EndMarkerIsLast, FirstInFirstOut, Pending, EndMarked, CanTake
<1>4. CASE ~EndMarked
  <2>1. queue' = Append(queue, Nullopt)
    BY <1>4 DEF Close
  <2>2. queue \in Seq(Entry) /\ WellMarked(queue) /\ ~Marked(queue)
    BY <1>4, NamesOfQueue DEF IInv, TypeOK, Entry
  <2>3. /\ Len(queue') = Len(queue) + 1
        /\ EndMarkerIsLast'
        /\ EndMarked'
        /\ Pending' = queue
    BY <2>1, <2>2, AppendToUnmarked, NamesOfQueue DEF Entry
  <2>4. WithinCapacity'
    <3>1. /\ \E n \in Nat : n = Len(queue)
          /\ Len(queue) < Capacity
      BY LengthFacts DEF IInv, TypeOK, Close, Enters, Proceeds, CanInsert
    <3> QED BY <2>3, <3>1, CapacityAssumption DEF WithinCapacity
  <2>5. FirstInFirstOut'
    BY <1>2, <1>4, <2>3 DEF IInv, FirstInFirstOut, Pending
  <2>6. queue # <<Nullopt>>
    BY <2>2 DEF Marked
  <2>7. ClosedMeansDrained'
    BY <1>2, <2>6 DEF IInv, ClosedMeansDrained
  <2> QED BY <1>1, <2>3, <2>4, <2>5, <2>7 DEF IInv
<1> QED BY <1>3, <1>4

LEMMA LookPreserves ==
    ASSUME IInv, TypeOK', NEW t \in Thread, Peek(t) \/ Closed(t)
    PROVE  IInv'
<1>1. /\ QueueUnchanged
      /\ UNCHANGED waiting
      /\ call' = [call EXCEPT ![t] = Idle]
      /\ t \notin waiting
      /\ CanTake
  BY DEF Peek, Closed, Return, Enters, Proceeds, QueueUnchanged
<1>2. NoLostWakeup'
  BY <1>1, SleepersStayAsleep DEF IInv, QueueUnchanged
<1>3. CASE ClosedImpl
  <2>1. queue = <<Nullopt>> /\ delivered = accepted
    BY <1>3, ClosedAnswer DEF IInv
  <2> QED BY <1>1, <1>2, <2>1, QuietStep DEF QueueUnchanged, ClosedMeansDrained
<1>4. CASE ~ClosedImpl
  <2>1. Head(queue) \in Item
    BY <1>1, <1>4, HeadTailProperties DEF IInv, TypeOK, CanTake, ClosedImpl
  <2>2. Head(queue) \notin {"closed", "logic_error"}
    BY <2>1, SignalAssumption DEF Signal
  <2>3. \A s \in Thread : result'[s] \in {"closed", "logic_error"} => result[s] = result'[s]
    BY <1>4, <2>2 DEF IInv, TypeOK, Peek, Closed, Return
  <2>4. ClosedMeansDrained'
    BY <1>1, <2>3 DEF IInv, ClosedMeansDrained, QueueUnchanged
  <2> QED BY <1>1, <1>2, <2>4, QuietStep
<1> QED BY <1>3, <1>4

LEMMA NextPreserves == IInv /\ [Next]_vars /\ TypeOK' => IInv'
<1> SUFFICES ASSUME IInv, [Next]_vars, TypeOK' PROVE IInv'
  OBVIOUS
<1>1. ASSUME NEW t \in Thread, NEW c \in Request, Call(t, c) PROVE IInv'
  <2>1. QueueUnchanged /\ UNCHANGED <<waiting, result>> /\ call' = [call EXCEPT ![t] = c]
    BY <1>1 DEF Call, QueueUnchanged
  <2>2. t \notin waiting
    BY <1>1 DEF Call, IInv, NoLostWakeup
  <2>3. NoLostWakeup'
    BY <2>1, <2>2, SleepersStayAsleep DEF IInv, QueueUnchanged
  <2>4. ClosedMeansDrained'
    BY <2>1 DEF IInv, ClosedMeansDrained, QueueUnchanged
  <2> QED BY <2>1, <2>3, <2>4, QuietStep
<1>2. ASSUME NEW t \in Thread, SpuriousWakeup(t) \/ Wait(t) PROVE IInv'
  <2>1. QueueUnchanged /\ UNCHANGED <<call, result>>
    BY <1>2 DEF SpuriousWakeup, Wait, QueueUnchanged
  <2>2. NoLostWakeup'
    BY <1>2, <2>1 DEF IInv, SpuriousWakeup, Wait, NoLostWakeup, QueueUnchanged,
                      Proceeds, CanInsert, CanTake
  <2>3. ClosedMeansDrained'
    BY <2>1 DEF IInv, ClosedMeansDrained, QueueUnchanged
  <2> QED BY <2>1, <2>2, <2>3, QuietStep
<1>3. CASE UNCHANGED vars
  <2>1. QueueUnchanged /\ UNCHANGED <<call, waiting, result>>
    BY <1>3 DEF vars, QueueUnchanged
  <2>2. NoLostWakeup' /\ ClosedMeansDrained'
    BY <2>1 DEF IInv, NoLostWakeup, ClosedMeansDrained, QueueUnchanged,
                Proceeds, CanInsert, CanTake
  <2> QED BY <2>1, <2>2, QuietStep
<1> QED BY <1>1, <1>2, <1>3, InsertPreserves, TakePreserves, ClosePreserves, LookPreserves
        DEF Next, Step

\* The inductive invariant holds in every reachable state.
THEOREM Invariance == Spec => []IInv
<1>1. IInv /\ [Next]_vars => TypeOK'
  BY StepTypes DEF IInv
<1>2. IInv /\ [Next]_vars => IInv'
  BY <1>1, NextPreserves
<1> QED BY InitEstablishes, <1>2, PTL DEF Spec

-----------------------------------------------------------------------------
(* What the invariant shows                                                *)

\* The channel holds at most m_capacity entries.
THEOREM CapacityBound == Spec => []WithinCapacity
<1>1. IInv => WithinCapacity
  BY DEF IInv
<1> QED BY <1>1, Invariance, PTL

\* Whoever sleeps on the condition variable could not proceed if it were woken.
THEOREM WakeupsAreNotLost == Spec => []NoLostWakeup
<1>1. IInv => NoLostWakeup
  BY DEF IInv
<1> QED BY <1>1, Invariance, PTL

\* The end marker is at the back and occurs once.
THEOREM EndMarkerPosition == Spec => []EndMarkerIsLast
<1>1. IInv => EndMarkerIsLast
  BY DEF IInv
<1> QED BY <1>1, Invariance, PTL

\* The consumers take exactly what the producers inserted, in order.
THEOREM QueueOrder == Spec => []FirstInFirstOut
<1>1. IInv => FirstInFirstOut
  BY DEF IInv
<1> QED BY <1>1, Invariance, PTL

\* A channel that says it is closed has handed out everything it accepted.
THEOREM ClosedChannelIsDrained == Spec => []ClosedMeansDrained
<1>1. IInv => ClosedMeansDrained
  BY DEF IInv
<1> QED BY <1>1, Invariance, PTL

\* After a close() has returned insert() enqueues nothing.
THEOREM CloseIsFinal == Spec => NothingAcceptedAfterClose
<1>1. IInv /\ [Next]_vars => [closeDone => accepted' = accepted]_vars
  <2> SUFFICES ASSUME IInv, Next, closeDone PROVE accepted' = accepted
    BY DEF vars
  <2>1. EndMarked
    BY DEF IInv
  <2> QED BY <2>1 DEF Next, Step, Call, SpuriousWakeup, Wait, Insert, Peek, Take, Closed, Close
<1> QED BY <1>1, Invariance, PTL DEF Spec, NothingAcceptedAfterClose

-----------------------------------------------------------------------------
(* The channel implements the closable queue                               *)

LEMMA ServableWhenEntered ==
    ASSUME IInv, NEW t \in Thread, NEW op, op # "none", Enters(t, op)
    PROVE  /\ Abstract!Servable(t)
           /\ call[t].op = op
BY RequestFacts, QueueView
   DEF IInv, TypeOK, Enters, Proceeds, CanInsert, Abstract!Servable, Abstract!Room, Abstract!Decided

LEMMA InsertImplements ==
    ASSUME IInv, IInv', NEW t \in Thread, Insert(t)
    PROVE  Abstract!Insert(t)
<1>1. Abstract!Answer(t, "insert", "void")
  BY ServableWhenEntered DEF Insert, Return, Abstract!Answer, Abstract!Idle, Idle
<1>2. CASE EndMarked
  BY <1>1, <1>2 DEF Insert, Abstract!Insert, Pending, EndMarked, CanTake
<1>3. CASE ~EndMarked
  <2>1. call[t].item \in Item /\ call[t].item # Nullopt
    BY RequestFacts, NulloptAssumption DEF IInv, TypeOK, Insert, Enters
  <2>2. queue \in Seq(Entry) /\ WellMarked(queue) /\ ~Marked(queue)
    BY <1>3, NamesOfQueue DEF IInv, TypeOK, Entry
  <2>3. /\ queue' = Append(queue, call[t].item)
        /\ Pending = queue
        /\ ~EndMarked'
        /\ Pending' = queue'
    BY <1>3, <2>1, <2>2, AppendToUnmarked, NamesOfQueue DEF Insert, Pending, Entry
  <2>4. EndMarked' = EndMarked
    BY <1>3, <2>3 DEF EndMarked, CanTake
  <2> QED BY <1>1, <1>3, <2>3, <2>4 DEF Insert, Abstract!Insert
<1> QED BY <1>2, <1>3

LEMMA TakeImplements ==
    ASSUME IInv, NEW t \in Thread, Take(t)
    PROVE  Abstract!Take(t)
<1>1. /\ CanTake
      /\ ClosedImpl <=> Pending = <<>>
  BY QueueView DEF IInv, Take, Enters, Proceeds
<1>2. CASE ClosedImpl
  <2>1. Abstract!Answer(t, "take", "logic_error")
    BY <1>2, ServableWhenEntered DEF Take, Return, Abstract!Answer, Abstract!Idle, Idle
  <2> QED BY <1>1, <1>2, <2>1 DEF Take, Abstract!Take, Pending, EndMarked, CanTake
<1>3. CASE ~ClosedImpl
  <2>1. Abstract!Answer(t, "take", "void")
    BY <1>3, ServableWhenEntered DEF Take, Return, Abstract!Answer, Abstract!Idle, Idle
  <2>2. queue \in Seq(Entry) /\ WellMarked(queue) /\ queue # <<>> /\ Head(queue) # Nullopt
    BY <1>1, <1>3, NamesOfQueue DEF IInv, TypeOK, Entry, CanTake, ClosedImpl
  <2>3. queue' = Tail(queue) /\ delivered' = Append(delivered, Head(queue))
    BY <1>3 DEF Take
  <2>4. /\ EndMarked' <=> EndMarked
        /\ Pending' = Tail(Pending)
        /\ Head(Pending) = Head(queue)
    BY <2>2, <2>3, TailOfQueue, NamesOfQueue
  <2>5. EndMarked' = EndMarked
    BY <2>4 DEF EndMarked, CanTake
  <2> QED BY <1>1, <1>3, <2>1, <2>3, <2>4, <2>5 DEF Abstract!Take
<1> QED BY <1>2, <1>3

LEMMA CloseImplements ==
    ASSUME IInv, NEW t \in Thread, Close(t)
    PROVE  Abstract!Close(t)
<1>1. Abstract!Answer(t, "close", "void")
  BY ServableWhenEntered DEF Close, Return, Abstract!Answer, Abstract!Idle, Idle
<1>2. CASE EndMarked
  BY <1>1, <1>2 DEF Close, Abstract!Close, Pending, EndMarked, CanTake
<1>3. CASE ~EndMarked
  <2>1. queue \in Seq(Entry) /\ WellMarked(queue) /\ ~Marked(queue)
    BY <1>3, NamesOfQueue DEF IInv, TypeOK, Entry
  <2>2. EndMarked' /\ Pending' = Pending
    BY <1>3, <2>1, AppendToUnmarked, NamesOfQueue DEF Close, Pending, Entry
  <2>3. EndMarked' = TRUE
    BY <2>2 DEF EndMarked, CanTake
  <2> QED BY <1>1, <2>2, <2>3 DEF Close, Abstract!Close
<1> QED BY <1>2, <1>3

LEMMA LookImplements ==
    ASSUME IInv, NEW t \in Thread
    PROVE  /\ Peek(t) => Abstract!Peek(t)
           /\ Closed(t) => Abstract!Closed(t)
<1>1. /\ CanTake => (ClosedImpl <=> Pending = <<>>)
      /\ CanTake /\ ~ClosedImpl => Head(Pending) = Head(queue)
  BY QueueView DEF IInv
<1>2. ASSUME Peek(t) PROVE Abstract!Peek(t)
  <2>1. CanTake /\ Abstract!Servable(t)
    BY <1>2, ServableWhenEntered DEF Peek, Enters, Proceeds
  <2>2. (IF ClosedImpl THEN "logic_error" ELSE Head(queue))
          = (IF Pending = <<>> THEN "logic_error" ELSE Head(Pending))
    BY <1>1, <2>1
  <2> QED BY <1>2, <2>1, <2>2 DEF Peek, Enters, Return, Pending, EndMarked, CanTake,
          Abstract!Peek, Abstract!Answer, Abstract!Idle, Idle
<1>3. ASSUME Closed(t) PROVE Abstract!Closed(t)
  <2>1. CanTake /\ Abstract!Servable(t)
    BY <1>3, ServableWhenEntered DEF Closed, Enters, Proceeds
  <2>2. (IF ClosedImpl THEN "closed" ELSE "open")
          = (IF Pending = <<>> THEN "closed" ELSE "open")
    BY <1>1, <2>1
  <2> QED BY <1>3, <2>1, <2>2 DEF Closed, Enters, Return, Pending, EndMarked, CanTake,
          Abstract!Closed, Abstract!Answer, Abstract!Idle, Idle
<1> QED BY <1>2, <1>3

\* Every operation of the channel takes effect at one instant of its call, as an
\* operation of the closable queue does.
THEOREM ChannelImplementsQueue == Spec => AbstractSafety
<1>1. Init => Abstract!Init
  BY DEF Init, Abstract!Init, Pending, EndMarked, CanTake, Abstract!Idle, Idle
<1>2. IInv /\ IInv' /\ [Next]_vars => [Abstract!Next]_(Abstract!vars)
  <2> SUFFICES ASSUME IInv, IInv', [Next]_vars PROVE [Abstract!Next]_(Abstract!vars)
    OBVIOUS
  <2>1. ASSUME NEW t \in Thread, NEW c \in Request, Call(t, c) PROVE Abstract!Ask(t)
    BY <2>1 DEF Call, Abstract!Ask, Abstract!Idle, Idle, Abstract!Request, Request,
                Abstract!Item, Item, Pending, EndMarked, CanTake
  <2>2. ASSUME NEW t \in Thread, SpuriousWakeup(t) \/ Wait(t) PROVE UNCHANGED Abstract!vars
    BY <2>2 DEF SpuriousWakeup, Wait, Abstract!vars, Pending, EndMarked, CanTake
  <2>3. CASE UNCHANGED vars
    BY <2>3 DEF vars, Abstract!vars, Pending, EndMarked, CanTake
  <2> QED BY <2>1, <2>2, <2>3, InsertImplements, TakeImplements, CloseImplements, LookImplements
          DEF Next, Step, Abstract!Next
<1> QED BY <1>1, <1>2, Invariance, PTL DEF Spec, AbstractSafety, Abstract!Safety
=============================================================================
