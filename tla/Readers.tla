------------------------------ MODULE Readers ------------------------------
(***************************************************************************)
(* The chain of readers under the JSON grammar: a stream_reader with a     *)
(* buffer of fixed capacity, a line_counting_reader that loads a line at a *)
(* time and knows the location, and a comment_removing_reader that queues  *)
(* a line without its comment. The grammar reads at the end of the chain   *)
(* and the event handlers ask the middle of it for the location, so every  *)
(* layer is moved by calls from two sides.                                 *)
(*                                                                         *)
(* Each operation is a function of the state of the chain; the ones of a   *)
(* layer are built from the ones of the layer below, as in the code.       *)
(***************************************************************************)
EXTENDS SequencesExt, Integers

CONSTANTS
    Character,       \* the characters of a text
    Quote,           \* the quotation marks ' and "
    LineFeed,
    CarriageReturn,
    Mark,            \* m_single_line_begin
    BufferCapacity,  \* of the stream_reader
    Texts            \* bound: the texts to read

ASSUME BufferAssumption == BufferCapacity \in Nat \ {0}
ASSUME MarkAssumption == Mark # <<>>

VARIABLES
    text,    \* the whole text of the stream
    chain,   \* the state of the three readers
    read,    \* history: the characters that next() has moved past
    answer   \* what the last operation returned or threw

vars == <<text, chain, read, answer>>

FirstOf(S) == CHOOSE i \in S : \A j \in S : i <= j

-----------------------------------------------------------------------------
(* stream_reader                                                           *)

\* ensure_buffer_filled(): reads up to the capacity when the buffer is empty.
Filled(c) ==
    LET n == FirstOf({BufferCapacity, Len(c.rest)})
    IN  IF c.buffer # <<>> THEN c
        ELSE [c EXCEPT !.buffer = SubSeq(c.rest, 1, n),
                       !.rest = SubSeq(c.rest, n + 1, Len(c.rest))]

-----------------------------------------------------------------------------
(* line_counting_reader                                                    *)

\* Reads characters of the base reader until the line ends.
RECURSIVE ReadCounted(_)
ReadCounted(c) ==
    LET f == Filled(c)
    IN  IF f.buffer # <<>> /\ (f.line = <<>> \/ Last(f.line) # LineFeed)
          THEN ReadCounted([f EXCEPT !.line = Append(@, Head(f.buffer)),
                                     !.buffer = Tail(@)])
          ELSE f

\* Variant: the lines are counted from one.
LineLoadedFromOne(c) ==
    IF c.column < Len(c.line) THEN c
    ELSE IF Filled(c).buffer = <<>> THEN Filled(c)
    ELSE LET l == ReadCounted([Filled(c) EXCEPT !.line = <<>>])
         IN  [l EXCEPT !.column = 0,
                       !.index = @ + 1,
                       !.location = [line |-> l.line, index |-> l.index + 1, column |-> 0]]

\* ensure_line_loaded(): once the line is used up the next one is loaded, if
\* there is one, and the location moves to its beginning.
LineLoaded(c) ==
    IF c.column < Len(c.line) THEN c
    ELSE IF Filled(c).buffer = <<>> THEN Filled(c)
    ELSE LET l == ReadCounted([Filled(c) EXCEPT !.line = <<>>])
         IN  [l EXCEPT !.column = 0,
                       !.index = @ + 1,
                       !.location = [line |-> l.line, index |-> l.index, column |-> 0]]

LineHasNext(c) == c.column < Len(c.line)

\* next_impl()
Advanced(c) == [c EXCEPT !.column = @ + 1, !.location.column = c.column + 1]

-----------------------------------------------------------------------------
(* comment_removing_reader                                                 *)

\* The quotation mark that is open after i characters, or "none".
OpenQuote(line) ==
    LET open[i \in 0..Len(line)] ==
          IF i = 0 THEN "none"
          ELSE IF open[i - 1] # "none"
                 THEN IF line[i] = open[i - 1] THEN "none" ELSE open[i - 1]
          ELSE IF line[i] \in Quote THEN line[i] ELSE "none"
    IN  open

\* find_substring(): where the mark is, outside the quotation marks, or 0. The
\* loop ends one short of the last place that the mark fits in.
FindMark(line) ==
    LET places == {i \in 1..(Len(line) - Len(Mark)) :
                      /\ OpenQuote(line)[i - 1] = "none"
                      /\ line[i] \notin Quote
                      /\ SubSeq(line, i, i + Len(Mark) - 1) = Mark}
    IN  IF places = {} THEN 0 ELSE FirstOf(places)

\* line.find_first_of("\r\n"), or 0.
FindLineEnd(line) ==
    LET places == {i \in 1..Len(line) : line[i] \in {LineFeed, CarriageReturn}}
    IN  IF places = {} THEN 0 ELSE FirstOf(places)

\* Variant: the line feed goes with the comment.
UncommentedWithoutLineEnd(line) ==
    IF FindMark(line) = 0 THEN line ELSE SubSeq(line, 1, FindMark(line) - 1)

\* remove_comment(): the comment goes, the line feed stays.
Uncommented(line) ==
    LET mark == FindMark(line)
        end == FindLineEnd(line)
    IN  IF mark = 0 THEN line
        ELSE SubSeq(line, 1, mark - 1)
               \o (IF end = 0 THEN <<>> ELSE SubSeq(line, end, Len(line)))

\* read_line()
RECURSIVE ReadLine(_, _)
ReadLine(c, line) ==
    LET l == LineLoaded(c)
        char == l.line[l.column + 1]
    IN  IF ~LineHasNext(l) THEN [chain |-> l, line |-> line]
        ELSE IF char = LineFeed THEN [chain |-> Advanced(l), line |-> Append(line, char)]
        ELSE ReadLine(Advanced(l), Append(line, char))

\* The loop of ensure_buffer_filled(): it asks the base reader once more when
\* the queue has got a line.
RECURSIVE Refilled(_)
Refilled(c) ==
    LET l == LineLoaded(c)
        r == ReadLine(l, <<>>)
    IN  IF LineHasNext(l) /\ l.queue = <<>>
          THEN Refilled([r.chain EXCEPT !.queue = Uncommented(r.line)])
          ELSE l

QueueFilled(c) == IF c.queue # <<>> THEN c ELSE Refilled(c)

-----------------------------------------------------------------------------
Init ==
    /\ text \in Texts
    /\ chain = [rest |-> text, buffer |-> <<>>,
                line |-> <<>>, index |-> 0, column |-> 0,
                location |-> [line |-> <<>>, index |-> 0, column |-> 0],
                queue |-> <<>>]
    /\ read = <<>>
    /\ answer = "none"

HasNext ==
    /\ chain' = QueueFilled(chain)
    /\ answer' = IF chain'.queue = <<>> THEN "no" ELSE "yes"
    /\ UNCHANGED <<text, read>>

Peek ==
    /\ chain' = QueueFilled(chain)
    /\ answer' = IF chain'.queue = <<>> THEN "logic_error" ELSE Head(chain'.queue)
    /\ UNCHANGED <<text, read>>

NextCharacter ==
    LET c == QueueFilled(chain)
    IN  /\ IF c.queue = <<>>
             THEN /\ chain' = c
                  /\ answer' = "logic_error"
                  /\ UNCHANGED read
             ELSE /\ chain' = [c EXCEPT !.queue = Tail(@)]
                  /\ answer' = "void"
                  /\ read' = Append(read, Head(c.queue))
        /\ UNCHANGED text

\* line_counting_reader::get_location(), called by the event handlers.
GetLocation ==
    /\ chain' = LineLoaded(chain)
    /\ answer' = IF chain'.column = Len(chain'.line) + 1 THEN "logic_error" ELSE "location"
    /\ UNCHANGED <<text, read>>

Next == HasNext \/ Peek \/ NextCharacter \/ GetLocation

Spec == Init /\ [][Next]_vars

-----------------------------------------------------------------------------
(* The reference: one pass over the text, character by character.          *)

Removal ==
    LET step(s, char) ==
          CASE char = LineFeed -> [mode |-> "plain", out |-> Append(s.out, char)]
            [] char = CarriageReturn -> [s EXCEPT !.out = Append(@, char)]
            [] s.mode = "comment" -> s
            [] s.mode = "plain" /\ <<char>> = Mark -> [s EXCEPT !.mode = "comment"]
            [] OTHER ->
                 [mode |-> IF s.mode = char THEN "plain"
                           ELSE IF s.mode = "plain" /\ char \in Quote THEN char
                           ELSE s.mode,
                  out |-> Append(s.out, char)]
    IN  FoldLeft(step, [mode |-> "plain", out |-> <<>>], text)

\* The lines of the text, with their line feeds.
LineOf(i) ==
    LET feeds == {j \in 1..Len(text) : text[j] = LineFeed}
        starts == {1} \cup {j + 1 : j \in feeds}
        start == CHOOSE s \in starts : Cardinality({t \in starts : t < s}) = i
        ends == {j \in feeds : j >= start}
    IN  SubSeq(text, start, IF ends = {} THEN Len(text) ELSE FirstOf(ends))

LineFeedsIn(s) == Cardinality({i \in 1..Len(s) : s[i] = LineFeed})

-----------------------------------------------------------------------------
(* Properties                                                              *)

\* "A comment removing reader": what the client gets is the text without its
\* comments, whatever the capacity of the buffer and whenever a handler asks
\* for the location, which loads a line as well.
CommentsAreRemoved ==
    /\ IsPrefix(read \o chain.queue, Removal.out)
    /\ answer = "no" => read = Removal.out

\* What the location of an element means: it is never the place where the
\* element is. The comment removing reader takes whole lines and asks for one
\* more, so between two calls the location is the beginning of the line after
\* the one that is being read, or the end of the text. Its line is the line of the
\* text that its index names, comment included.
LocationIsAfterTheLine ==
    chain.location.line # <<>> =>
        /\ \/ /\ chain.location.column = 0
              /\ chain.location.index = LineFeedsIn(read) + (IF chain.queue = <<>> THEN 0 ELSE 1)
           \/ /\ chain.location.column = Len(chain.location.line)
              /\ chain.buffer \o chain.rest = <<>>
        /\ chain.location.index \in 0..LineFeedsIn(text)
        /\ chain.location.line = LineOf(chain.location.index)
=============================================================================
