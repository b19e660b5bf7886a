---------------------------- MODULE PropertyJson ----------------------------
(***************************************************************************)
(* The file format of the property library: json_writer prints a value map *)
(* as nested JSON objects, line by line, and json_parser pulls the events  *)
(* of a JSON text and builds a value map of them.                          *)
(*                                                                         *)
(* A line is the sequence of the events that the parser of the JSON library*)
(* makes of it: objects and members are opened and closed, a value is one  *)
(* event. Layout is left out. The text of a string is its characters, with *)
(* their escapes in a file; names have no characters that need any.        *)
(***************************************************************************)
EXTENDS JsonSpelling, Integers

CONSTANTS
    UintRange,   \* 2^32: the values of std::uint32_t are below
    UlongRange   \* 2^64: std::stoul() throws std::out_of_range from here on

ASSUME RangeAssumption == UintRange \in Nat /\ UlongRange \in Nat /\ 0 < UintRange

\* A value is a pair of its type and its text; a key is a path of names, and
\* names are numbered in their order.
ObjectOpen == <<"object", "open">>
ObjectClose == <<"object", "close">>
ArrayOpen == <<"array", "open">>
ArrayClose == <<"array", "close">>
MemberOpen(name) == <<"member", "open", name>>
MemberClose == <<"member", "close">>
Null == <<"null">>
SyntaxError == <<"error">>   \* the exception that peek() throws
End == <<"end">>             \* has_next() is false

-----------------------------------------------------------------------------
(* json_writer                                                             *)

Leaf(value) == [kind |-> "leaf", value |-> value]
Tree(children) == [kind |-> "tree", children |-> children]

\* std::get throws std::bad_variant_access: a name is a value and a prefix.
BadAccess == [kind |-> "bad"]

\* add_to_key_tree()
RECURSIVE Added(_, _, _)
Added(tree, key, value) ==
    LET top == Head(key)
        sub == IF top \in DOMAIN tree.children THEN tree.children[top] ELSE Tree(<<>>)
        new == Added(sub, Tail(key), value)
    IN  IF tree.kind # "tree" THEN BadAccess
        ELSE IF Len(key) = 1 THEN Tree(tree.children @@ (top :> Leaf(value)))
        ELSE IF new.kind = "bad" THEN BadAccess
        ELSE Tree((top :> new) @@ tree.children)

\* The order of paths: name by name, a prefix first.
RECURSIVE Precedes(_, _)
Precedes(k, l) ==
    /\ l # <<>>
    /\ \/ k = <<>>
       \/ Head(k) < Head(l)
       \/ Head(k) = Head(l) /\ Precedes(Tail(k), Tail(l))

KeyTree(map) ==
    FoldLeft(LAMBDA tree, key : IF tree.kind = "bad" THEN tree ELSE Added(tree, key, map[key]),
             Tree(<<>>), SetToSortSeq(DOMAIN map, Precedes))

\* to_string()
Spelling(value) == IF value[1] = "string" THEN <<"string", Escaped(value[2])>> ELSE value

\* print_json_iter()
RECURSIVE EntryLines(_)
EntryLines(tree) ==
    LET names == SetToSortSeq(DOMAIN tree.children, <)
        lines(name) ==
            LET child == tree.children[name]
            IN  IF child.kind = "leaf"
                  THEN <<<<MemberOpen(name), Spelling(child.value), MemberClose>>>>
                  ELSE <<<<MemberOpen(name), ObjectOpen>>>>
                         \o EntryLines(child) \o <<<<ObjectClose, MemberClose>>>>
    IN  FlattenSeq([i \in 1..Len(names) |-> lines(names[i])])

\* The lines of a value map, or none when the tree cannot be built. Each line
\* ends with std::endl, which hands it over to the file.
WrittenLines(map) ==
    LET tree == KeyTree(map)
    IN  IF tree.kind = "bad" THEN <<>>
        ELSE <<<<ObjectOpen>>>> \o EntryLines(tree) \o <<<<ObjectClose>>>>

-----------------------------------------------------------------------------
(* The JSON library on such a file, as its client sees it                  *)

Structure == {"object", "member", "array"}

IsOpen(event) == event[1] \in Structure /\ event[2] = "open"
IsClose(event) == event[1] \in Structure /\ event[2] = "close"

\* The comment removing reader does not know the escape \" that the writer uses:
\* in front of a '#' it makes the rest of the line a comment. An apostrophe quotes
\* as well. (The string is the first on its line that has such characters.)
QuoteAfter(chars) ==
    FoldLeft(LAMBDA quote, c :
                CASE quote = "" /\ c \in {"\"", "'"} -> c
                  [] quote = c -> ""
                  [] OTHER -> quote,
             "", chars)
IsCut(chars) ==
    \E i \in DOMAIN chars : chars[i] = "#" /\ QuoteAfter(<<"\"">> \o SubSeq(chars, 1, i - 1)) = ""

\* The string is not one of the grammar's, or what the reader leaves of it is none.
IsBroken(event) ==
    event[1] = "string" /\ (IsCut(event[2]) \/ AfterChars(event[2], 1) # Len(event[2]) + 1)

\* The events up to a string that is broken, and a syntax error after them when one
\* is or something is left open.
Stream(lines) ==
    LET events == FlattenSeq(lines)
        cuts == {i \in 1..Len(events) : IsBroken(events[i])}
        opened == Len(SelectSeq(events, IsOpen))
        closed == Len(SelectSeq(events, IsClose))
    IN  IF cuts # {} THEN Append(SubSeq(events, 1, Min(cuts) - 1), SyntaxError)
        ELSE IF events = <<>> \/ opened # closed THEN Append(events, SyntaxError)
        ELSE events

-----------------------------------------------------------------------------
(* json_parser. A function returns how it ended, the position in the stream*)
(* and the value map.                                                      *)

Parsed(at, map) == [status |-> "ok", at |-> at, map |-> map]
Ended(status, at, map) == [status |-> status, at |-> at, map |-> map]

EventAt(stream, at) == IF at <= Len(stream) THEN stream[at] ELSE End

\* Every next_is() peeks, and so throws the error at the end of a broken text.
\* Otherwise the expected event is consumed, or the function returns false.
Expect(event, stream, at, map) ==
    CASE EventAt(stream, at) = event -> Parsed(at + 1, map)
      [] EventAt(stream, at) = SyntaxError -> Ended("runtime_error", at, map)
      [] OTHER -> Ended("false", at, map)

RECURSIVE Skipped(_, _, _)

\* Variant: a skipped structure ends at the first close.
SkippedToFirstClose(stream, at, level) ==
    LET event == EventAt(stream, at)
    IN  IF level = 0 \/ event \in {SyntaxError, End} THEN at
        ELSE Skipped(stream, at + 1, IF IsClose(event) THEN level - 1 ELSE level)

\* skip_structure(): the position after the structure, or of the error.
Skipped(stream, at, level) ==
    LET event == EventAt(stream, at)
    IN  IF level = 0 \/ event \in {SyntaxError, End} THEN at
        ELSE Skipped(stream, at + 1,
                CASE IsOpen(event) -> level + 1 [] IsClose(event) -> level - 1 [] OTHER -> level)

\* to_integer(): the value of std::stoul(), narrowed to 32 bits.
Narrowed(value) ==
    IF value[1] = "number" THEN <<"number", value[2] % UintRange>> ELSE value

\* The value of an event, with the escapes of a string undone.
ValueOf(event) ==
    IF event[1] = "string" THEN <<"string", Unescaped(event[2])>> ELSE Narrowed(event)

TooBig(event) == event[1] = "number" /\ event[2] >= UlongRange

\* The event is a primitive that a value map can hold.
Holds(event) == event[1] \in {"boolean", "number", "string"} /\ ~TooBig(event)

RECURSIVE ParseObject(_, _, _, _), ParseMembers(_, _, _, _)

\* The part of parse_member() behind the name: the value is inserted under the
\* key, unless there is one; what has no place in a value map is skipped.
ParseValue(stream, at, map, key) ==
    LET event == EventAt(stream, at)
    IN  CASE event = SyntaxError -> Ended("runtime_error", at, map)
          [] event = ObjectOpen -> ParseObject(stream, at, map, key)
          [] TooBig(event) -> Ended("out_of_range", at, map)
          [] Holds(event) -> Parsed(at + 1, map @@ (key :> ValueOf(event)))
          [] event = Null -> Parsed(at + 1, map)
          [] event = ArrayOpen -> Parsed(Skipped(stream, at + 1, 1), map)
          [] OTHER -> Parsed(at, map)

\* The loop of parse_object(), a parse_member() at a time.
ParseMembers(stream, at, map, prefix) ==
    LET event == EventAt(stream, at)
        value == ParseValue(stream, at + 1, map, Append(prefix, event[3]))
        member == Expect(MemberClose, stream, value.at, value.map)
    IN  IF event = SyntaxError THEN Ended("runtime_error", at, map)
        ELSE IF event[1] # "member" \/ IsClose(event) THEN Parsed(at, map)
        ELSE IF value.status # "ok" THEN value
        ELSE IF member.status # "ok" THEN member
        ELSE ParseMembers(stream, member.at, member.map, prefix)

ParseObject(stream, at, map, prefix) ==
    LET open == Expect(ObjectOpen, stream, at, map)
        members == ParseMembers(stream, open.at, open.map, prefix)
    IN  IF open.status # "ok" THEN open
        ELSE IF members.status # "ok" THEN members
        ELSE Expect(ObjectClose, stream, members.at, members.map)

\* load_value_map(): a runtime_error makes an empty value map, other exceptions
\* get out; what parse_object() returns is not looked at.
Loaded(lines) ==
    LET r == ParseObject(Stream(lines), 1, <<>>, <<>>)
    IN  [status |-> IF r.status = "out_of_range" THEN "out_of_range" ELSE "ok",
         map |-> IF r.status = "runtime_error" THEN <<>> ELSE r.map]
=============================================================================
