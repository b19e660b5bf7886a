-------------------------------- MODULE Trie --------------------------------
(***************************************************************************)
(* What a client does with a double array that has been built: it looks    *)
(* keys up, takes subtries, iterates over them (double_array_iterator), and*)
(* serializes the array and goes on with the file in an mmap_storage.      *)
(*                                                                         *)
(* The file is a sequence of words: the number of cells, the cells, the    *)
(* number of values, their size, and the values. The cell that a storage   *)
(* reads at an index is the word behind the first that has this place.     *)
(***************************************************************************)
EXTENDS DoubleArray, Serializer

CONSTANTS
    Tries,       \* records: keys, the keys of the elements as the client has
                 \* them; escape, if they are of a type that is escaped
    Asked,       \* the keys and prefixes a client of either sort asks for
    KeyWidth,    \* the bytes of a character of a key
    Iterated,    \* bound: the media that a client iterates over
    ValueWords   \* choices of the words of the values in the file, as cells

\* The largest byte is the check of a vacant cell.
ASSUME VacantIsTopByte == Vacant = TopByte

VARIABLES
    typed,      \* m_key_serializer and the keys of the elements, one of Tries
    medium,     \* "memory", or "file" for an mmap_storage
    tail,       \* the words of the file behind the cells, read as cells
    prefix,     \* the key prefix of the iterator's subtrie
    stack,      \* m_base_check_index_key_stack, the top first
    iterator,   \* "none", "advancing" inside of operator++, "ready" or "failed"
    current,    \* m_current, a sequence of at most one value
    yielded     \* history: the values the iterator has pointed to

clientVars == <<typed, medium, tail, prefix, stack, iterator, current, yielded>>
vars == <<elements, factor, cells, bases, frames, typed, medium, tail, prefix, stack, iterator, current, yielded>>

-----------------------------------------------------------------------------
(* The words of a file                                                     *)

Size == Cardinality(DOMAIN cells)

WordAsCell(number) == [base |-> number \div (Vacant + 1), check |-> number % (Vacant + 1)]

\* One word for each value: the values of a trie are of one size.
Tails ==
    {<<WordAsCell(Len(elements)), WordAsCell(1)>> \o words
       : words \in [1..Len(elements) -> ValueWords]}

\* mmap_storage looks for the end of the file, not for the end of the cells.
InFile(index) == index < Size + Len(tail)

Readable(index) == medium = "memory" \/ InFile(index)

CellAt(index) ==
    IF index \in DOMAIN cells THEN cells[index]
    ELSE IF medium = "memory" THEN VacantCell
    ELSE tail[index - Size + 1]

-----------------------------------------------------------------------------
(* The iterator                                                            *)

\* The characters of the loop, but those whose index would be negative.
CodesBelow(base) == {code \in 0..(Vacant - 1) : base + code >= 0}

\* Variant: the children are pushed in the order of their characters.
ChildrenBackwards(base) ==
    LET order == InOrder({c \in CodesBelow(base) : CellAt(base + c).check = c})
    IN  [n \in DOMAIN order |-> base + order[Len(order) + 1 - n]]

\* The children of a node with a base, the last one pushed first.
Children(base) ==
    LET order == InOrder({c \in CodesBelow(base) : CellAt(base + c).check = c})
    IN  [n \in DOMAIN order |-> base + order[n]]

\* A key, or a prefix of one, as the double array has it.
Form(key) == Serialized(key, KeyWidth, typed.escape)

\* begin() of the subtrie of a prefix, a clone of the double array with another root.
Begin(p) ==
    /\ Built
    /\ iterator = "none"
    /\ medium \in Iterated
    /\ Traverse(0, Form(p)) # None
    /\ prefix' = p
    /\ stack' = <<Traverse(0, Form(p))>>
    /\ iterator' = "advancing"
    /\ UNCHANGED <<buildVars, typed, medium, tail, current, yielded>>

\* next() with an empty stack
PassTheEnd ==
    /\ iterator = "advancing"
    /\ stack = <<>>
    /\ iterator' = "ready"
    /\ current' = <<>>
    /\ UNCHANGED <<buildVars, typed, medium, tail, prefix, stack, yielded>>

\* The cell that next() takes off the stack.
Popped == CellAt(Head(stack))

\* next() takes a leaf off the stack.
Yield ==
    /\ iterator = "advancing"
    /\ stack # <<>>
    /\ Popped.check = Terminator
    /\ stack' = Tail(stack)
    /\ current' = <<Popped.base>>
    /\ yielded' = Append(yielded, Popped.base)
    /\ iterator' = "ready"
    /\ UNCHANGED <<buildVars, typed, medium, tail, prefix>>

\* The storage after the characters have been tried: memory has grown.
LookedAt(base) ==
    IF medium = "file" \/ CodesBelow(base) = {} THEN cells
    ELSE Grown(cells, base + Greatest(CodesBelow(base)))

\* next() takes a node off the stack, pushes its children and calls itself. Behind
\* the end of a file std::ios_base::failure is thrown.
Visit ==
    /\ iterator = "advancing"
    /\ stack # <<>>
    /\ Popped.check # Terminator
    /\ IF \A code \in CodesBelow(Popped.base) : Readable(Popped.base + code)
         THEN /\ stack' = Children(Popped.base) \o Tail(stack)
              /\ UNCHANGED iterator
         ELSE /\ iterator' = "failed"
              /\ UNCHANGED stack
    /\ cells' = LookedAt(Popped.base)
    /\ UNCHANGED <<elements, factor, bases, frames, typed, medium, tail, prefix, current, yielded>>

\* operator++, behind the last value as well.
Increment ==
    /\ iterator = "ready"
    /\ iterator' = "advancing"
    /\ UNCHANGED <<buildVars, typed, medium, tail, prefix, stack, current, yielded>>

NoIterator == prefix = <<>> /\ stack = <<>> /\ iterator = "none" /\ current = <<>> /\ yielded = <<>>

\* The client destroys the iterator and the subtrie.
Destroy ==
    /\ iterator \in {"ready", "failed"}
    /\ prefix' = <<>> /\ stack' = <<>> /\ iterator' = "none" /\ current' = <<>> /\ yielded' = <<>>
    /\ UNCHANGED <<buildVars, typed, medium, tail>>

\* The client serializes the trie and opens the file in an mmap_storage.
Serialize ==
    /\ Built
    /\ medium = "memory"
    /\ iterator = "none"
    /\ medium' = "file"
    /\ tail' \in Tails
    /\ UNCHANGED <<buildVars, typed, prefix, stack, iterator, current, yielded>>

-----------------------------------------------------------------------------
\* The constructor of trie serializes the keys and gives the double array their
\* places for values.
Contents(trie) ==
    [n \in DOMAIN trie.keys |->
        [key |-> Serialized(trie.keys[n], KeyWidth, trie.escape), value |-> n - 1]]

\* What the double array needs of its keys: no byte is the check of a vacant cell, none
\* is the terminator, and the places of the values fit into a base.
KeysFit ==
    \A trie \in Tries :
        /\ Contents(trie) \in Seq([key : Seq(1..(Vacant - 1)), value : 0..(BaseHalf - 1)])
        /\ \A p \in Asked[trie.escape] : Serialized(p, KeyWidth, trie.escape) \in Seq(Nat)

\* The beginnings of the keys of a trie, each of which takes a node, and two have the same
\* one at most.
Beginnings(trie) ==
    UNION {{n} \X (0..Len(Contents(trie)[n].key)) : n \in DOMAIN trie.keys}

\* The keys are so few that there is a base for every node, wherever the others are.
KeysAreFew == \A trie \in Tries : Vacant * Cardinality(Beginnings(trie)) + 2 <= BaseHalf

\* The strings of a trie and of what is asked of it, and their characters.
StringsOf(trie) == {trie.keys[n] : n \in DOMAIN trie.keys} \cup Asked[trie.escape]
CharactersOf(trie) == UNION {{s[i] : i \in DOMAIN s} : s \in StringsOf(trie)}

\* Characters fit into their bytes, so that different ones have different bytes. And
\* what is asked is made of the bytes that keys are made of.
KeysDiffer ==
    /\ KeyWidth \in Nat \ {0}
    /\ \A trie \in Tries :
          LET Bytes(c) == ToBytesWithoutEscape(c, KeyWidth)
          IN  /\ StringsOf(trie) \subseteq Seq(CharactersOf(trie))
              /\ \A c \in CharactersOf(trie) : Bytes(c) \in [1..KeyWidth -> Byte]
              /\ \A c, d \in CharactersOf(trie) : Bytes(c) = Bytes(d) => c = d
              /\ \A s \in StringsOf(trie) :
                    Serialized(s, KeyWidth, trie.escape) \in Seq(1..(Vacant - 1))

\* The client iterates over tries in memory only.
IteratedInMemory == Iterated \subseteq {"memory"}

Init ==
    /\ typed \in Tries
    /\ BuildInit(Contents(typed))
    /\ medium = "memory" /\ tail = <<>> /\ NoIterator

Advance == PassTheEnd \/ Yield \/ Visit

Next ==
    \/ BuildIter /\ UNCHANGED clientVars
    \/ \E p \in Asked[typed.escape] : Begin(p)
    \/ Advance
    \/ Increment
    \/ Destroy
    \/ Serialize

Spec == Init /\ [][Next]_vars

-----------------------------------------------------------------------------
(* Properties                                                              *)

CellType == [base : (-BaseHalf)..(BaseHalf - 1), check : 0..Vacant]

TypeOK ==
    /\ DOMAIN cells = 0..(Size - 1)
    /\ \A i \in DOMAIN cells : cells[i] \in CellType
    /\ bases \subseteq (-BaseHalf)..(BaseHalf - 1)
    /\ \A n \in DOMAIN frames : /\ frames[n].index \in DOMAIN cells
                                /\ frames[n].first \in 1..frames[n].last
                                /\ frames[n].last \in DOMAIN elements
    /\ medium \in {"memory", "file"}
    /\ iterator \in {"none", "advancing", "ready", "failed"}
    /\ \A n \in DOMAIN stack : stack[n] >= 0

\* What a map from the client's keys would answer.
Promised(key) ==
    LET places == {n \in DOMAIN typed.keys : typed.keys[n] = key}
    IN  IF places = {} THEN NoValue ELSE <<Least(places) - 1>>

\* The elements whose keys, as the client has them, begin with a prefix.
Under(p) ==
    {i \in DOMAIN elements : First(i) /\ IsPrefix(p, typed.keys[elements[i].value + 1])}

\* Once the array is built a trie has what a map from the client's keys has: the
\* value of every key and nothing for any other, from the root as well as from the
\* root of any subtrie, of which there is one for the prefixes of the keys only.
\* So the serialized keys are as different, and begin with each other, as the keys.
FindsExactlyTheKeys ==
    Built =>
        \A key \in Asked[typed.escape] : \A n \in 0..Len(key) :
            LET root == Traverse(0, Form(SubSeq(key, 1, n)))
            IN  /\ (root # None) <=> (Under(SubSeq(key, 1, n)) # {} \/ n = 0)
                /\ root # None => Find(root, Form(SubSeq(key, n + 1, Len(key)))) = Promised(key)

\* The values of the elements with a prefix, in the order of their keys.
ValuesUnder(p) ==
    LET order == InOrder(Under(p))
    IN  [n \in DOMAIN order |-> elements[order[n]].value]

\* An iterator over a trie, or over a subtrie, points to the values of exactly the
\* keys below it, in the order of the keys. (In memory: over a file it does not.)
IteratesInOrder ==
    /\ iterator # "failed"
    /\ iterator # "none" => IsPrefix(yielded, ValuesUnder(prefix))
    /\ iterator = "ready" /\ current = <<>> => yielded = ValuesUnder(prefix)
=============================================================================
