---------------------------- MODULE DoubleArray ----------------------------
(***************************************************************************)
(* Building a double array trie (tetengo::trie::double_array_builder) in a *)
(* memory_storage, and looking keys up in it (double_array). A cell holds  *)
(* the base of the children of its node and, as its check, the character   *)
(* that leads to it: the child along c of a node with base b is cell b + c *)
(* if the check of that cell is c. Nothing in a cell names its parent, so  *)
(* that no two nodes may have the same base.                               *)
(*                                                                         *)
(* A key is a sequence of characters, which are numbers between the        *)
(* terminator 0 and the check of a vacant cell.                            *)
(***************************************************************************)
EXTENDS Integers, SequencesExt

CONSTANTS
    Factors,   \* choices of the density factor
    Vacant,    \* vacant_check_value(): 0xFF
    BaseHalf   \* a base is stored in 24 bits: half of their range

ASSUME VacantAssumption == Vacant \in Nat \ {0}
ASSUME BaseAssumption == BaseHalf \in Nat /\ Vacant <= BaseHalf

Terminator == 0

\* A zero factor makes the builder throw std::invalid_argument.
ASSUME FactorAssumption == Factors \subseteq Nat \ {0}

VARIABLES
    elements,   \* the elements, sorted
    factor,     \* density_factor
    cells,      \* m_base_check_array, a function from indexes
    bases,      \* base_uniquer
    frames      \* the calls of build_iter() yet to run, the next one first

buildVars == <<elements, factor, cells, bases, frames>>

-----------------------------------------------------------------------------
(* Elements                                                                *)

CodeAt(key, offset) == IF offset < Len(key) THEN key[offset + 1] ELSE Terminator

\* std::string_view compares characters as unsigned numbers.
Before(one, another) ==
    \/ IsStrictPrefix(one, another)
    \/ \E i \in DOMAIN one \cap DOMAIN another :
          SubSeq(one, 1, i - 1) = SubSeq(another, 1, i - 1) /\ one[i] < another[i]

\* The numbers of a finite set, the least one first.
InOrder(S) ==
    [n \in 1..Cardinality(S) |-> CHOOSE x \in S : Cardinality({y \in S : y < x}) = n - 1]

\* std::stable_sort()
Sorted(list) ==
    LET Precedes(i, j) == \/ Before(list[i].key, list[j].key)
                          \/ list[i].key = list[j].key /\ i < j
        rank(i) == Cardinality({j \in DOMAIN list : Precedes(j, i)})
    IN  [n \in DOMAIN list |-> list[CHOOSE i \in DOMAIN list : rank(i) = n - 1]]

-----------------------------------------------------------------------------
(* Cells. Reading a cell behind the end makes it, vacant.                  *)

VacantCell == [base |-> 0, check |-> Vacant]

Grown(array, index) ==
    [i \in DOMAIN array \cup 0..index |-> IF i \in DOMAIN array THEN array[i] ELSE VacantCell]

CheckAt(index) == IF index \in DOMAIN cells THEN cells[index].check ELSE Vacant

\* (base << 8) and back.
Stored(base) == ((base + BaseHalf) % (2 * BaseHalf)) - BaseHalf

-----------------------------------------------------------------------------
(* build_iter()                                                            *)

Frame(first, last, offset, index) ==
    [first |-> first, last |-> last, offset |-> offset, index |-> index]

\* The elements that go on with a character, and the characters they go on with.
Group(f, code) == {i \in f.first..f.last : CodeAt(elements[i].key, f.offset) = code}

Codes(f) == {CodeAt(elements[i].key, f.offset) : i \in f.first..f.last}

Least(S) == CHOOSE x \in S : \A y \in S : x <= y
Greatest(S) == CHOOSE x \in S : \A y \in S : y <= x

\* Variant: only the first child needs a vacant cell.
FitsFirst(base, f) == CheckAt(base + Least(Codes(f))) = Vacant

\* All children find vacant cells.
Fits(base, f) == \A code \in Codes(f) : CheckAt(base + code) = Vacant

\* Where calc_base() begins.
BaseFirst(f) == (f.index - f.index \div factor) - CodeAt(elements[f.first].key, f.offset) + 1

\* Variant: two nodes may have the same base.
BaseNotUnique(f) ==
    CHOOSE base \in BaseFirst(f)..(BaseHalf - 1) :
        /\ Fits(base, f)
        /\ \A b \in BaseFirst(f)..(base - 1) : ~Fits(b, f)

\* calc_base(): the first base that fits and is nobody else's.
BaseOf(f) ==
    CHOOSE base \in BaseFirst(f)..(BaseHalf - 1) :
        /\ Fits(base, f) /\ base \notin bases
        /\ \A b \in BaseFirst(f)..(base - 1) : ~Fits(b, f) \/ b \in bases

\* The cells with a base for the node of a frame and checks for its children. The
\* child along the terminator is a leaf, whose base is the value.
WithChildren(f, base) ==
    LET array == Grown(cells, base + Greatest(Codes(f)))
        code(i) == i - base
        added == elements[Least(Group(f, Terminator))]
    IN  [i \in DOMAIN array |->
            IF i = f.index THEN [array[i] EXCEPT !.base = Stored(base)]
            ELSE IF code(i) \notin Codes(f) THEN array[i]
            ELSE [base |-> IF code(i) = Terminator THEN Stored(added.value) ELSE array[i].base,
                  check |-> code(i)]]

\* Variant: the range of a child reaches one element too far.
FramesBelowTooFar(f, base) ==
    LET codes == InOrder(Codes(f) \ {Terminator})
    IN  [n \in DOMAIN codes |->
            Frame(Least(Group(f, codes[n])), Greatest(Group(f, codes[n])) + 1,
                  f.offset + 1, base + codes[n])]

\* The calls for the other children, in the order of their characters.
FramesBelow(f, base) ==
    LET codes == InOrder(Codes(f) \ {Terminator})
    IN  [n \in DOMAIN codes |->
            Frame(Least(Group(f, codes[n])), Greatest(Group(f, codes[n])),
                  f.offset + 1, base + codes[n])]

-----------------------------------------------------------------------------
\* build() sorts the elements and begins at the root.
BuildInit(list) ==
    /\ elements = Sorted(list)
    /\ frames = IF list = <<>> THEN <<>> ELSE <<Frame(1, Len(list), 0, 0)>>
    /\ factor \in Factors
    /\ cells = [i \in {0} |-> VacantCell]
    /\ bases = {}

\* One call of build_iter(), up to the calls it makes.
BuildIter ==
    /\ frames # <<>>
    /\ LET f == Head(frames)
           base == BaseOf(f)
       IN  /\ cells' = WithChildren(f, base)
           /\ bases' = bases \cup {base}
           /\ frames' = FramesBelow(f, base) \o Tail(frames)
    /\ UNCHANGED <<elements, factor>>

Built == frames = <<>>

-----------------------------------------------------------------------------
(* Looking up                                                              *)

None == -1

\* The child of a node along a character. The size that bounds the index is the one
\* of the array.
Child(array, index, c) ==
    IF index = None \/ array[index].base + c \notin DOMAIN array THEN None
    ELSE IF array[array[index].base + c].check # c THEN None
    ELSE array[index].base + c

\* The loop of traverse(): the node behind each of the characters.
Way(array, root, key) ==
    LET at[n \in 0..Len(key)] == IF n = 0 THEN root ELSE Child(array, at[n - 1], key[n])
    IN  at

\* traverse(): the index of the node of a key, or None.
Traverse(root, key) == Way(cells, root, key)[Len(key)]

NoValue == <<>>

\* find()
Find(root, key) ==
    LET index == Traverse(root, Append(key, Terminator))
    IN  IF index = None THEN NoValue ELSE <<cells[index].base>>

-----------------------------------------------------------------------------
(* Properties                                                              *)

\* The nodes that have got their base.
Inner ==
    {i \in DOMAIN cells :
        /\ i = 0 \/ cells[i].check \notin {Vacant, Terminator}
        /\ \A n \in DOMAIN frames : frames[n].index # i}

\* Every cell in use is the child of exactly one node, and the root of none,
\* however the children of the nodes interleave in the array.
EveryCellHasOneParent ==
    \A i \in DOMAIN cells :
        cells[i].check # Vacant =>
            i # 0 /\ Cardinality({p \in Inner : cells[p].base + cells[i].check = i}) = 1

\* What a double array answers is what a map from the keys would: of elements with
\* equal keys the first counts.
First(i) == \A j \in 1..(i - 1) : elements[j].key # elements[i].key

Expected(key) ==
    LET found == {i \in DOMAIN elements : First(i) /\ elements[i].key = key}
    IN  IF found = {} THEN NoValue ELSE <<elements[CHOOSE i \in found : TRUE].value>>

Pending(i) == {n \in DOMAIN frames : i \in frames[n].first..frames[n].last}

\* No call of build_iter() loses a key, whatever nodes are squeezed in between its
\* cells: an element is in one of the calls that are left, which goes on at the node
\* of what it has of the key, or else its key is found.
NoKeyIsLost ==
    \A i \in DOMAIN elements :
        /\ \A n \in Pending(i) :
              /\ frames[n].offset <= Len(elements[i].key)
              /\ Traverse(0, SubSeq(elements[i].key, 1, frames[n].offset)) = frames[n].index
        /\ Pending(i) = {} => Find(0, elements[i].key) = Expected(elements[i].key)
=============================================================================
