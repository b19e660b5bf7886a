------------------------------- MODULE MCTrie -------------------------------
(* Keys of two types: strings that the serializer leaves alone, and strings *)
(* it escapes, which have all bytes up to Highest. Every set of two keys,   *)
(* all lists of two short keys, equal ones too, and the sets of MaxKeys     *)
(* short ones, in an order that is not theirs.                              *)
EXTENDS Trie

CONSTANTS
    MaxLength,   \* bound: the longest key
    MaxKeys,     \* bound: the most keys
    Highest      \* the largest byte of a key

Characters(escape) == IF escape THEN 0..Highest ELSE 1..Highest

KeysUpTo(length, escape) == UNION {[1..n -> Characters(escape)] : n \in 0..length}

AskedKeys == [escape \in BOOLEAN |-> KeysUpTo(MaxLength, escape)]

Shuffled(keys) == SetToSortSeq(keys, LAMBDA a, b : Before(b, a))

SetsOf(escape) ==
    LET all == KeysUpTo(MaxLength, escape)
    IN  {Shuffled(S) : S \in {{a, b} : a \in all, b \in all}
                            \cup UNION {kSubset(n, KeysUpTo(1, escape)) : n \in 3..MaxKeys}}

ListsOf(escape) == {<<>>} \cup [1..2 -> KeysUpTo(1, escape)]

TriesToBuild ==
    UNION {{[keys |-> k, escape |-> e] : k \in SetsOf(e) \cup ListsOf(e)} : e \in BOOLEAN}

\* The keys of the run fit, unless they have the byte that is the check of a vacant cell.
ASSUME KeysFitAssumption == Highest < TopByte => KeysFit /\ KeysAreFew /\ KeysDiffer

Words == {[base |-> 0, check |-> 0], [base |-> 0, check |-> Vacant]}
=============================================================================
