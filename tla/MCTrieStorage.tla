---------------------------- MODULE MCTrieStorage ----------------------------
(* The values of a trie with three kinds of serializers: integers of a fixed *)
(* size, strings, and integers with escapes.                                 *)
EXTENDS TrieStorage

CONSTANTS MaxCell, MaxValue    \* bounds: the last index of a cell, and of a value

CellIndexes  == 0..MaxCell
ValueIndexes == 0..MaxValue
SomeBases == {-2}

Integers2 == {<<1>>, <<Radix * Radix - 1>>}
Strings == {<<>>, <<Fd, 1>>}
Escapes == {<<0>>, <<Fd * Radix + Fe>>}

ValueCodecs ==
    {[fixed |-> 2, width |-> 2, escape |-> FALSE, string |-> FALSE, objects |-> Integers2],
     [fixed |-> 0, width |-> 1, escape |-> FALSE, string |-> TRUE, objects |-> Strings],
     [fixed |-> 0, width |-> 2, escape |-> TRUE, string |-> FALSE, objects |-> Escapes]}
=============================================================================
