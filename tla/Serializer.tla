----------------------------- MODULE Serializer -----------------------------
(***************************************************************************)
(* default_serializer and default_deserializer: integers and strings of    *)
(* characters of some width as bytes, with an escape that leaves no zero   *)
(* byte in the keys of a trie.  An object is the sequence of its           *)
(* characters, an integer a sequence of one; a number stands for its bits, *)
(* so that -1 is the largest.                                              *)
(***************************************************************************)
EXTENDS Integers, Sequences, SequencesExt

CONSTANT TopByte    \* the largest byte, 0xFF

\* So that the two bytes of the escape are not zero.
ASSUME TopByteAssumption == TopByte \in Nat /\ TopByte >= 3

Byte  == 0..TopByte
Radix == TopByte + 1

\* 0xFD, which escapes itself and 0xFE, and 0xFE, which stands for zero.
Fd == TopByte - 2
Fe == TopByte - 1
----------------------------------------------------------------------------
ToBytesWithoutEscape(value, width) ==
    [i \in 1..width |-> (value \div (Radix ^ (width - i))) % Radix]

\* Variant: the byte that escapes is not escaped itself.
FdUnescaped(byte) ==
    CASE byte = 0 -> <<Fe>> [] byte = Fe -> <<Fd, Fe>> [] OTHER -> <<byte>>

Escaped(byte) ==
    CASE byte = 0 -> <<Fe>> [] byte \in {Fd, Fe} -> <<Fd, byte>> [] OTHER -> <<byte>>

ToBytesWithEscape(value, width) ==
    LET bytes == ToBytesWithoutEscape(value, width)
    IN  FlattenSeq([i \in 1..width |-> Escaped(bytes[i])])

ToBytes(value, width, escape) ==
    IF escape THEN ToBytesWithEscape(value, width) ELSE ToBytesWithoutEscape(value, width)

\* operator() of the serializers of strings, and of integers.
Serialized(object, width, escape) ==
    FlattenSeq([i \in DOMAIN object |-> ToBytes(object[i], width, escape)])
----------------------------------------------------------------------------
\* The object grows by a byte, and loses what no longer fits into its type.
Shifted(value, byte, width) == (value * Radix + byte) % (Radix ^ width)

FromBytesWithoutEscape(bytes, width) ==
    FoldLeft(LAMBDA value, byte : Shifted(value, byte, width), 0, bytes)

FromBytesWithEscape(bytes, width) ==
    FoldLeft(LAMBDA s, byte :
                IF ~s.escaping /\ byte = Fd
                  THEN [s EXCEPT !.escaping = TRUE]
                  ELSE [value |-> Shifted(s.value, IF byte = Fe /\ ~s.escaping THEN 0 ELSE byte, width),
                        escaping |-> FALSE],
             [value |-> 0, escaping |-> FALSE], bytes).value

FromBytes(bytes, width, escape) ==
    IF escape THEN FromBytesWithEscape(bytes, width) ELSE FromBytesWithoutEscape(bytes, width)

DeserializedInteger(bytes, width, escape) == <<FromBytes(bytes, width, escape)>>

\* A string is read in steps of one character, whether or not it has escapes.
DeserializedString(bytes, width, escape) ==
    [i \in 1..Len(bytes) \div width |->
        FromBytes(SubSeq(bytes, (i - 1) * width + 1, i * width), width, escape)]
=============================================================================
