--------------------------- MODULE MCPropertySet ---------------------------
(* Two processes, keys that nest, and files that were written by hand.     *)
EXTENDS PropertySet, PropertyJson

Number == <<"number", 3>>
Text == <<"string", <<"pair", "\"", "\\">>>>
Hash == <<"string", <<"\"", "#">>>>
Bell == <<"string", <<"control">>>>

\* 1 and 1/2 are a value and a prefix of another key; each goes well with 2.
ThreeKeys == {<<<<1>>, Number>>, <<<<1, 2>>, Number>>, <<<<2>>, Text>>}

OneKey == {<<<<1>>, Number>>, <<<<1>>, Text>>}

\* A value with a quotation mark and a '#' behind it: CommittedIsReadBack is
\* violated with these settings.
HashKeys == {<<<<1>>, Text>>, <<<<1>>, Hash>>, <<<<1, 2>>, Hash>>}

\* A value with a control character that has no escape of one letter: the writer
\* leaves it as it is and the grammar refuses it, so that CommittedIsReadBack is
\* violated with these settings, too.
BellKeys == {<<<<1>>, Text>>, <<<<2>>, Bell>>}

Nothing == {}

\* The value Text in another spelling: \ud83c\udf4c, a character in two codes, \" and
\* \u005c.
Codes == <<"\\", "u", "d", "8", "3", "c", "\\", "u", "d", "f", "4", "c",
           "\\", "\"", "\\", "u", "0", "0", "5", "c">>

\* { "3": [[], null], "1": { "2": 7, "3": null }, "2": Codes }: the array
\* is skipped, and 7 does not fit into an unsigned integer of two bits.
Skipping ==
    [lines |-> <<<<ObjectOpen>>,
                 <<MemberOpen(3), ArrayOpen, ArrayOpen, ArrayClose, Null, ArrayClose, MemberClose>>,
                 <<MemberOpen(1), ObjectOpen>>,
                 <<MemberOpen(2), <<"number", 7>>, MemberClose>>,
                 <<MemberOpen(3), Null, MemberClose>>,
                 <<ObjectClose, MemberClose>>,
                 <<MemberOpen(2), <<"string", Codes>>, MemberClose>>,
                 <<ObjectClose>>>>,
     means |-> (<<1, 2>> :> <<"number", 3>>) @@ (<<2>> :> Text)]

\* { "1": 16 }, too big for std::stoul().
BigNumber ==
    [lines |-> <<<<ObjectOpen>>, <<MemberOpen(1), <<"number", 16>>, MemberClose>>, <<ObjectClose>>>>,
     means |-> NoValues]

ByHand == {Skipping, BigNumber}

\* None of the settings of the run is one of the strings that the format loses.
ASSUME RoundTripAssumption == FormatRoundTrips
=============================================================================
