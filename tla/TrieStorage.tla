----------------------------- MODULE TrieStorage -----------------------------
(***************************************************************************)
(* The storages of a trie: memory_storage, shared_storage, the file that   *)
(* they write and load, and mmap_storage, which answers from the file      *)
(* through a cache of values.                                              *)
(*                                                                         *)
(* A file is a sequence of units: an unsigned 32 bit word, which goes      *)
(* through the serializer as a whole, or a byte of a value.                *)
(***************************************************************************)
EXTENDS Serializer

CONSTANTS
    BaseHalf,      \* a base is stored in 24 bits: half of their range
    CellIndex, ValueIndex,  \* the indexes the client uses, from 0
    Bases, Checks, \* what it sets
    Codecs,        \* value serializers with their deserializers, records: fixed,
                   \* width, escape, string; and the objects they are used for
    Capacities,    \* choices of value_cache_capacity
    ContentOffsets,\* choices of content_offset, in units
    MaxStorages,   \* bound: storages in memory
    MaxWrites      \* bound: bases, checks and values set before there is a file

ASSUME IndexAssumption == CellIndex \subseteq Nat /\ ValueIndex \subseteq Nat
ASSUME MappingAssumption == Capacities \subseteq Nat \ {0} /\ ContentOffsets \subseteq Nat
\* A base fits into its bits of a word.
ASSUME WordAssumption ==
    /\ BaseHalf \in Nat \ {0} /\ Bases \subseteq -BaseHalf..BaseHalf - 1
    /\ Checks \subseteq Byte

\* What the value serializer and the deserializer of a client compute.
Encoded(c, object) == Serialized(object, c.width, c.escape)
Decoded(c, bytes) ==
    IF c.string THEN DeserializedString(bytes, c.width, c.escape)
                ELSE DeserializedInteger(bytes, c.width, c.escape)

\* They are inverse to each other, and a fixed size is the size of every value, as
\* serialize_value_array() asserts.
ASSUME CodecAssumption ==
    \A c \in Codecs : c.fixed \in Nat /\ \A object \in c.objects :
        /\ Encoded(c, object) \in Seq(Byte) /\ Decoded(c, Encoded(c, object)) = object
        /\ c.fixed > 0 => Len(Encoded(c, object)) = c.fixed

VARIABLES
    codec,      \* the value serializer and the deserializer
    entities,   \* the implementations of memory_storage: m_base_check_array and
                \* m_value_array, whose elements are sequences of at most one
    storages,   \* the storages: their kind and their entity
    writes,     \* how often something has been set
    file,       \* what has been written of the file
    written,    \* history: the contents that were to be written, and the length
    mapped,     \* the mmap_storage: its state and its parameters
    orders,     \* m_access_orders
    cache,      \* m_map, without the iterators
    recent      \* history: the indexes asked for last, the latest first

memoryVars == <<codec, entities, storages, writes>>
cacheVars  == <<orders, cache, recent>>
vars == <<memoryVars, file, written, mapped, cacheVars>>
-----------------------------------------------------------------------------
(* memory_storage                                                          *)

VacantWord == TopByte

\* Shifted to the right as a signed number.
BaseOf(word) ==
    LET bits == word \div Radix
    IN  IF bits >= BaseHalf THEN bits - 2 * BaseHalf ELSE bits
CheckOf(word) == word % Radix

WithBase(word, base)   == Radix * (base % (2 * BaseHalf)) + CheckOf(word)
WithCheck(word, check) == (word - CheckOf(word)) + check

Grown(array, size, new) == array \o [i \in 1..size - Len(array) |-> new]

\* The array with an index replaced, which it grows up to.
Replaced(array, index, new, element) ==
    [Grown(array, index + 1, new) EXCEPT ![index + 1] = element]
WordAt(s, index) ==
    IF index < Len(entities[storages[s].entity].cells)
      THEN entities[storages[s].entity].cells[index + 1] ELSE VacantWord

InEntity(s, entity) ==
    /\ writes < MaxWrites /\ written.length = 0 /\ writes' = writes + 1
    /\ entities' = [entities EXCEPT ![storages[s].entity] = entity]
    /\ UNCHANGED <<codec, storages, file, written, mapped, cacheVars>>

Entity(s) == entities[storages[s].entity]

SetBaseAt(s, index, base) ==
    InEntity(s, [Entity(s) EXCEPT !.cells =
        Replaced(@, index, VacantWord, WithBase(WordAt(s, index), base))])

SetCheckAt(s, index, check) ==
    InEntity(s, [Entity(s) EXCEPT !.cells =
        Replaced(@, index, VacantWord, WithCheck(WordAt(s, index), check))])

AddValueAt(s, index, value) ==
    InEntity(s, [Entity(s) EXCEPT !.values =
        Replaced(@, index, <<>>, <<value>>)])

\* base_at() and check_at() are const and make the array grow.
LookAt(s, index) ==
    /\ index >= Len(Entity(s).cells) /\ written.length = 0
    /\ entities' = [entities EXCEPT ![storages[s].entity].cells = Grown(@, index + 1, VacantWord)]
    /\ UNCHANGED <<codec, storages, writes, file, written, mapped, cacheVars>>

\* Variant: a clone of a memory_storage shares, as one of a shared_storage does.
CloneShared(s) ==
    /\ Len(storages) < MaxStorages /\ written.length = 0
    /\ entities' = entities /\ storages' = Append(storages, storages[s])
    /\ UNCHANGED <<codec, writes, file, written, mapped, cacheVars>>

Clone(s) ==
    /\ Len(storages) < MaxStorages /\ written.length = 0
    /\ IF storages[s].kind = "shared"
         THEN entities' = entities /\ storages' = Append(storages, storages[s])
         ELSE /\ entities' = Append(entities, Entity(s))
              /\ storages' = Append(storages, [kind |-> "memory", entity |-> Len(entities) + 1])
    /\ UNCHANGED <<codec, writes, file, written, mapped, cacheVars>>

\* The client destroys the storages in memory, to go on with the file alone.
DestroyAll ==
    /\ written.length > 0 /\ storages # <<>>
    /\ entities' = <<>> /\ storages' = <<>>
    /\ UNCHANGED <<codec, writes, file, written, mapped, cacheVars>>
-----------------------------------------------------------------------------
(* The file                                                                *)

ToValue(object)  == Encoded(codec, object)
FromValue(bytes) == Decoded(codec, bytes)

Uninitialized(fixed) == [i \in 1..fixed |-> TopByte]

\* What stands for one element of the value array.
ValueUnits(value) ==
    IF codec.fixed = 0
      THEN IF value = <<>> THEN <<0>>
           ELSE <<Len(ToValue(Head(value)))>> \o ToValue(Head(value))
      ELSE IF value = <<>> THEN Uninitialized(codec.fixed) ELSE ToValue(Head(value))

Units(entity) ==
    <<Len(entity.cells)>> \o entity.cells \o <<Len(entity.values), codec.fixed>>
    \o FlattenSeq([i \in DOMAIN entity.values |-> ValueUnits(entity.values[i])])

\* serialize(): a stream that fails on the way is not noticed.
Serialize(s) ==
    /\ written.length = 0
    /\ \E size \in 0..Len(Units(Entity(s))) :
          file' = SubSeq(Units(Entity(s)), 1, size)
    /\ written' = [length |-> Len(Units(Entity(s))), entity |-> Entity(s)]
    /\ UNCHANGED <<memoryVars, mapped, cacheVars>>

\* Reading one element of the value array from where the stream is.
ValueFrom(fixed, s) ==
    LET size == IF fixed > 0 THEN fixed ELSE file[s.at + 1]
        from == IF fixed > 0 THEN s.at ELSE s.at + 1
        bytes == SubSeq(file, from + 1, from + size)
        isNone == IF fixed > 0 THEN bytes = Uninitialized(fixed) ELSE size = 0
    IN  IF s.failed \/ (fixed = 0 /\ s.at >= Len(file)) \/ from + size > Len(file)
          THEN [at |-> s.at, values |-> s.values, failed |-> TRUE]
          ELSE [at |-> from + size, failed |-> FALSE,
                values |-> Append(s.values, IF isNone THEN <<>> ELSE <<FromValue(bytes)>>)]

\* Reading as many as there are, one after the other.
ValuesFrom(fixed, start, count) ==
    LET after[n \in 0..count] ==
            IF n = 0 THEN [at |-> start, values |-> <<>>, failed |-> FALSE]
            ELSE ValueFrom(fixed, after[n - 1])
    IN  after[count]

\* deserialize(): a word or a value that is not all there makes it fail.
Deserialized ==
    LET cellCount == file[1]
        values == ValuesFrom(file[cellCount + 3], cellCount + 3, file[cellCount + 2])
    IN  IF file = <<>> \/ Len(file) < cellCount + 3
          THEN [failed |-> TRUE, cells |-> <<>>, values |-> <<>>]
          ELSE [failed |-> values.failed, cells |-> SubSeq(file, 2, cellCount + 1),
                values |-> values.values]

\* The constructors that load a file. If it throws there is no storage.
Load(kind) ==
    /\ written.length > 0 /\ Len(storages) < MaxStorages /\ mapped.state = "none"
    /\ IF Deserialized.failed
         THEN UNCHANGED <<entities, storages>>
         ELSE /\ entities' = Append(entities, [cells |-> Deserialized.cells,
                                              values |-> Deserialized.values])
              /\ storages' = Append(storages, [kind |-> kind, entity |-> Len(entities) + 1])
    /\ UNCHANGED <<codec, writes, file, written, mapped, cacheVars>>
-----------------------------------------------------------------------------
(* mmap_storage. Its clones share everything with it.                      *)

\* read_bytes(): the end of the file is compared with a place that does not
\* count the content offset, and what is mapped then may lie behind the end.
Reached(at, size) ==
    IF at + size > mapped.offset + Len(file) THEN "failed"
    ELSE IF at + size > Len(file) THEN "outside"
    ELSE "read"

CellCount == file[1]
FixedSize == file[CellCount + 3]

\* What the words that the constructor reads come to.
Header ==
    IF Reached(0, 1) # "read" THEN Reached(0, 1)
    ELSE IF Reached(CellCount + 2, 1) # "read" THEN Reached(CellCount + 2, 1)
    ELSE IF FixedSize = 0 THEN "failed" ELSE "read"

Map(capacity, offset) ==
    /\ written.length > 0 /\ mapped.state = "none" /\ storages = <<>>
    /\ mapped' = [state |-> "opening", capacity |-> capacity, offset |-> offset]
    /\ UNCHANGED <<memoryVars, file, written, cacheVars>>

ReadHeader ==
    /\ mapped.state = "opening"
    /\ mapped' = [mapped EXCEPT !.state =
                    IF Header = "read" THEN "open" ELSE IF Header = "failed" THEN "refused"
                    ELSE "broken"]
    /\ UNCHANGED <<memoryVars, file, written, cacheVars>>

\* Variant: the count of the values is forgotten.
ValuesTooEarly(index) == CellCount + 2 + FixedSize * index

ValuePlace(index) == CellCount + 3 + FixedSize * index

ValueInFile(index) ==
    LET bytes == SubSeq(file, ValuePlace(index) + 1, ValuePlace(index) + FixedSize)
    IN  IF bytes = Uninitialized(FixedSize) THEN <<>> ELSE <<FromValue(bytes)>>

Newest(list, n) == SubSeq(list, 1, Min({n, Len(list)}))

\* Variant: the oldest goes only when there is one too many.
OneTooMany == Newest(orders, mapped.capacity)

\* value_cache::insert(): the oldest go until there is room for one.
Staying == Newest(orders, mapped.capacity - 1)

\* Variant: an index that is asked for again keeps its place.
TouchedInPlace(list, index) == list

\* value_cache::at(): the index becomes the newest.
Touched(list, index) == <<index>> \o RemoveFirst(list, index)

\* The capacity's number of indexes asked for last.
Recently(index) ==
    Newest(<<index>> \o RemoveFirst(recent, index), mapped.capacity)

\* value_at() of a value that is in the cache.
Hit(index) ==
    /\ mapped.state = "open" /\ index \in DOMAIN cache
    /\ orders' = Touched(orders, index)
    /\ recent' = Recently(index)
    /\ UNCHANGED <<memoryVars, file, written, mapped, cache>>

\* value_at() of one that is not, and can be read.
Miss(index) ==
    /\ mapped.state = "open" /\ index \notin DOMAIN cache
    /\ Reached(ValuePlace(index), FixedSize) = "read"
    /\ orders' = <<index>> \o Staying
    /\ cache' = [i \in {index} \cup Range(Staying) |->
                    IF i = index THEN ValueInFile(index) ELSE cache[i]]
    /\ recent' = Recently(index)
    /\ UNCHANGED <<memoryVars, file, written, mapped>>

\* value_at() of one that is not in the file: it throws, or reads behind the end.
Beyond(index) ==
    /\ mapped.state = "open" /\ index \notin DOMAIN cache
    /\ Reached(ValuePlace(index), FixedSize) = "outside"
    /\ mapped' = [mapped EXCEPT !.state = "broken"]
    /\ UNCHANGED <<memoryVars, file, written, cacheVars>>
-----------------------------------------------------------------------------
NewEntity == [cells |-> <<VacantWord>>, values |-> <<>>]

Init ==
    /\ codec \in Codecs
    /\ entities = <<NewEntity>>
    /\ \E kind \in {"memory", "shared"} : storages = <<[kind |-> kind, entity |-> 1]>>
    /\ writes = 0
    /\ file = <<>> /\ written = [length |-> 0, entity |-> NewEntity]
    /\ mapped = [state |-> "none", capacity |-> 0, offset |-> 0]
    /\ orders = <<>> /\ cache = <<>> /\ recent = <<>>

Next ==
    \/ \E s \in DOMAIN storages :
          \/ \E index \in CellIndex, base \in Bases : SetBaseAt(s, index, base)
          \/ \E index \in CellIndex, check \in Checks : SetCheckAt(s, index, check)
          \/ \E index \in ValueIndex, value \in codec.objects : AddValueAt(s, index, value)
          \/ \E index \in CellIndex : LookAt(s, index)
          \/ Clone(s)
          \/ Serialize(s)
    \/ DestroyAll
    \/ \E kind \in {"memory", "shared"} : Load(kind)
    \/ \E capacity \in Capacities, offset \in ContentOffsets : Map(capacity, offset)
    \/ ReadHeader
    \/ \E index \in ValueIndex : Hit(index) \/ Miss(index) \/ Beyond(index)

Spec == Init /\ [][Next]_vars
-----------------------------------------------------------------------------
(* Properties                                                              *)

WordType == 0..(2 * BaseHalf * Radix - 1)
EntityType(e) ==
    /\ \A i \in DOMAIN e.cells : e.cells[i] \in WordType
    /\ \A i \in DOMAIN e.values : e.values[i] = <<>> \/ Head(e.values[i]) \in codec.objects

TypeOK ==
    /\ \A n \in DOMAIN entities : EntityType(entities[n])
    /\ \A s \in DOMAIN storages : storages[s].kind \in {"memory", "shared"}
                                  /\ storages[s].entity \in DOMAIN entities
    /\ Len(file) <= written.length
    /\ mapped.state \in {"none", "opening", "open", "refused", "broken"}
    /\ Len(orders) <= mapped.capacity /\ IsInjective(orders) /\ Range(orders) = DOMAIN cache

\* What an entity answers at every index.
Answers(e) ==
    [cells |-> [i \in CellIndex |-> IF i < Len(e.cells)
                  THEN [base |-> BaseOf(e.cells[i + 1]), check |-> CheckOf(e.cells[i + 1])]
                  ELSE [base |-> 0, check |-> TopByte]],
     values |-> [i \in ValueIndex |-> IF i < Len(e.values) THEN e.values[i + 1] ELSE <<>>]]

\* A file keeps a value if its bytes are not those that stand for none.
KeptInFile(value) ==
    IF codec.fixed > 0 THEN ToValue(value) # Uninitialized(codec.fixed) ELSE ToValue(value) # <<>>

Contract == INSTANCE StorageContract WITH
    Values <- UNION {c.objects : c \in Codecs},
    NewCell <- [base |-> 0, check |-> TopByte],
    lost <- {value \in codec.objects : ~KeptInFile(value)},
    groups <- [n \in DOMAIN entities |-> Answers(entities[n])],
    members <- [s \in DOMAIN storages |->
                  [group |-> storages[s].entity, share |-> storages[s].kind = "shared"]],
    saved <- IF written.length > 0 /\ Len(file) = written.length
               THEN <<Answers(written.entity)>> ELSE <<>>

\* Bases and checks share a word, arrays grow when they are read, and values have
\* no lengths of their own in the file: but what a storage answers is what the
\* contract says, for every storage, clone and loaded file, and a file that has
\* not been written to its end is refused.
ImplementsStorageContract == Contract!Spec

\* value_at() of the mapped file, with the cache in any state: if it returns, and what.
Returns(index) ==
    index \in DOMAIN cache \/ Reached(ValuePlace(index), FixedSize) = "read"
MappedValue(index) ==
    IF index \in DOMAIN cache THEN cache[index] ELSE ValueInFile(index)

\* A mapped trie, from the beginning of a file, answers what was written or throws,
\* and throws only if the file is not complete; nothing is read behind its end.
MappedAnswersAsWritten ==
    /\ mapped.state = "open" =>
          \A i \in ValueIndex \cap 0..(Len(written.entity.values) - 1) :
              IF Returns(i)
                THEN MappedValue(i) = Contract!Recovered(Answers(written.entity)).values[i]
                ELSE Len(file) < written.length
    /\ mapped.state = "refused" => codec.fixed = 0 \/ Len(file) < written.length
    /\ mapped.offset = 0 => mapped.state # "broken"

\* value_at() returns a pointer into the cache: as many of the values asked for last
\* as it has room for are still there.
RecentValuesStay ==
    Range(recent) \subseteq DOMAIN cache
=============================================================================
