# tetengo in TLA+

Specifications of the parts of tetengo that carry logic of their own: what they
do, which properties they have, and which of these are proved. Every definition
is translated from the C++ code; `PROJECT.json` maps it to the lines it stands
for.

    tlc -workers 2 -config MCChannel.cfg MCChannel      # checks a model
    tlapm ChannelProofs.tla                             # checks the proofs

## 1. The system

tetengo is a set of C++ libraries with C bindings, and an installer for Windows.
The libraries that keep state:

| part | state | operations | how it interacts |
|---|---|---|---|
| json: `channel` | queue of optional items, mutex, condition variable | `insert` (element or exception), `peek`, `take`, `closed`, `close` | shared by the two threads of a parser |
| json: `json_parser` | worker thread, abort flag, channel | `has_next`, `peek`, `next`, destructor | the worker runs the grammar; its handlers insert into the channel; the client pulls |
| json: `json_grammar` | none; a backtracking recognizer | `parse` with two handlers | reads characters from a reader; calls the handlers of the parser while it matches |
| json: readers | stream buffer, current line, location, queue of characters | `has_next`, `peek`, `next`, `get_location` | a chain of three; the grammar reads at its end, the handlers ask its middle |
| property: `property_set`, `file_storage`, `storage_proxy` | value map, dirty flag, real storage loaded late, the file | getters, setters, `update`, `commit` | the file is written by `json_writer` and read through the readers and the pull parser, perhaps by another process |
| property: `memory_storage` | a value map per path in a global map | load, save, getters, setters | several storages over one global |
| trie: `double_array` and its storages | base and check cells, values; a cache over a mapped file | build, `find`, `subtrie`, iteration, serialization | storages are shared between tries, subtries and iterators |
| lattice: `lattice` | input, graph of steps and nodes | `push_back`, `settle`, `nodes_at` | asks a vocabulary for entries and connection costs |
| lattice: `n_best_iterator`, `constraint` | priority queue of caps, current path | construction, `++`, `*` | walks the graph of a lattice that must not change |
| text: `encoder`, encodings | none | `encode`, `decode` | converts between code units |
| text: `grapheme_splitter` | none | `split` | uses the encodings and generated tables |
| platform_dependent, C bindings, setup | none of their own | adapters | call the operating system or the libraries above |

What is hard about them, and what makes them correct:

* **channel.** Producers and consumers sleep on one condition variable; the end
  marker takes an entry of the bounded queue; several threads close and insert.
  It must keep its bound, lose no wake-up, keep the end marker last, deliver in
  order, and accept nothing after a `close()`.
* **json_parser.** Each call of the client is two operations of the channel with
  the mutex released between them; `peek()` hands out a reference that is used
  without a lock; the destructor joins a worker that may be asleep on a full
  channel. To the client it must be a plain stream, and the destructor must
  terminate.
* **json_grammar.** Handlers are called while it still backtracks and are not
  undone. The events must be those of the text, and a refusal must be final.
* **readers.** Calls from two sides move the chain, and the last reader has
  loaded a line before the handlers ask for the location.
* **property.** A commit truncates the file and writes it line by line; another
  process may load in between, or the writer may crash. What a completed commit
  wrote must be read back; a part must never be taken for the whole.
* **lattice.** A node is computed from one step only, and must know the cheapest
  of all paths to it; a failed `push_back()` has changed the input already.
* **n_best_iterator.** Only the best way of a cap is followed, the others are put
  back, and caps that do not match the constraint are thrown away: no path may
  be lost, repeated or late.
* **trie.** Keys share cells, and one misplaced base loses keys inserted long
  before; keys of every type must go through bytes without becoming one another.
* **trie storages.** They grow by being read, share their cells or copy them, go
  through a file that may be cut anywhere, and are then answered from a cache.
  What is read must be what was written, and a part must be refused.
* **text.** Code units at the boundaries of the encodings, and strings that are in
  no encoding at all; rules that look back; a conversion that goes on after each
  of its reasons to stop. Nothing may be lost, and every call must return.

## 2. The modules

| module | models | |
|---|---|---|
| `Channel` | `channel.cpp` | one action per operation, plus the call, the sleep and the spurious wake-up |
| `ClosableQueue` | what a channel promises | each call is served at one instant |
| `ChannelProofs` | | the proofs about `Channel` |
| `JsonParser` | `json_parser.cpp` | `INSTANCE Channel` with the two threads; the text is its events and the verdict of the grammar |
| `PullStream` | what a parser promises | a stream pulled entry by entry |
| `JsonParserProofs` | | the proofs about `JsonParser`, its channel in it |
| `JsonGrammar`, `JsonTexts` | `json_grammar.cpp` | the rules as recursive operators; all texts up to a length and a reference language |
| `JsonSpelling` | the numbers and strings of `json_grammar.cpp`, and the escapes of the property library's `json_writer.cpp` and `json_parser.cpp` | positions in a sequence of characters, and what escapes stand for |
| `Readers` | `stream_reader.cpp`, `line_counting_reader.cpp`, `comment_removing_reader.cpp` | operations as functions of the state of the chain |
| `PropertyJson` | `json_writer.cpp` and `json_parser.cpp` of the property library | the lines written, and the descent over the events read |
| `PropertySet` | `property_set.cpp`, `storage.cpp`, `file_storage.cpp`, `memory_storage.cpp`, `storage_proxy.cpp` | processes over one file, or property sets over one map in memory |
| `PropertySetProofs` | | the proofs about `PropertySet` |
| `Lattice` | `lattice.cpp`, `node.cpp`, `unordered_map_vocabulary.cpp` | `push_back` and `settle` |
| `LatticeConstraint`, `NBest` | `constraint.cpp` and its elements, `n_best_iterator.cpp` | the search over a lattice |
| `NBestProofs` | | the proofs about `Lattice` and `NBest` |
| `DoubleArray` | `double_array_builder.cpp`, `double_array.cpp`, `memory_storage.cpp` | building node by node, and lookup |
| `Serializer` | `default_serializer.cpp` | the bytes of a key or a value, and back |
| `Trie` | `trie.hpp`, `trie.cpp`, `double_array_iterator.cpp` | a client of a built trie with typed keys, in memory or in a file |
| `TrieProofs` | | the proofs about `DoubleArray` and `Trie` |
| `TrieStorage` | `memory_storage.cpp`, `shared_storage.cpp`, `mmap_storage.cpp` | storages of all kinds and the file between them |
| `StorageContract` | what a storage promises | cells and values, clones, what a file gives back |
| `TrieStorageProofs` | | the proofs about `TrieStorage` |
| `UnicodeEncoding` | `unicode_encoding.cpp`, `utf16.cpp` | one action per way through the reading loop |
| `GraphemeSegment` | `grapheme_segment.cpp` | the breaks between properties |
| `PlatformEncoder` | `text_X.cpp` on Unix | the loop around `iconv()` |
| `Text` | `grapheme_splitter.cpp`, `encoder.hpp` | one call of the text library, composed of the three |
| `FlattenLemmas` | | lemmas about numbers and about sequences put together |
| `TextProofs` | | the proofs about `Text` and the three modules it is composed of |

`MC*` modules give the constants their values; each `.cfg` is one run.

### How state and actions correspond to the code

**Channel.** `queue` is `m_queue`, `waiting` the threads asleep in
`m_condition_variable.wait()`. An operation holds the mutex from its first to
its last statement and gives it up only inside `wait()`, so it is three kinds of
steps: `Call` (the thread enters the function), `Wait` (it gets the mutex, the
predicate is false, it sleeps) and the operation itself. `accepted`,
`delivered` and `closeDone` are histories. The two overloads of `insert()` are
one action over `Element` and `Exception`.

**JsonParser.** The worker's steps are those between two calls of the channel:
`HandleEvent` tests the abort flag and enters `insert()`. The client is in a
function (`operation`) at a place (`client`). `held` is the element whose
reference `peek()` has returned. The grammar is abstracted to `text`: a sequence
of events and one of three verdicts. That a refusal by a handler is final, which
`RefuseEvent` relies on, is `RefusalIsFinal` of `JsonTexts`.

**JsonGrammar.** A parser is an operator from a position and the events so far
to a result; a failing one returns the position it started from but keeps the
events. A token stands for a string or a primitive as a whole, or a text has the
characters of one, which the operators of `JsonSpelling` match as the rules do.

**JsonSpelling.** Digits other than zero are one character, as are the control
characters without a short escape up to 0x19 and, apart from them, those from
0x1A to 0x1F, which the rule for a character lets through. `Escaped` is what the
property library writes; `Unescaped` what it reads, with the surrogates put
together where two of them follow each other.

**Readers.** `chain` holds the fields of the three readers. `CommentsAreRemoved`
compares what has been read with the text without its comments; the location
properties compare the answer with the lines of the text.

**PropertyJson, PropertySet.** A file is a sequence of lines of events. A
process has a value map and a dirty flag; with the proxy (`Lazy`) it loads at
its first getter or setter. `stored` is what the last completed commit wrote
until the file is opened again, `offered` what the commit that wrote the file
was given, `base` the values of the last load or commit. Keys are sequences of
numbers; the integers have the widths `UintRange` and `UlongRange`. The file is
parsed through the comment removing reader, as the code does it: `IsCut` finds
the `#` outside of what that reader takes for quotations, with apostrophes and
without escapes, and `IsBroken` what the grammar then refuses. Keys and
values are escaped and unescaped with `JsonSpelling`, and the files written by
hand have `\u` escapes, pairs of surrogates and single ones among them. After a `DiskFull` the stream is bad and the rest of
the lines goes nowhere, but the commit ends as any other. Over memory a process
is a property set, `master` is the map that outlives it, and a commit is the one
step `CommitToMemory`.

**Lattice, NBest.** Steps and nodes are numbered from 1, so step 0 stands for
the greatest `std::size_t` that BOS has as its preceding step. `MaxCost` stands
for `INT_MAX`, which means "not connected" and absorbs additions. A cap is a
record as in the code; the order of caps of one cost is open, as in a
`std::priority_queue`. `OpenCap` is one turn of the outer loop of `open_cap()`;
the loop along the best nodes is a recursive function of its turns, as is the loop
of a constraint along a path.

**DoubleArray, Trie.** `cells` is the array of base and check words, with both
halves apart. `build_iter()` is recursive, and the model runs it as a list of
`frames`, the calls yet to be made, in the order in which the recursion makes
them; one `BuildIter` is a call up to the calls it makes itself, so that every
property holds of the half-built array too. The terminal `0` keeps its number,
and `Vacant` (0xFF in the code) is a small number, the same as `TopByte`, the
largest byte of a serialized key. A key is an object of the client that goes
through `Serializer`, with or without the escape. An element's value is its place
in the list, as the constructor of `trie` passes it. A subtrie shares its cells with its trie and has another root; an iterator
keeps its stack. `operator++` is `Increment` and then one `Visit` for every call
that `next()` makes to itself, up to `Yield` or `PassTheEnd`. In memory a cell
that is asked for behind the end comes into being, in a file it is whatever word
has its place: `tail` has these words.

**TrieStorage.** A `memory_storage` is an array of words, each a base of
`2 * BaseHalf` values and a check byte, and an array of optional values; a
`shared_storage` is a reference to one. A file is a sequence of units, words or
bytes of values: numbers go through the integer serializer as a whole. A written
file may be cut anywhere, because `serialize()` does not look at the stream. A
mapped storage is opened with a content offset and a capacity of its cache;
`recent` is the history that the cache must keep up with. The contract has the
sets of values that do not come back from a file in `lost`.

**UnicodeEncoding, GraphemeSegment, Text.** Bytes and units are the numbers they
are in the program, and so are the code points. Each way through the body of the
reading loop is an action (`ReadAscii`, `ReadMultibyte`, `ReadPair`, ...); reading,
writing and segmenting follow each other as in `split()`. `Texts` carries, beside
each well-formed source, what the Unicode standard says of its characters, so that
the properties compare the code with the standard and not with itself. The
generated property map is an excerpt: the entries around each character, found by
the code's own search.

**PlatformEncoder.** `iconv()` is external: it converts a part of the input and
stops with one of its results (all done, `E2BIG`, `EILSEQ`, `EINVAL`). Its alphabet
has a character of one byte, one of two, and one that the other encoding does not
have.

## 3. The runs

| run | bounds | what it shows |
|---|---|---|
| `channel` | 3 threads, capacity 2, 1 element, 1 exception | wake-ups, end marker, order, closing, and that the channel implements `ClosableQueue`, liveness included |
| `json_parser` | texts of 0 to 3 events and every verdict, capacity 2 | what `has_next()` found stays true, references stay valid, the destructor terminates, and the parser implements `PullStream` |
| `json_texts` | every text of 5 tokens, of 5 characters of a number, or of 5 of a string; six beginnings continued to 9; 5 limits of handler calls | the grammar accepts JSON and nothing else, events are nested, refusals are final |
| `readers` | every text of 5 of 6 characters, buffer of 2 | comments are removed, locations are right at every moment |
| `property_set` | 2 property sets, one behind the proxy, over a file or over memory, 3 keys, two of which clash, with a value each, 2 files written by hand | commits are read back, loads are all or nothing, no commit loses a change |
| `property_set_overwrite` | 1 process | **violation**: a setter does not overwrite |
| `n_best` | 3 `push_back()` calls over 5 entries, 27 connection tables, every pattern with at most one wildcard | path costs are optimal, the search enumerates exactly the allowed paths in order |
| `trie` | keys of up to 2 characters, of 3 kinds in strings and 4 in objects that are escaped: every pair of keys, every list of 2 short ones, sets of up to 4 short ones; density factors 1 and 1000 | the array is a tree at every moment, no step loses a key, lookups and iteration agree with a map |
| `trie_top_byte` | keys of 1 character, the byte 0xFF among them | **violation**: a key with the byte 0xFF is lost |
| `trie_storage` | 2 storages, 2 writes, cells 0 and 1, values 0 to 2, bases down to -2, codecs of fixed and of variable size, content offsets 0 and 1, cache capacities 1 and 2 | storages answer as the contract says, cut files are refused, a mapped file answers as it was written, recent values stay |
| `text` | texts of 3 of 12 characters and the faulty pieces, every pair of break properties, sequences of 6 of four of them, 5 bytes through a buffer of 2, 3 conversions in a row | offsets cover the text, conversions are inverse, breaks and graphemes are those of the standard |
| `text_returns` | texts of 1 piece | **violation**: a byte that cannot begin a character keeps `split()` from returning |

Why the bounds are enough. On the channel, two threads of one kind and one of
the other are the smallest population in which a wake-up can go to the wrong
one, and capacity 2 with two items and an end marker makes the queue full with
and without the marker. (An item and the end marker with room behind them take a
capacity of 3; the proofs hold for every capacity.) Three events against capacity 2 make the worker sleep
with and without the client's help. Five tokens hold every pair of adjacent
structures, nine a member list in an object in an array. Five characters hold a
quotation, a mark and two line ends, and a buffer of two ends inside each. Of
the keys one is a prefix of another, so that the writer meets an object, a value
and the clash of the two, and a third makes files of two entries that can be cut
between them. The value of a string has a quotation mark and a backslash, which
take escapes. Three chunks give lattices with two steps that share an entry, failed
`push_back()` calls with a successful one behind them, and paths of one to three
nodes. Three keys of two characters give nodes with three children and nodes
whose children must be moved past those of another; the factor 1 lets every node
look for room from the front, where it has to squeeze in, 1000 behind its
parent; there are negative bases, and none leaves the range of `BaseHalf`. Two
writes, of two storages or of one, set a base without its check and a check
without its base, overwrite, and leave a hole below what they set; a cache of one
drops with every look-up, one of two tells the oldest from the newest. Three
characters hold every rule about neighbours in the middle of a text; the counting
of regional indicators has sequences of six. A buffer of two bytes is filled by
one character of two, or by two, or not quite.

Restrictions of the inputs, each one a place where the code is known to behave
otherwise, and how to see it:

* `readers` reads texts whose carriage returns stand before line feeds
  (`remove_comment()` takes one in front of a mark for the line end and keeps the
  comment) and that do not end with a mark: the texts `UnterminatedTexts` violate
  `CommentsAreRemoved`.
* `json_texts` has no character from 0x1A to 0x1F in a string, which the grammar
  accepts and RFC 8259, which it names, does not: the alphabets `WithSubstitutes`
  violate `AcceptsExactlyJson`.
* `property_set` has no string with a quotation mark and a `#` behind it, which
  the comment removing reader cuts, and none with a control character that has no
  short escape, which is written as it is and makes the file one that the grammar
  refuses: the settings `HashKeys` and `BellKeys` violate `CommittedIsReadBack`. `std::out_of_range` from `std::stoul()` leaves `load()`;
  the model has it as an answer of its own.
* `trie` does not iterate over a file: with `Iterated = {"memory", "file"}` an
  iterator takes the words behind the cells for cells and `IteratesInOrder` is
  violated. Its keys do not have the byte 0xFF (`trie_top_byte`).
* `trie_storage` has no cache of capacity zero (`MappingAssumption`), with which
  `value_cache` asks an empty list for its last element. A file that is cut and
  mapped with a content offset is read past its end, because the end is looked for
  without the offset: `MappedAnswersAsWritten` leaves this out. Values of fixed
  size whose bytes are all 0xFF, as those of -1, and empty strings come back from a
  file as no value; the contract names them in `lost`.
* `OffsetsCoverTheText` leaves out a high surrogate in front of another unit
  (`HighBeforeOrdinary`), which is pushed in the place of that unit.
  `TextSurvivesRecoding` is about the planes 0 and 1: beyond them the writer has a
  `?`.
* A stray byte in UTF-8 keeps `split()` going for ever (`text_returns`), and so does
  an input that ends in the middle of a character with `iconv()`; a run stops
  collecting at `Patience` of what the endless loop pushes.

Deadlock is looked for where something must be able to go on; the configurations
that switch it off are of systems that end: `json_texts` when all texts are read,
`n_best` when a search is at its end, `trie` and `trie_top_byte` when the trie is
in its file and nothing is left to iterate over, `trie_storage` when the bounds are
used up, `text` and `text_returns` when a call has returned and is the last one.

### Fairness

`Channel!Fairness` is weak fairness of every thread that is awake inside an
operation: it gets the mutex and goes on. This is what `std::mutex` and the
scheduler give in practice. Nothing obliges a thread to call an operation, and
no property needs a spurious wake-up. `JsonParser!Fairness` is the same for its
two threads; the client need not call anything. `Text!Spec` is weakly fair to
`Next`: sequential code goes on, so a call that does not return (`CallsReturn`)
is one that goes round and round. The other modules have no liveness properties.

## 4. The proofs

Each proof goes from an inductive invariant, the conjunction `IInv` of named
parts. TLC has checked every `IInv` on the instance of its run before it was
proved. Every operation has lemmas of its own, and the theorem puts them together.

**`ChannelProofs`**, for every set of threads, every set of items and every
capacity. Assumed: what the constructor checks (`CapacityAssumption`: the
capacity is not zero), that the empty optional is not an item
(`NulloptAssumption`) and that items are told apart from the other results
(`SignalAssumption`).

* `Invariance` proves `IInv`. `ClosedMeansDrained` is not inductive: a thread
  that saw the channel closed needs to know that nothing comes after, hence that
  the end marker is alone and last (`EndMarkerIsLast`) and that the histories
  fit the queue (`FirstInFirstOut`). `NoLostWakeup` needs that a sleeper is
  inside an operation. For `NothingAcceptedAfterClose` `IInv` says that after a
  `close()` the queue has its end marker for ever.
* `CapacityBound`, `WakeupsAreNotLost`, `EndMarkerPosition`, `QueueOrder`,
  `ClosedChannelIsDrained` and `CloseIsFinal` follow.
* `ChannelImplementsQueue` is the refinement: every step of the channel is a step
  of `ClosableQueue` or leaves it unchanged.

**`JsonParserProofs`**, for every text and every capacity. It takes
`ChannelProofs` as an instance, with the two threads of the parser, and the lemmas
there give the invariant of the channel in each step of the parser. The rest of
`IInv` is the protocol of the two threads: where the worker is in its text
(`WorkerInv`, `AcceptedIsPrefix`), that what the client was told by `closed()`
still holds when it acts on it, because only the client takes and the worker only
appends (`ClientInv`, `OperationInv`), that the client has moved past what was
taken (`ConsumedInv`), and how much gets in after an abort (`AbortInv`).
`ChecksStayTrue`, `ReferencesStayValid` and `AbortIsPrompt` follow, and
`ParserImplementsStream`: every step of the two threads is a step of the
sequential `PullStream` or leaves it unchanged.

**`PropertySetProofs`**, for every number of property sets, every setting and
every file edited by hand. Of the file format it assumes (`FormatAssumption`) that
the beginning of a written file loads as the empty map or as all of it, and of the
edited files (`EditedAssumption`) that they load as what they mean or as the empty
map; TLC evaluates both, with the writer and the parser of `PropertyJson`, for the
run's settings. `IInv` says that a file
in construction is the beginning of what its commit writes (`HasFirstLines`, with
what is left in the writer's `unsaved`), that nobody else has it open, and what
each map has to do with the last load or commit (`DirtyInv`, `MemoryInv`).
`LoadsAreWhole` and `CleanCommitsLoseNothing` follow without more;
`CommitsAreReadBack` has the hypothesis `FormatRoundTrips`, that the parser undoes
what the writer does. It is a hypothesis and no assumption because there are
strings for which the code does not do it: it is true of the settings of the
runs (`RoundTripAssumption`), and false for `HashKeys` and `BellKeys` (section 3).

**`TextProofs`**, for sequences of bytes, of units and of break properties of
every length, property maps of every size, and output buffers of every size.
Assumed: that a text which claims to be well-formed is the encoding of its
characters, in UTF-8 the one that the definition of UTF-8 gives (`TextAssumption`,
`Utf8Assumption`), and that the property map is sorted and begins at 0, which the
binary search relies on (`MapAssumption`).

* `OffsetsCover`: `ReadInv` says of every moment of the reading loop that the
  offsets so far cut what has been read into parts worth the code points.
* `SegmentsFollowRules`: the code keeps one counter of regional indicators while
  the rules count anew at every place. The two are not equal; `CounterInv` says
  where they differ and that it does not matter there.
* `RecodingIsLossless`: `SurviveInv` says that a text of characters of the planes
  0 and 1 is `Written` of these characters in its form, and that the reader is at
  the end of one of them; the lemmas are that each way through the loop reads one
  character that the writer has written, by arithmetic on the bytes. It needs
  `FlattenLemmas`: positions in a sequence made by putting sequences together.
* `SplittingFollowsTheStandard` is about a whole call of `split()`, beyond plane 1
  too: `ReadByCharacters` says that each code point read so far has the number of
  bytes before its character as its offset, and `SplitInv` that the segmenter works on
  the properties of all the characters. `PropertyFound` is what the binary search
  finds, and `SegmentsAreGraphemes` that the segments between two offsets are one to
  one with the graphemes of the rules. It has the hypothesis `MapFollowsStandard`:
  the last entry of the map that is not behind a character has its property and its
  widths. The map is generated data, so this is a hypothesis about the tables and not
  about the code; TLC evaluates it for the excerpt of the runs (`MapIsFollowed`).
* `ConversionKeepsOrder`: by induction over the turns of `iconv()`, a call of it
  converts characters in order up to a place that cuts no character in two
  (`Reached`), so that the loop around it may go on there with any buffer
  (`ConvertInv`).

**`TrieStorageProofs`**, for every number of storages, every word, value and codec,
files cut at every place, and every capacity of the cache. Assumed: the indexes
are numbers (`IndexAssumption`), a cache has room for one value
(`MappingAssumption`), bases and checks fit into their bits of a word
(`WordAssumption`), and a codec decodes what it encoded of the objects it is used
for, with its fixed size if it has one (`CodecAssumption`, which TLC evaluates with
the code's serializers).

* `IInv` says that contents are well typed (`MemoryInv`), the file is a beginning
  of what was to be written (`FileInv`), the constructor of a mapped storage has
  found what it says (`MappedInv`), and the cache has what the file has, its list
  in the order of the accesses and with the indexes of its map (`CacheInv`).
* `RecentStay` and `MappedAnswers` follow: what a mapped file answers is what was
  written, though it goes through a cut file, an offset and a cache.
* `ImplementsContract` is the refinement of `StorageContract`. A base is set
  without its check, arrays grow by being read, a clone is shared or copied, and
  deserializing goes over the units one by one: the function `ValuesFrom` that
  follows the loop of the code is shown, by induction over the values, to give
  back the values that were written and to refuse a file that is cut.

**`TrieProofs`**, for every list of keys, every density factor, every range of bases
and every number of steps of a client. Assumed: bytes are numbers and fit into the
range of the bases (`VacantAssumption`, `BaseAssumption`), and the factor is not zero
(`FactorAssumption`), and the bytes of an escape are not zero (`TopByteAssumption`).
What is false in some programs is a hypothesis of the theorems that need it:

* `KeysFit`: the serialized keys have neither the terminator nor the check of a vacant
  cell in them, and the places of the values fit into a base. It is false exactly for
  the keys of `trie_top_byte`, and true of those of `trie` (`KeysFitAssumption`).
* `HasRoom`: whenever `calc_base()` looks for a base there is one that fits into its 24
  bits. The code looks for ever, or takes a base that is cut. (The `CHOOSE` of `BaseOf`
  has no value then, so that TLC would stop: the runs have room.)
* `KeysAreFew`: the beginnings of the keys (nodes, at most), 255 cells for each, fit into
  the range of the bases, which is so for 32895 nodes. It implies `HasRoom`
  (`RoomForFewKeys`), so that the theorems below have a hypothesis about the keys and
  none about the search.
* `KeysDiffer`: characters fit into their bytes, so that different characters have
  different bytes, and what a client asks for has bytes that keys may have.
* `IteratedInMemory`: the client iterates over tries in memory (section 3 says what an
  iterator does over a file).

TLC evaluates `KeysFit`, `KeysAreFew` and `KeysDiffer` for the keys of the run
(`KeysFitAssumption`).

The inductive invariant is about the half-built array, with calls of `build_iter()`
that are left:

* `ElementsInv`: the elements are sorted; the lemmas about `Sorted` and `InOrder` are
  that what is chosen by its rank is a permutation in order.
* `FramesInv`: a call that is left has exactly the elements with one prefix, its node
  has no base yet, and no two of them share a node or an element.
* `CellsInv`: bases are stored as they are, no two nodes have the same one, and every
  cell in use is a child of a node that has its base.
* `KeysInv`: the way of an element leads over nodes that have their base to the node of
  its call, or to a leaf with its value. `NoKeyIsLost` alone is not inductive: it does
  not say that the nodes on the way keep their bases, which `IsKept` is about: a step
  changes the base of one node, which had none, and fills cells that were vacant.

`TypeCorrect`, `OneParent` and `KeysStay` follow, for the steps of the client as well:
an iterator makes the array in memory grow by looking at it.

* `RoomForFewKeys`: `RoomInv` adds that every base is that of a node (`BasesInv`), hence
  there are at most as many as beginnings of keys (`BasesAreFew`), and that no base is
  further behind the others than one step may go (`IsNear`); so the place behind the
  last one is in the range. `ContentsInv` says that the elements are a permutation of
  what the constructor has serialized.
* `FindsTheKeys`: `NodesInv` says that a node is on the way of some key. Two ways that
  meet have been the same from the root (`WaysMeet`), so what a text finds is what the
  keys with the same beginning have (`KnownWay`, `FindsExpected`). The rest is about
  the serializer: no escape begins with another (`EscapedIsCode`), so keys put together
  from escapes begin with each other exactly if the strings do (`CodeOfCode`,
  `PrefixIsStart`), and the least of the equal keys is the one a map would keep
  (`ExpectedIsPromised`: the sort is stable).
* `IteratesTheKeys`: `StackInv` says that the elements below the nodes of the stack
  (`RestOf`) are those that are left, those below the top first, and that the values
  yielded are those of the others, in order. A leaf on top has the element that is next
  (`LeafIsNext`); the children of a node, as `next()` pushes them, are below it in the
  order of the elements (`ChildrenStacked`); and below the root of a subtrie are the
  elements with the prefix (`BelowRoot`).

**`NBestProofs`**, for every vocabulary, all connection costs, every input, every
number of steps and every pattern that a client makes of a path, with a wildcard or
without. Assumed: the entries for a key have this key (`EntriesAssumption`), there is
an answer for every pair of entries (`ConnectionsAssumption`), the bounds are numbers
(`StepsAssumption`, `MaxCostAssumption`) and the input has letters (`ChunkAssumption`).
The theorems have the hypothesis `CostsFit`: costs are so small that no sum of them
along a path comes near to the greatest `int`. The code adds in `int` and does not look;
TLC evaluates the hypothesis for the run (`CostsFitAssumption`). The part of `IInv` is
played by `SearchIInv`, of two halves.

* `LatticeInv` says that every node is what `NodeAfter` makes of its entry behind an
  earlier step (`GraphInv`), and its key the input between the two, and the same of the
  EOS node (`EosInv`). So paths are walks back along the preceding steps, and they end
  at BOS. `NodesRememberTheCheapest` is then an induction over the steps: the cost of
  the cheapest way is additive (`AddAssociates`, `AddMonotone`), also where edges are
  not connected, as long as `CostsFit`.
* `AllowedMatches` and `MatchesAllowed` are about patterns: matching a path from its
  end, node by node, is the same as comparing it with the path that the pattern was
  made of, and a tail is refused only if no path with this tail is allowed. It rests on
  how many elements are left behind each node (`LeftBehind`), and on what the preceding
  step of a node has to do with the one that a wildcard ends at.
* `Walking` is the loop invariant of `open_cap()`: between two turns, what has been
  behind the cap is behind the walk or behind one of the caps that were put aside, and
  never behind two. `OpenedFacts` is what follows when the walk is at BOS or has been
  refused.
* `SearchInv` (`Search`, `IsCap`, `AreApart`) says of all caps that they are tails of
  paths, apart from each other and from all that has been produced, with the cost of
  the cheapest path behind them and none cheaper than what came before, and that every
  path that is good is behind one of them or has been produced. This is more than
  `CapsPartitionTheRest`, which does not say that a cap's cost is that of its best
  nodes. `TheBestPathsComeInOrder`, `NoPathIsSkipped` and `CapsAreAPartition` follow.

Only model-checked, and why:

* liveness, which is out of the prover's reach: the `Served` part of
  `ClosableQueue`, `DestructorTerminates`, the `Returns` part of `PullStream`, and
  `CallsReturn`;
* the grammar, the readers and the file format (`JsonTexts`, `Readers`,
  `PropertyJson`), which are recursive descents over their texts and written with
  recursive operators: what they compute for every text is an induction over data.

## 5. What is not modelled

* In the JSON library, the iterator adapter between reader and grammar; in the
  property library, names of properties that would need escapes.
* Two processes that write the file at the same time: what becomes of their bytes
  is up to the operating system.
* The registry storage, which enumerates and writes single values of a service of
  Windows; the other platform adapters, single calls without state; the C
  bindings, which convert arguments and turn exceptions into return values; the
  setup program.
* CP932 and the character tables of the text library: the platform's and
  generated data, of which the runs have an excerpt.
* In the trie library, byte order, the observers of building, `filling_rate()`,
  and strings wider than a byte that have escapes.
* In the lattice library, inputs other than strings of characters, and the ranges
  of nodes that a client walks by itself.

## 6. The plan

In this order:

1. **C bindings**: the handles of iterators and storages, and who owns them.
