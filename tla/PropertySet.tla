---------------------------- MODULE PropertySet ----------------------------
(***************************************************************************)
(* Processes that keep their properties in one file: a property_set over a *)
(* file_storage, directly or behind a storage_proxy that loads the file    *)
(* when it is first needed. A commit truncates the file and writes it line *)
(* by line, without a lock and without a temporary file, so another process*)
(* may load it, and a process may crash, between any two lines. Or the     *)
(* property sets of one program, over a memory_storage: its values are in a*)
(* map that outlives the property sets, and a commit assigns the whole map.*)
(***************************************************************************)
EXTENDS Integers, Sequences

CONSTANTS
    Process,          \* with a property_set each; over memory they are one program
    Medium,           \* some of "file" and "memory"
    Setting,          \* pairs of a key and a value that a setter is called with
    Uint32,           \* the numbers of a value map
    Lazy,             \* the processes whose storage is behind a storage_proxy
    Edited,           \* files written by hand: their lines, and what they mean
    Written(_),       \* json_writer: the lines of a value map, none on a throw
    LoadValueMap(_)   \* load_value_map(): the status and value map of the lines

ASSUME MediumAssumption == Medium \subseteq {"file", "memory"}

\* A value map can have the settings, and the values of an edited file.
Entry == Setting \cup UNION {{<<k, e.means[k]>> : k \in DOMAIN e.means} : e \in Edited}

ValueMap ==
    {m \in UNION {[keys -> {e[2] : e \in Entry}] : keys \in SUBSET {e[1] : e \in Entry}} :
        \A k \in DOMAIN m : <<k, m[k]>> \in Entry}

NoValues == <<>>   \* the empty value map

\* A number is a std::uint32_t.
ASSUME EntryAssumption ==
    /\ \A s \in Setting : s = <<s[1], s[2]>>
    /\ \A e \in Edited : e.means \in ValueMap
    /\ \A e \in Entry : e[2][1] = "number" => e[2][2] \in Uint32

\* The lines of the files that the writer makes.
Line == UNION {{Written(m)[i] : i \in 1..Len(Written(m))} : m \in ValueMap}

\* The text that the writer makes of a value map is one object, which ends on its last
\* line: a part of it is no text of the grammar, and the parser makes an empty value
\* map of it, as it does of a text with a string that the grammar refuses.
ASSUME FormatAssumption ==
    \A m \in ValueMap :
        /\ Written(m) \in Seq(Line)
        /\ \A n \in 0..Len(Written(m)) :
              LoadValueMap(SubSeq(Written(m), 1, n)).map \in {NoValues, m}
ASSUME EditedAssumption ==
    \A e \in Edited : LoadValueMap(e.lines).map \in {NoValues, e.means}

\* The parser undoes what the writer does. There are strings of which this is false.
FormatRoundTrips ==
    \A m \in ValueMap :
        Written(m) # <<>> => LoadValueMap(Written(m)) = [status |-> "ok", map |-> m]

VARIABLES
    medium,   \* where the storages of this behavior are
    master,   \* master_value_map_map(), of the one path: the values in memory
    file,     \* whether the file exists, and its lines
    process,  \* where each process is
    map,      \* m_value_map of each process
    loaded,   \* the proxy has loaded the real storage
    dirty,    \* m_dirty
    unsaved,  \* the lines that a running commit has yet to write
    answer,   \* what the last call of a process returned or threw
    stored,   \* history: what the file holds when its last save is complete
    offered,  \* history: the value map that the last save began to write
    base      \* history: what each process loaded or saved last

vars == <<medium, master, file, process, map, loaded, dirty, unsaved, answer, stored, offered, base>>

Lines(lines) == [exists |-> TRUE, lines |-> lines]
NoFile == [exists |-> FALSE, lines |-> <<>>]

\* Keys are paths of names.
Key == {s[1] : s \in Setting}

Nullopt == <<"nullopt">>
Void == <<"void">>
NotCalled == <<"none">>

\* What file_storage_loader makes of the file; a file that cannot be opened
\* makes an empty value map.
LoadFile == IF file.exists THEN LoadValueMap(file.lines) ELSE [status |-> "ok", map |-> NoValues]

\* memory_storage_loader; the constructor of storage copies the map.
LoadMemory == [status |-> "ok", map |-> master]

Load == IF medium = "file" THEN LoadFile ELSE LoadMemory

-----------------------------------------------------------------------------
Init ==
    /\ medium \in Medium
    /\ master = NoValues
    /\ \/ /\ file = NoFile
          /\ offered = NoValues
       \/ \E e \in Edited :
             medium = "file" /\ file = Lines(e.lines) /\ offered = e.means
    /\ process = [p \in Process |-> "none"]
    /\ map = [p \in Process |-> NoValues]
    /\ loaded = [p \in Process |-> FALSE]
    /\ dirty = [p \in Process |-> FALSE]
    /\ unsaved = [p \in Process |-> <<>>]
    /\ answer = NotCalled
    /\ stored = {}
    /\ base = [p \in Process |-> NoValues]

Answer(a) == answer' = a

\* Process p gets the value map of a loaded file.
Adopt(p) ==
    /\ map' = [map EXCEPT ![p] = Load.map]
    /\ base' = [base EXCEPT ![p] = Load.map]
    /\ loaded' = [loaded EXCEPT ![p] = TRUE]

\* storage_loader::load(): the proxy puts the loading off.
LoadStorage(p) ==
    IF p \in Lazy
      THEN /\ map' = [map EXCEPT ![p] = NoValues]
           /\ base' = [base EXCEPT ![p] = NoValues]
           /\ loaded' = [loaded EXCEPT ![p] = FALSE]
      ELSE Adopt(p)

LoadThrows(p) == p \notin Lazy /\ Load.status # "ok"

\* The constructor of property_set.
Create(p) ==
    /\ process[p] = "none"
    /\ IF LoadThrows(p)
         THEN /\ Answer(<<Load.status>>)
              /\ UNCHANGED <<process, map, loaded, base>>
         ELSE /\ process' = [process EXCEPT ![p] = "idle"]
              /\ LoadStorage(p)
              /\ Answer(Void)
    /\ UNCHANGED <<medium, master, file, dirty, unsaved, stored, offered>>

\* Variant: the changes that update() drops still count as changes.
UpdateDirty(p) ==
    /\ process[p] = "idle"
    /\ ~LoadThrows(p)
    /\ LoadStorage(p)
    /\ Answer(Void)
    /\ UNCHANGED <<medium, master, file, process, dirty, unsaved, stored, offered>>

\* update() drops the changes that have not been committed.
Update(p) ==
    /\ process[p] = "idle"
    /\ IF LoadThrows(p)
         THEN /\ Answer(<<Load.status>>)
              /\ UNCHANGED <<map, loaded, base, dirty>>
         ELSE /\ LoadStorage(p)
              /\ dirty' = [dirty EXCEPT ![p] = FALSE]
              /\ Answer(Void)
    /\ UNCHANGED <<medium, master, file, process, unsaved, stored, offered>>

\* The value map after ensure_real_loaded().
Current(p) == IF loaded[p] THEN map[p] ELSE Load.map

\* ensure_real_loaded(), which a getter calls as well as a setter.
EnsureLoaded(p) ==
    /\ process[p] = "idle"
    /\ ~loaded[p] => Load.status = "ok"
    /\ loaded' = [loaded EXCEPT ![p] = TRUE]
    /\ base' = IF loaded[p] THEN base ELSE [base EXCEPT ![p] = Load.map]
    /\ UNCHANGED <<medium, master, file, process, unsaved, stored, offered>>

\* A call that loads the file throws what the loading throws.
LoadingFails(p) ==
    /\ process[p] = "idle"
    /\ ~loaded[p]
    /\ Load.status # "ok"
    /\ Answer(<<Load.status>>)
    /\ UNCHANGED <<medium, master, file, process, map, loaded, dirty, unsaved, stored, offered, base>>

\* get_bool(), get_uint32() and get_string(): a number serves as a boolean.
Get(p, k, type) ==
    /\ EnsureLoaded(p)
    /\ LET now == Current(p)
           value == IF k \in DOMAIN now THEN now[k] ELSE Nullopt
       IN  /\ map' = [map EXCEPT ![p] = now]
           /\ Answer(CASE value[1] = type -> value
                       [] type = "boolean" /\ value[1] = "number" ->
                            <<"boolean", IF value[2] = 0 THEN "false" ELSE "true">>
                       [] OTHER -> Nullopt)
    /\ UNCHANGED dirty

\* std::unordered_map::insert() leaves a key that is there alone.
Inserted(m, k, v) == [l \in DOMAIN m \cup {k} |-> IF l \in DOMAIN m THEN m[l] ELSE v]

\* set_bool(), set_uint32() and set_string() insert into the map.
Set(p, k, v) ==
    /\ EnsureLoaded(p)
    /\ map' = [map EXCEPT ![p] = Inserted(Current(p), k, v)]
    /\ dirty' = [dirty EXCEPT ![p] = TRUE]
    /\ Answer(Void)

CommitClean(p) ==
    /\ process[p] = "idle"
    /\ ~dirty[p]
    /\ Answer(Void)
    /\ UNCHANGED <<medium, master, file, process, map, loaded, dirty, unsaved, stored, offered, base>>

\* Bound: what the bytes of two overlapping saves would make together is not
\* modelled, so one process at a time has the file open for writing.
NobodySaves == \A p \in Process : process[p] \notin {"saving", "failing"}

\* Variant: the file is opened without being truncated.
OpenFileToAppend(p) ==
    /\ medium = "file" /\ process[p] = "idle"
    /\ dirty[p]
    /\ NobodySaves
    /\ Written(map[p]) # <<>>
    /\ file' = Lines(file.lines)
    /\ stored' = {}
    /\ process' = [process EXCEPT ![p] = "saving"]
    /\ unsaved' = [unsaved EXCEPT ![p] = Written(map[p])]
    /\ offered' = map[p]
    /\ UNCHANGED <<medium, master, answer, map, loaded, dirty, base>>

\* The std::ofstream truncates the file; the writer then builds the key tree. (A
\* proxy without a real storage saves nothing; by CommitLosesNothing nothing is lost.)
OpenFile(p) ==
    /\ medium = "file" /\ process[p] = "idle"
    /\ dirty[p]
    /\ NobodySaves
    /\ file' = Lines(<<>>)
    /\ stored' = {}
    /\ IF Written(map[p]) = <<>>
         THEN /\ Answer(<<"bad_variant_access">>)
              /\ UNCHANGED <<process, unsaved, offered>>
         ELSE /\ process' = [process EXCEPT ![p] = "saving"]
              /\ unsaved' = [unsaved EXCEPT ![p] = Written(map[p])]
              /\ offered' = map[p]
              /\ UNCHANGED answer
    /\ UNCHANGED <<medium, master, map, loaded, dirty, base>>

\* "Can't save the property set."
CannotOpenFile(p) ==
    /\ medium = "file" /\ process[p] = "idle"
    /\ dirty[p]
    /\ Answer(<<"runtime_error">>)
    /\ UNCHANGED <<medium, master, file, process, map, loaded, dirty, unsaved, stored, offered, base>>

WriteLine(p) ==
    /\ process[p] = "saving"
    /\ unsaved[p] # <<>>
    /\ file' = Lines(Append(file.lines, Head(unsaved[p])))
    /\ unsaved' = [unsaved EXCEPT ![p] = Tail(@)]
    /\ UNCHANGED <<medium, master, process, map, loaded, dirty, answer, stored, offered, base>>

\* Variant: only the line is lost whose write fails.
DiskFullOnce(p) ==
    /\ process[p] = "saving"
    /\ unsaved[p] # <<>>
    /\ unsaved' = [unsaved EXCEPT ![p] = Tail(@)]
    /\ UNCHANGED <<medium, master, file, process, map, loaded, dirty, answer, stored, offered, base>>

\* A write fails: the stream is bad from here on, and nobody asks it.
DiskFull(p) ==
    /\ process[p] = "saving"
    /\ unsaved[p] # <<>>
    /\ process' = [process EXCEPT ![p] = "failing"]
    /\ unsaved' = [unsaved EXCEPT ![p] = <<>>]
    /\ UNCHANGED <<medium, master, file, map, loaded, dirty, answer, stored, offered, base>>

FinishCommit(p) ==
    /\ process[p] \in {"saving", "failing"}
    /\ unsaved[p] = <<>>
    /\ process' = [process EXCEPT ![p] = "idle"]
    /\ dirty' = [dirty EXCEPT ![p] = FALSE]
    /\ stored' = IF process[p] = "saving" THEN {map[p]} ELSE {}
    /\ base' = [base EXCEPT ![p] = map[p]]
    /\ Answer(Void)
    /\ UNCHANGED <<medium, master, file, map, loaded, unsaved, offered>>

\* The commit of a memory_storage, whose save_impl() assigns the map.
CommitToMemory(p) ==
    /\ medium = "memory" /\ process[p] = "idle"
    /\ dirty[p]
    /\ master' = map[p]
    /\ dirty' = [dirty EXCEPT ![p] = FALSE]
    /\ stored' = {map[p]}
    /\ offered' = map[p]
    /\ base' = [base EXCEPT ![p] = map[p]]
    /\ Answer(Void)
    /\ UNCHANGED <<medium, file, process, map, loaded, unsaved>>

\* Variant: the lines of the commit outlive the process.
ExitInTheMiddle(p) ==
    /\ process[p] # "none"
    /\ process' = [process EXCEPT ![p] = "none"]
    /\ map' = [map EXCEPT ![p] = NoValues]
    /\ loaded' = [loaded EXCEPT ![p] = FALSE]
    /\ dirty' = [dirty EXCEPT ![p] = FALSE]
    /\ base' = [base EXCEPT ![p] = NoValues]
    /\ Answer(NotCalled)
    /\ UNCHANGED <<medium, master, file, unsaved, stored, offered>>

\* The property set is destroyed, or its process ends, by a crash when it is in
\* the middle of a commit: the lines that it has not written are lost.
Exit(p) ==
    /\ process[p] # "none"
    /\ process' = [process EXCEPT ![p] = "none"]
    /\ map' = [map EXCEPT ![p] = NoValues]
    /\ loaded' = [loaded EXCEPT ![p] = FALSE]
    /\ dirty' = [dirty EXCEPT ![p] = FALSE]
    /\ unsaved' = [unsaved EXCEPT ![p] = <<>>]
    /\ base' = [base EXCEPT ![p] = NoValues]
    /\ Answer(NotCalled)
    /\ UNCHANGED <<medium, master, file, stored, offered>>

Next ==
    \E p \in Process :
        \/ Create(p)
        \/ Update(p)
        \/ LoadingFails(p)
        \/ \E k \in Key, type \in {"boolean", "number", "string"} : Get(p, k, type)
        \/ \E s \in Setting : Set(p, s[1], s[2])
        \/ CommitClean(p)
        \/ OpenFile(p)
        \/ CannotOpenFile(p)
        \/ WriteLine(p)
        \/ DiskFull(p)
        \/ CommitToMemory(p)
        \/ FinishCommit(p)
        \/ Exit(p)

Spec == Init /\ [][Next]_vars

-----------------------------------------------------------------------------
(* Properties                                                              *)

\* Among other things a number fits into std::uint32_t, whatever the file has.
TypeOK ==
    /\ process \in [Process -> {"none", "idle", "saving", "failing"}]
    /\ dirty \in [Process -> BOOLEAN] /\ loaded \in [Process -> BOOLEAN]
    /\ \A p \in Process :
          /\ unsaved[p] # <<>> => process[p] = "saving"
          /\ \A k \in DOMAIN map[p] : map[p][k][1] = "number" => map[p][k][2] \in Uint32

\* "Commits the property value changes to the storage": once a commit has been
\* completed with no write failing, whoever loads the storage gets the values that
\* were committed, until the next commit begins.
CommittedIsReadBack == \A m \in stored : Load = [status |-> "ok", map |-> m]

\* A storage is loaded as a whole or as empty: neither a reader that comes between
\* two lines of a save, nor one that comes after a crash or a failed write, takes a
\* part of the values for the whole, and no load sees another set's uncommitted values.
LoadIsAllOrNothing == Load.map \in {NoValues, offered}

\* The commit that writes nothing loses nothing: a property set that is not dirty
\* has the values of its last load or commit, and one that is dirty does not have
\* a proxy without a real storage, whose save does nothing.
CommitLosesNothing ==
    \A p \in Process : process[p] # "none" =>
        IF dirty[p] THEN loaded[p] ELSE map[p] = base[p]

\* "Sets a value": after a setter the key has the value.
SetTakesEffect ==
    [][\A p \in Process, s \in Setting :
           Set(p, s[1], s[2]) => map'[p][s[1]] = s[2]]_vars
=============================================================================
