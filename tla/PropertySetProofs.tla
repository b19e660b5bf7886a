------------------------- MODULE PropertySetProofs -------------------------
(***************************************************************************)
(* The safety of the property sets, for every number of processes, of      *)
(* settings and of edited files, from what the file format is assumed to   *)
(* do: a part of a file loads as empty.                                    *)
(***************************************************************************)
EXTENDS PropertySet, SequenceTheorems, TLAPS

-----------------------------------------------------------------------------
(* The inductive invariant                                                 *)

\* The state of each process; the values of all maps are settings or edited.
ProcessInv ==
    /\ process \in [Process -> {"none", "idle", "saving", "failing"}]
    /\ dirty \in [Process -> BOOLEAN] /\ loaded \in [Process -> BOOLEAN]
    /\ map \in [Process -> ValueMap] /\ base \in [Process -> ValueMap]
    /\ unsaved \in [Process -> Seq(Line)]
    /\ \A p \in Process : unsaved[p] # <<>> => process[p] = "saving"

\* A process that is not dirty has what it loaded or saved last.
DirtyInv ==
    \A p \in Process :
        /\ process[p] = "none" => ~dirty[p]
        /\ process[p] # "none" => IF dirty[p] THEN loaded[p] ELSE map[p] = base[p]

\* The values in memory are those of the last commit, and nobody has a file open.
MemoryInv ==
    /\ medium \in {"file", "memory"}
    /\ master \in ValueMap /\ offered \in ValueMap
    /\ medium = "memory" =>
          /\ master \in {NoValues, offered}
          /\ stored \in SUBSET {master}
          /\ NobodySaves

\* One process has the file open for writing.
Saves(p) == process[p] \in {"saving", "failing"}

OneSaver == \A p, q \in Process : Saves(p) /\ Saves(q) => p = q

\* The file is as it was before the first save.
Untouched ==
    /\ NobodySaves
    /\ stored = {}
    /\ \/ file = NoFile /\ offered = NoValues
       \/ \E e \in Edited : file = Lines(e.lines) /\ offered = e.means

\* The file has the first n lines of the value map that was saved last; the process
\* that saves it has the other lines and still has the map; it is complete when the
\* save has been completed.
HasFirstLines(n) ==
    /\ file = Lines(SubSeq(Written(offered), 1, n))
    /\ \A p \in Process : Saves(p) => map[p] = offered /\ Written(offered) # <<>>
    /\ \A p \in Process : process[p] = "saving" =>
          unsaved[p] = SubSeq(Written(offered), n + 1, Len(Written(offered)))
    /\ stored # {} =>
          /\ stored = {offered} /\ n = Len(Written(offered)) /\ Written(offered) # <<>>
          /\ NobodySaves

FileInv == medium = "file" => Untouched \/ \E n \in 0..Len(Written(offered)) : HasFirstLines(n)

IInv == ProcessInv /\ DirtyInv /\ MemoryInv /\ OneSaver /\ FileInv

-----------------------------------------------------------------------------
(* Value maps and files                                                    *)

LEMMA EmptyIsValueMap == NoValues \in ValueMap
<1>1. DOMAIN NoValues = {}
  BY DEF NoValues
<1>2. NoValues \in [{} -> {e[2] : e \in Entry}]
  BY DEF NoValues
<1>3. {} \in SUBSET {e[1] : e \in Entry}
  OBVIOUS
<1> QED BY <1>1, <1>2, <1>3 DEF ValueMap

LEMMA InsertedIsValueMap ==
    ASSUME NEW m \in ValueMap, NEW s \in Setting
    PROVE  Inserted(m, s[1], s[2]) \in ValueMap
<1> DEFINE Keys == {e[1] : e \in Entry}
           Values == {e[2] : e \in Entry}
           n == Inserted(m, s[1], s[2])
<1>1. PICK keys \in SUBSET Keys : m \in [keys -> Values]
  BY DEF ValueMap
<1>2. \A k \in keys : <<k, m[k]>> \in Entry
  BY <1>1 DEF ValueMap
<1>3. <<s[1], s[2]>> \in Entry /\ s[1] \in Keys /\ s[2] \in Values
  <2>1. s \in Entry /\ s = <<s[1], s[2]>>
    BY EntryAssumption DEF Entry
  <2> QED BY <2>1
<1>4. /\ DOMAIN n = keys \cup {s[1]}
      /\ \A k \in keys \cup {s[1]} : n[k] = IF k \in keys THEN m[k] ELSE s[2]
  BY <1>1 DEF Inserted
<1>5. n \in [keys \cup {s[1]} -> Values]
  BY <1>1, <1>3 DEF Inserted
<1>6. \A k \in DOMAIN n : <<k, n[k]>> \in Entry
  BY <1>2, <1>3, <1>4
<1>7. keys \cup {s[1]} \in SUBSET Keys
  BY <1>1, <1>3
<1> HIDE DEF n, Keys, Values
<1> QED BY <1>5, <1>6, <1>7 DEF ValueMap, n, Keys, Values

LEMMA LinesFacts ==
    ASSUME NEW ls
    PROVE  /\ Lines(ls).exists = TRUE
           /\ Lines(ls).lines = ls
           /\ NoFile.exists = FALSE
BY DEF Lines, NoFile

\* Whoever loads the storage gets nothing or what was saved last.
LEMMA LoadedWhole == IInv => LoadIsAllOrNothing
<1> SUFFICES ASSUME IInv PROVE Load.map \in {NoValues, offered}
  BY DEF LoadIsAllOrNothing
<1>1. CASE medium = "memory"
  BY <1>1 DEF IInv, MemoryInv, Load, LoadMemory
<1>2. CASE medium = "file"
  <2>1. CASE Untouched
    <3>1. CASE file = NoFile
      BY <1>2, <3>1, LinesFacts DEF Load, LoadFile
    <3>2. CASE \E e \in Edited : file = Lines(e.lines) /\ offered = e.means
      BY <1>2, <3>2, LinesFacts, EditedAssumption DEF Load, LoadFile
    <3> QED BY <2>1, <3>1, <3>2 DEF Untouched
  <2>2. ASSUME NEW n \in 0..Len(Written(offered)), HasFirstLines(n)
        PROVE  Load.map \in {NoValues, offered}
    <3>1. Load.map = LoadValueMap(SubSeq(Written(offered), 1, n)).map
      BY <1>2, <2>2, LinesFacts DEF HasFirstLines, Load, LoadFile
    <3>2. offered \in ValueMap
      BY DEF IInv, MemoryInv
    <3> QED BY <3>1, <3>2, FormatAssumption
  <2> QED BY <1>2, <2>1, <2>2 DEF IInv, FileInv
<1> QED BY <1>1, <1>2 DEF IInv, MemoryInv

LEMMA LoadIsValueMap == IInv => Load.map \in ValueMap
BY LoadedWhole, EmptyIsValueMap DEF LoadIsAllOrNothing, IInv, MemoryInv

-----------------------------------------------------------------------------
(* Steps that leave the storage and the running save alone                 *)

LEMMA StorageFrame ==
    ASSUME MemoryInv, OneSaver, FileInv,
           UNCHANGED <<medium, master, file, stored, offered>>,
           \A q \in Process :
              /\ Saves(q)' => Saves(q) /\ map'[q] = map[q]
              /\ process'[q] = "saving" => process[q] = "saving" /\ unsaved'[q] = unsaved[q]
    PROVE  MemoryInv' /\ OneSaver' /\ FileInv'
<1>1. NobodySaves => NobodySaves'
  BY DEF NobodySaves, Saves
<1>2. MemoryInv'
  BY <1>1 DEF MemoryInv
<1>3. OneSaver'
  BY DEF OneSaver
<1>4. Untouched => Untouched'
  BY <1>1 DEF Untouched
<1>5. ASSUME NEW n \in 0..Len(Written(offered)), HasFirstLines(n) PROVE HasFirstLines(n)'
  BY <1>1, <1>5 DEF HasFirstLines
<1>6. FileInv'
  <2>1. CASE Untouched
    BY <1>4, <2>1 DEF FileInv
  <2>2. CASE medium = "file" /\ ~Untouched
    <3>1. PICK n \in 0..Len(Written(offered)) : HasFirstLines(n)
      BY <2>2 DEF FileInv
    <3>2. HasFirstLines(n)' /\ n \in 0..Len(Written(offered'))
      BY <1>5, <3>1
    <3> QED BY <3>2 DEF FileInv
  <2> QED BY <2>1, <2>2 DEF FileInv
<1> QED BY <1>2, <1>3, <1>6

\* A loader gives process p a value map.
LEMMA LoadStorageEffect ==
    ASSUME IInv, NEW p \in Process, LoadStorage(p)
    PROVE  /\ map' \in [Process -> ValueMap] /\ base' \in [Process -> ValueMap]
           /\ loaded' \in [Process -> BOOLEAN]
           /\ map'[p] = base'[p]
           /\ \A q \in Process \ {p} :
                 map'[q] = map[q] /\ base'[q] = base[q] /\ loaded'[q] = loaded[q]
<1>1. Load.map \in ValueMap /\ NoValues \in ValueMap
  BY LoadIsValueMap, EmptyIsValueMap
<1>2. PICK m \in ValueMap, l \in BOOLEAN :
        /\ map' = [map EXCEPT ![p] = m] /\ base' = [base EXCEPT ![p] = m]
        /\ loaded' = [loaded EXCEPT ![p] = l]
  BY <1>1 DEF LoadStorage, Adopt
<1> QED BY <1>2 DEF IInv, ProcessInv

-----------------------------------------------------------------------------
(* Loading, reading and setting                                            *)

LEMMA LoadingPreserves ==
    ASSUME IInv, NEW p \in Process, Create(p) \/ Update(p)
    PROVE  IInv'
<1>1. /\ UNCHANGED <<medium, master, file, unsaved, stored, offered>>
      /\ process[p] \in {"none", "idle"}
      /\ \A q \in Process \ {p} :
            process'[q] = process[q] /\ map'[q] = map[q] /\ base'[q] = base[q]
              /\ loaded'[q] = loaded[q] /\ dirty'[q] = dirty[q]
      /\ process' \in [Process -> {"none", "idle", "saving", "failing"}]
      /\ dirty' \in [Process -> BOOLEAN] /\ loaded' \in [Process -> BOOLEAN]
      /\ map' \in [Process -> ValueMap] /\ base' \in [Process -> ValueMap]
      /\ \/ UNCHANGED <<process, map, loaded, dirty, base>>
         \/ process'[p] = "idle" /\ ~dirty'[p] /\ map'[p] = base'[p]
  <2>1. CASE Create(p)
    <3>1. CASE LoadThrows(p)
      BY <2>1, <3>1 DEF IInv, ProcessInv, Create
    <3>2. CASE ~LoadThrows(p)
      BY <2>1, <3>2, LoadStorageEffect DEF IInv, ProcessInv, DirtyInv, Create
    <3> QED BY <3>1, <3>2
  <2>2. CASE Update(p)
    <3>1. CASE LoadThrows(p)
      BY <2>2, <3>1 DEF IInv, ProcessInv, Update
    <3>2. CASE ~LoadThrows(p)
      BY <2>2, <3>2, LoadStorageEffect DEF IInv, ProcessInv, DirtyInv, Update
    <3> QED BY <3>1, <3>2
  <2> QED BY <2>1, <2>2
<1>2. ProcessInv'
  <2>1. \A q \in Process : unsaved'[q] # <<>> => process'[q] = "saving"
    BY <1>1 DEF IInv, ProcessInv
  <2> QED BY <1>1, <2>1 DEF IInv, ProcessInv
<1>3. DirtyInv'
  BY <1>1 DEF IInv, DirtyInv
<1>4. MemoryInv' /\ OneSaver' /\ FileInv'
  <2>1. \A q \in Process :
           /\ Saves(q)' => Saves(q) /\ map'[q] = map[q]
           /\ process'[q] = "saving" => process[q] = "saving" /\ unsaved'[q] = unsaved[q]
    BY <1>1 DEF Saves
  <2> QED BY <1>1, <2>1, StorageFrame DEF IInv
<1> QED BY <1>2, <1>3, <1>4 DEF IInv

\* A getter and a setter make p load the storage, and p may then insert a value.
LEMMA AccessPreserves ==
    ASSUME IInv, NEW p \in Process, EnsureLoaded(p), NEW m \in ValueMap, NEW d \in BOOLEAN,
           map' = [map EXCEPT ![p] = m],
           dirty' = [dirty EXCEPT ![p] = d],
           ~d => ~dirty[p] /\ m = Current(p)
    PROVE  IInv'
<1>1. /\ UNCHANGED <<medium, master, file, process, unsaved, stored, offered>>
      /\ process[p] = "idle"
      /\ loaded' = [loaded EXCEPT ![p] = TRUE]
      /\ base' = IF loaded[p] THEN base ELSE [base EXCEPT ![p] = Load.map]
  BY DEF EnsureLoaded
<1>2. /\ process \in [Process -> {"none", "idle", "saving", "failing"}]
      /\ dirty \in [Process -> BOOLEAN] /\ loaded \in [Process -> BOOLEAN]
      /\ map \in [Process -> ValueMap] /\ base \in [Process -> ValueMap]
  BY DEF IInv, ProcessInv
<1>3. Load.map \in ValueMap
  BY LoadIsValueMap
<1>4. base' \in [Process -> ValueMap] /\ \A q \in Process \ {p} : base'[q] = base[q]
  BY <1>1, <1>2, <1>3
<1>5. ProcessInv'
  BY <1>1, <1>2, <1>4 DEF IInv, ProcessInv
<1>6. DirtyInv'
  <2>1. ASSUME ~d PROVE map'[p] = base'[p]
    <3>1. map'[p] = Current(p) /\ ~dirty[p]
      BY <1>2, <2>1
    <3>2. loaded[p] => map[p] = base[p]
      BY <1>1, <3>1 DEF IInv, DirtyInv
    <3> QED BY <1>1, <1>2, <3>1, <3>2 DEF Current
  <2>2. \A q \in Process \ {p} :
           map'[q] = map[q] /\ dirty'[q] = dirty[q] /\ loaded'[q] = loaded[q] /\ base'[q] = base[q]
    BY <1>1, <1>2, <1>4
  <2>3. dirty'[p] = d /\ loaded'[p] = TRUE
    BY <1>1, <1>2
  <2> QED BY <1>1, <2>1, <2>2, <2>3 DEF IInv, DirtyInv
<1>7. MemoryInv' /\ OneSaver' /\ FileInv'
  <2>1. \A q \in Process :
           /\ Saves(q)' => Saves(q) /\ map'[q] = map[q]
           /\ process'[q] = "saving" => process[q] = "saving" /\ unsaved'[q] = unsaved[q]
    BY <1>1, <1>2 DEF Saves
  <2> QED BY <1>1, <2>1, StorageFrame DEF IInv
<1> QED BY <1>5, <1>6, <1>7 DEF IInv

LEMMA GetSetPreserve ==
    ASSUME IInv, NEW p \in Process
    PROVE  /\ \A k, type : Get(p, k, type) => IInv'
           /\ \A s \in Setting : Set(p, s[1], s[2]) => IInv'
<1>1. /\ Current(p) \in ValueMap
      /\ dirty = [dirty EXCEPT ![p] = dirty[p]] /\ dirty[p] \in BOOLEAN
  BY LoadIsValueMap DEF IInv, ProcessInv, Current
<1>2. ASSUME NEW k, NEW type, Get(p, k, type) PROVE IInv'
  <2>1. EnsureLoaded(p) /\ map' = [map EXCEPT ![p] = Current(p)] /\ UNCHANGED dirty
    BY <1>2 DEF Get
  <2> QED BY <1>1, <2>1, AccessPreserves
<1>3. ASSUME NEW s \in Setting, Set(p, s[1], s[2]) PROVE IInv'
  <2>1. /\ EnsureLoaded(p)
        /\ map' = [map EXCEPT ![p] = Inserted(Current(p), s[1], s[2])]
        /\ dirty' = [dirty EXCEPT ![p] = TRUE]
    BY <1>3 DEF Set
  <2>2. Inserted(Current(p), s[1], s[2]) \in ValueMap
    BY <1>1, InsertedIsValueMap
  <2> QED BY <2>1, <2>2, AccessPreserves
<1> QED BY <1>2, <1>3

-----------------------------------------------------------------------------
(* Committing                                                              *)

LEMMA SplitLines ==
    ASSUME NEW w \in Seq(Line), NEW n \in 0..Len(w)
    PROVE  /\ SubSeq(w, 1, 0) = <<>> /\ SubSeq(w, 1, Len(w)) = w /\ Len(w) \in Nat
           /\ SubSeq(w, n + 1, Len(w)) \in Seq(Line)
           /\ n = Len(w) <=> SubSeq(w, n + 1, Len(w)) = <<>>
           /\ n # Len(w) =>
                 /\ n + 1 \in 0..Len(w)
                 /\ Append(SubSeq(w, 1, n), Head(SubSeq(w, n + 1, Len(w)))) = SubSeq(w, 1, n + 1)
                 /\ Tail(SubSeq(w, n + 1, Len(w))) = SubSeq(w, n + 1 + 1, Len(w))
<1>1. /\ Len(w) \in Nat /\ n \in Nat /\ n <= Len(w)
      /\ \A i \in 1..Len(w) : w[i] \in Line
  BY LenProperties, ElementOfSeq
<1>2. SubSeq(w, 1, 0) = <<>> /\ SubSeq(w, 1, Len(w)) = w
  BY SubSeqEmpty, SubSeqFull
<1>3. /\ SubSeq(w, n + 1, Len(w)) \in Seq(Line)
      /\ Len(SubSeq(w, n + 1, Len(w))) = IF n + 1 <= Len(w) THEN Len(w) - (n + 1) + 1 ELSE 0
  BY <1>1, SubSeqProperties
<1>4. n = Len(w) <=> SubSeq(w, n + 1, Len(w)) = <<>>
  <2>1. SubSeq(w, n + 1, Len(w)) = <<>> <=> Len(SubSeq(w, n + 1, Len(w))) = 0
    BY <1>3, EmptySeq
  <2>2. n = Len(w) => Len(SubSeq(w, n + 1, Len(w))) = 0
    BY <1>1, <1>3
  <2>3. n # Len(w) => Len(SubSeq(w, n + 1, Len(w))) # 0
    BY <1>1, <1>3
  <2> QED BY <2>1, <2>2, <2>3
<1>5. ASSUME n # Len(w)
      PROVE  /\ n + 1 \in 0..Len(w)
             /\ Append(SubSeq(w, 1, n), Head(SubSeq(w, n + 1, Len(w)))) = SubSeq(w, 1, n + 1)
             /\ Tail(SubSeq(w, n + 1, Len(w))) = SubSeq(w, n + 1 + 1, Len(w))
  <2>1. n + 1 \in 1..Len(w) /\ Len(w) \in n + 1..Len(w)
    BY <1>1, <1>5
  <2>2. /\ Head(SubSeq(w, n + 1, Len(w))) = w[n + 1]
        /\ Tail(SubSeq(w, n + 1, Len(w))) = SubSeq(w, n + 1 + 1, Len(w))
    BY <2>1, HeadTailOfSubSeq
  <2>3. 1 \in 1..Len(w) /\ n + 1 \in 1..Len(w)
    BY <1>1, <2>1
  <2>4. SubSeq(w, 1, n + 1) = SubSeq(w, 1, n + 1 - 1) \o <<w[n + 1]>>
    BY <2>1, <2>3, SubSeqRecursiveSecond
  <2>5. n + 1 - 1 = n
    BY <1>1
  <2>6. SubSeq(w, 1, n) \in Seq(Line) /\ w[n + 1] \in Line
    BY <1>1, <2>1, SubSeqProperties
  <2>7. Append(SubSeq(w, 1, n), w[n + 1]) = SubSeq(w, 1, n) \o <<w[n + 1]>>
    BY <2>6, AppendIsConcat
  <2> QED BY <2>1, <2>2, <2>4, <2>5, <2>7
<1> QED BY <1>1, <1>2, <1>3, <1>4, <1>5

LEMMA OpenFilePreserves ==
    ASSUME IInv, NEW p \in Process, OpenFile(p)
    PROVE  IInv'
<1> DEFINE w == Written(map[p])
<1>1. /\ medium = "file" /\ process[p] = "idle" /\ dirty[p] /\ NobodySaves
      /\ file' = Lines(<<>>) /\ stored' = {}
      /\ UNCHANGED <<medium, master, map, loaded, dirty, base>>
  BY DEF OpenFile
<1>2. map[p] \in ValueMap /\ w \in Seq(Line) /\ offered \in ValueMap
  BY FormatAssumption DEF IInv, ProcessInv, MemoryInv
<1>3. CASE w = <<>>
  <2>1. UNCHANGED <<process, unsaved, offered>>
    BY <1>3 DEF OpenFile
  <2>2. HasFirstLines(0)'
    <3>1. Written(offered) \in Seq(Line)
      BY <1>2, FormatAssumption
    <3>2. 0 \in 0..Len(Written(offered))
      BY <3>1, LenProperties
    <3>3. SubSeq(Written(offered), 1, 0) = <<>>
      BY <3>1, <3>2, SplitLines
    <3>4. \A q \in Process : ~Saves(q)' /\ process'[q] # "saving"
      BY <1>1, <2>1 DEF NobodySaves, Saves
    <3> QED BY <1>1, <2>1, <3>3, <3>4 DEF HasFirstLines
  <2>3. FileInv'
    <3>1. Written(offered') \in Seq(Line)
      BY <1>2, <2>1, FormatAssumption
    <3>2. 0 \in 0..Len(Written(offered'))
      BY <3>1, LenProperties
    <3> QED BY <2>2, <3>2 DEF FileInv
  <2>4. ProcessInv' /\ DirtyInv' /\ MemoryInv' /\ OneSaver'
    BY <1>1, <2>1 DEF IInv, ProcessInv, DirtyInv, MemoryInv, OneSaver, Saves, NobodySaves
  <2> QED BY <2>3, <2>4 DEF IInv
<1>4. CASE w # <<>>
  <2>1. /\ process' = [process EXCEPT ![p] = "saving"]
        /\ unsaved' = [unsaved EXCEPT ![p] = w]
        /\ offered' = map[p]
    BY <1>4 DEF OpenFile
  <2>2. /\ process \in [Process -> {"none", "idle", "saving", "failing"}]
        /\ unsaved \in [Process -> Seq(Line)]
    BY DEF IInv, ProcessInv
  <2>3. /\ process'[p] = "saving" /\ unsaved'[p] = w
        /\ \A q \in Process \ {p} : process'[q] = process[q] /\ unsaved'[q] = unsaved[q]
    BY <2>1, <2>2
  <2>4. \A q \in Process : Saves(q)' => q = p
    BY <1>1, <2>3 DEF NobodySaves, Saves
  <2>5. ProcessInv'
    BY <1>1, <1>2, <2>1, <2>2, <2>3 DEF IInv, ProcessInv
  <2>6. DirtyInv' /\ OneSaver' /\ MemoryInv'
    BY <1>1, <1>2, <2>1, <2>3, <2>4 DEF IInv, DirtyInv, OneSaver, MemoryInv
  <2>7. 0 \in 0..Len(w) /\ SubSeq(w, 1, 0) = <<>> /\ SubSeq(w, 0 + 1, Len(w)) = w
    <3>1. 0 \in 0..Len(w) /\ 0 + 1 = 1
      BY <1>2, LenProperties
    <3> QED BY <1>2, <3>1, SplitLines
  <2>8. HasFirstLines(0)' /\ 0 \in 0..Len(Written(offered'))
    <3>1. \A q \in Process : Saves(q)' => map'[q] = offered' /\ Written(offered') # <<>>
      BY <1>1, <1>4, <2>1, <2>4
    <3>2. \A q \in Process : process'[q] = "saving" =>
              unsaved'[q] = SubSeq(Written(offered'), 0 + 1, Len(Written(offered')))
      BY <2>1, <2>3, <2>4, <2>7 DEF Saves
    <3>3. file' = Lines(SubSeq(Written(offered'), 1, 0)) /\ stored' = {}
      BY <1>1, <2>1, <2>7
    <3> QED BY <2>1, <2>7, <3>1, <3>2, <3>3 DEF HasFirstLines
  <2>9. FileInv'
    BY <2>8 DEF FileInv
  <2> QED BY <2>5, <2>6, <2>9 DEF IInv
<1> QED BY <1>3, <1>4

LEMMA WriteLinePreserves ==
    ASSUME IInv, NEW p \in Process, WriteLine(p)
    PROVE  IInv'
<1> DEFINE w == Written(offered)
<1>1. /\ process[p] = "saving" /\ unsaved[p] # <<>>
      /\ file' = Lines(Append(file.lines, Head(unsaved[p])))
      /\ unsaved' = [unsaved EXCEPT ![p] = Tail(unsaved[p])]
      /\ UNCHANGED <<medium, master, process, map, loaded, dirty, answer, stored, offered, base>>
  BY DEF WriteLine
<1>2. /\ process \in [Process -> {"none", "idle", "saving", "failing"}]
      /\ unsaved \in [Process -> Seq(Line)]
  BY DEF IInv, ProcessInv
<1>3. w \in Seq(Line)
  BY FormatAssumption DEF IInv, MemoryInv
<1>4. medium = "file" /\ ~Untouched
  BY <1>1 DEF IInv, MemoryInv, Untouched, NobodySaves
<1>5. PICK n \in 0..Len(w) : HasFirstLines(n)
  BY <1>4 DEF IInv, FileInv
<1>6. unsaved[p] = SubSeq(w, n + 1, Len(w)) /\ file.lines = SubSeq(w, 1, n) /\ stored = {}
  BY <1>1, <1>5, LinesFacts DEF HasFirstLines, NobodySaves
<1>7. /\ n + 1 \in 0..Len(w)
      /\ file' = Lines(SubSeq(w, 1, n + 1))
      /\ unsaved'[p] = SubSeq(w, n + 1 + 1, Len(w))
      /\ unsaved'[p] \in Seq(Line)
  <2>1. unsaved'[p] = Tail(unsaved[p]) /\ unsaved'[p] \in Seq(Line)
    BY <1>1, <1>2, HeadTailProperties
  <2>2. n # Len(w)
    BY <1>1, <1>3, <1>6, SplitLines
  <2>3. /\ n + 1 \in 0..Len(w)
        /\ Append(SubSeq(w, 1, n), Head(SubSeq(w, n + 1, Len(w)))) = SubSeq(w, 1, n + 1)
        /\ Tail(SubSeq(w, n + 1, Len(w))) = SubSeq(w, n + 1 + 1, Len(w))
    BY <1>3, <2>2, SplitLines
  <2> QED BY <1>1, <1>6, <2>1, <2>3
<1>8. \A q \in Process : process[q] = "saving" => q = p
  BY <1>1 DEF IInv, OneSaver, Saves
<1>9. HasFirstLines(n + 1)'
  BY <1>1, <1>5, <1>6, <1>7, <1>8 DEF HasFirstLines, Saves
<1>10. FileInv'
  BY <1>1, <1>7, <1>9 DEF FileInv
<1>11. ProcessInv' /\ DirtyInv' /\ MemoryInv' /\ OneSaver'
  <2>1. unsaved' \in [Process -> Seq(Line)]
    BY <1>1, <1>2, <1>7
  <2>2. \A q \in Process : unsaved'[q] # <<>> => process'[q] = "saving"
    BY <1>1, <1>2 DEF IInv, ProcessInv
  <2> QED BY <1>1, <2>1, <2>2 DEF IInv, ProcessInv, DirtyInv, MemoryInv, NobodySaves, OneSaver, Saves
<1> QED BY <1>10, <1>11 DEF IInv

LEMMA FinishCommitPreserves ==
    ASSUME IInv, NEW p \in Process, FinishCommit(p)
    PROVE  IInv'
<1> DEFINE w == Written(offered)
<1>1. /\ Saves(p) /\ unsaved[p] = <<>>
      /\ process' = [process EXCEPT ![p] = "idle"]
      /\ dirty' = [dirty EXCEPT ![p] = FALSE]
      /\ stored' = IF process[p] = "saving" THEN {map[p]} ELSE {}
      /\ base' = [base EXCEPT ![p] = map[p]]
      /\ UNCHANGED <<medium, master, file, map, loaded, unsaved, offered>>
  BY DEF FinishCommit, Saves
<1>2. ProcessInv
  BY DEF IInv
<1>3. w \in Seq(Line)
  BY FormatAssumption DEF IInv, MemoryInv
<1>4. medium = "file" /\ ~Untouched
  BY <1>1 DEF IInv, MemoryInv, Untouched, NobodySaves, Saves
<1>5. PICK n \in 0..Len(w) : HasFirstLines(n)
  BY <1>4 DEF IInv, FileInv
<1>6. /\ process'[p] = "idle" /\ dirty'[p] = FALSE /\ base'[p] = map[p]
      /\ \A q \in Process \ {p} :
            process'[q] = process[q] /\ dirty'[q] = dirty[q] /\ base'[q] = base[q]
  BY <1>1, <1>2 DEF ProcessInv
<1>7. \A q \in Process : ~Saves(q)'
  BY <1>1, <1>6 DEF IInv, OneSaver, Saves
<1>8. NobodySaves'
  BY <1>7 DEF NobodySaves, Saves
<1>9. HasFirstLines(n)'
  <2>1. map[p] = offered /\ w # <<>>
    BY <1>1, <1>5 DEF HasFirstLines
  <2>2. process[p] = "saving" => n = Len(w)
    BY <1>1, <1>3, <1>5, SplitLines DEF HasFirstLines
  <2>3. file' = Lines(SubSeq(w, 1, n))
    BY <1>1, <1>5 DEF HasFirstLines
  <2>4. \A q \in Process : process'[q] # "saving"
    BY <1>7 DEF Saves
  <2> QED BY <1>1, <1>7, <1>8, <2>1, <2>2, <2>3, <2>4 DEF HasFirstLines
<1>10. FileInv'
  BY <1>1, <1>9 DEF FileInv
<1>11. ProcessInv'
  BY <1>1, <1>2, <1>6 DEF ProcessInv
<1>12. DirtyInv'
  BY <1>1, <1>6 DEF IInv, DirtyInv
<1>13. MemoryInv' /\ OneSaver'
  BY <1>1, <1>4, <1>7 DEF IInv, MemoryInv, OneSaver
<1> QED BY <1>10, <1>11, <1>12, <1>13 DEF IInv

LEMMA CommitToMemoryPreserves ==
    ASSUME IInv, NEW p \in Process, CommitToMemory(p)
    PROVE  IInv'
<1>1. /\ medium = "memory" /\ process[p] = "idle"
      /\ master' = map[p] /\ offered' = map[p] /\ stored' = {map[p]}
      /\ dirty' = [dirty EXCEPT ![p] = FALSE]
      /\ base' = [base EXCEPT ![p] = map[p]]
      /\ UNCHANGED <<medium, file, process, map, loaded, unsaved>>
  BY DEF CommitToMemory
<1>2. ProcessInv
  BY DEF IInv
<1>3. /\ dirty'[p] = FALSE /\ base'[p] = map[p] /\ map[p] \in ValueMap
      /\ \A q \in Process \ {p} : dirty'[q] = dirty[q] /\ base'[q] = base[q]
  BY <1>1, <1>2 DEF ProcessInv
<1>4. ProcessInv' /\ DirtyInv'
  BY <1>1, <1>2, <1>3 DEF IInv, ProcessInv, DirtyInv
<1>5. MemoryInv' /\ OneSaver' /\ FileInv'
  BY <1>1, <1>3 DEF IInv, MemoryInv, OneSaver, Saves, NobodySaves, FileInv
<1> QED BY <1>4, <1>5 DEF IInv

\* A crash in a commit, a full disk, and the ends of the other calls.
LEMMA ExitPreserves ==
    ASSUME IInv, NEW p \in Process, Exit(p)
    PROVE  IInv'
<1>1. /\ process' = [process EXCEPT ![p] = "none"]
      /\ map' = [map EXCEPT ![p] = NoValues]
      /\ loaded' = [loaded EXCEPT ![p] = FALSE]
      /\ dirty' = [dirty EXCEPT ![p] = FALSE]
      /\ unsaved' = [unsaved EXCEPT ![p] = <<>>]
      /\ base' = [base EXCEPT ![p] = NoValues]
      /\ UNCHANGED <<medium, master, file, stored, offered>>
  BY DEF Exit
<1>2. ProcessInv /\ NoValues \in ValueMap /\ <<>> \in Seq(Line)
  BY EmptyIsValueMap, EmptySeq DEF IInv
<1>3. /\ process'[p] = "none" /\ dirty'[p] = FALSE /\ unsaved'[p] = <<>>
      /\ \A q \in Process \ {p} :
            /\ process'[q] = process[q] /\ map'[q] = map[q] /\ loaded'[q] = loaded[q]
            /\ dirty'[q] = dirty[q] /\ unsaved'[q] = unsaved[q] /\ base'[q] = base[q]
  BY <1>1, <1>2 DEF ProcessInv
<1>4. ProcessInv'
  BY <1>1, <1>2, <1>3 DEF ProcessInv
<1>5. DirtyInv'
  BY <1>3 DEF IInv, DirtyInv
<1>6. MemoryInv' /\ OneSaver' /\ FileInv'
  <2>1. \A q \in Process :
           /\ Saves(q)' => Saves(q) /\ map'[q] = map[q]
           /\ process'[q] = "saving" => process[q] = "saving" /\ unsaved'[q] = unsaved[q]
    BY <1>3 DEF Saves
  <2> QED BY <1>1, <2>1, StorageFrame DEF IInv
<1> QED BY <1>4, <1>5, <1>6 DEF IInv

LEMMA DiskFullPreserves ==
    ASSUME IInv, NEW p \in Process, DiskFull(p)
    PROVE  IInv'
<1>1. /\ process[p] = "saving"
      /\ process' = [process EXCEPT ![p] = "failing"]
      /\ unsaved' = [unsaved EXCEPT ![p] = <<>>]
      /\ UNCHANGED <<medium, master, file, map, loaded, dirty, stored, offered, base>>
  BY DEF DiskFull
<1>2. ProcessInv /\ <<>> \in Seq(Line)
  BY EmptySeq DEF IInv
<1>3. /\ process'[p] = "failing" /\ unsaved'[p] = <<>>
      /\ \A q \in Process \ {p} : process'[q] = process[q] /\ unsaved'[q] = unsaved[q]
  BY <1>1, <1>2 DEF ProcessInv
<1>4. ProcessInv' /\ DirtyInv'
  BY <1>1, <1>2, <1>3 DEF IInv, ProcessInv, DirtyInv
<1>5. MemoryInv' /\ OneSaver' /\ FileInv'
  <2>1. \A q \in Process :
           /\ Saves(q)' => Saves(q) /\ map'[q] = map[q]
           /\ process'[q] = "saving" => process[q] = "saving" /\ unsaved'[q] = unsaved[q]
    BY <1>1, <1>3 DEF Saves
  <2> QED BY <1>1, <2>1, StorageFrame DEF IInv
<1> QED BY <1>4, <1>5 DEF IInv

LEMMA StutterPreserves ==
    ASSUME IInv,
           UNCHANGED <<medium, master, file, process, map, loaded, dirty, unsaved, stored, offered, base>>
    PROVE  IInv'
<1>1. ProcessInv' /\ DirtyInv'
  BY DEF IInv, ProcessInv, DirtyInv
<1>2. MemoryInv' /\ OneSaver' /\ FileInv'
  BY StorageFrame DEF IInv, Saves
<1> QED BY <1>1, <1>2 DEF IInv

-----------------------------------------------------------------------------
(* The invariant                                                           *)

LEMMA InitEstablishes == Init => IInv
<1> SUFFICES ASSUME Init PROVE IInv
  OBVIOUS
<1>1. NoValues \in ValueMap /\ <<>> \in Seq(Line)
  BY EmptyIsValueMap, EmptySeq
<1>2. ProcessInv /\ DirtyInv
  BY <1>1 DEF Init, ProcessInv, DirtyInv
<1>3. \A p \in Process : process[p] = "none"
  BY DEF Init
<1>4. NobodySaves /\ OneSaver
  BY <1>3 DEF NobodySaves, OneSaver, Saves
<1>5. offered \in ValueMap
  BY <1>1, EntryAssumption DEF Init
<1>6. MemoryInv
  BY <1>1, <1>4, <1>5, MediumAssumption DEF Init, MemoryInv
<1>7. FileInv
  BY <1>4 DEF Init, FileInv, Untouched
<1> QED BY <1>2, <1>4, <1>6, <1>7 DEF IInv

\* The inductive invariant holds in every reachable state.
THEOREM Invariance == Spec => []IInv
<1>1. IInv /\ [Next]_vars => IInv'
  <2> SUFFICES ASSUME IInv, [Next]_vars PROVE IInv'
    OBVIOUS
  <2>1. ASSUME NEW p \in Process, LoadingFails(p) \/ CommitClean(p) \/ CannotOpenFile(p)
        PROVE  IInv'
    BY <2>1, StutterPreserves DEF LoadingFails, CommitClean, CannotOpenFile
  <2>2. CASE UNCHANGED vars
    BY <2>2, StutterPreserves DEF vars
  <2> QED BY <2>1, <2>2, LoadingPreserves, GetSetPreserve, OpenFilePreserves, WriteLinePreserves,
             DiskFullPreserves, CommitToMemoryPreserves, FinishCommitPreserves, ExitPreserves
          DEF Next
<1> QED BY InitEstablishes, <1>1, PTL DEF Spec

-----------------------------------------------------------------------------
(* What the invariant shows                                                *)

\* The variables hold values of their types; a number of a value map is a
\* std::uint32_t, wherever it comes from.
THEOREM TypeCorrectness == Spec => []TypeOK
<1>1. IInv => TypeOK
  <2> SUFFICES ASSUME IInv PROVE TypeOK
    OBVIOUS
  <2>1. ASSUME NEW m \in ValueMap, NEW k \in DOMAIN m, m[k][1] = "number" PROVE m[k][2] \in Uint32
    <3>1. <<k, m[k]>> \in Entry
      BY DEF ValueMap
    <3>2. <<k, m[k]>>[2] = m[k]
      OBVIOUS
    <3> QED BY <2>1, <3>1, <3>2, EntryAssumption
  <2> QED BY <2>1 DEF IInv, ProcessInv, TypeOK
<1> QED BY <1>1, Invariance, PTL

\* Whoever loads the storage, at any moment of a save or after a crash in it,
\* gets all of what was being saved or nothing.
THEOREM LoadsAreWhole == Spec => []LoadIsAllOrNothing
BY LoadedWhole, Invariance, PTL

\* A commit that writes nothing loses nothing.
THEOREM CleanCommitsLoseNothing == Spec => []CommitLosesNothing
<1>1. IInv => CommitLosesNothing
  BY DEF IInv, DirtyInv, CommitLosesNothing
<1> QED BY <1>1, Invariance, PTL

\* If the parser undoes what the writer does to the values in question, a completed
\* commit is read back as it was committed until the next one begins.
THEOREM CommitsAreReadBack ==
    ASSUME FormatRoundTrips
    PROVE  Spec => []CommittedIsReadBack
<1>1. IInv => CommittedIsReadBack
  <2> SUFFICES ASSUME IInv, NEW m \in stored
               PROVE  Load = [status |-> "ok", map |-> m]
    BY DEF CommittedIsReadBack
  <2>1. CASE medium = "memory"
    BY <2>1 DEF IInv, MemoryInv, Load, LoadMemory
  <2>2. CASE medium = "file"
    <3>1. PICK n \in 0..Len(Written(offered)) : HasFirstLines(n)
      BY <2>2 DEF IInv, FileInv, Untouched
    <3>2. /\ m = offered /\ Written(offered) # <<>>
          /\ file = Lines(SubSeq(Written(offered), 1, Len(Written(offered))))
      BY <3>1 DEF HasFirstLines
    <3>3. offered \in ValueMap /\ Written(offered) \in Seq(Line)
      BY FormatAssumption DEF IInv, MemoryInv
    <3>4. file = Lines(Written(offered))
      BY <3>2, <3>3, SubSeqFull
    <3>5. Load = LoadValueMap(Written(offered))
      BY <2>2, <3>4, LinesFacts DEF Load, LoadFile
    <3> QED BY <3>2, <3>3, <3>5 DEF FormatRoundTrips
  <2> QED BY <2>1, <2>2 DEF IInv, MemoryInv
<1> QED BY <1>1, Invariance, PTL
=============================================================================
