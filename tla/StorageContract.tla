--------------------------- MODULE StorageContract ---------------------------
(***************************************************************************)
(* What the storages of a trie promise: each has a base, a check and at    *)
(* most one value at every index; clones are apart or share, as their kind *)
(* says; what has been written into a file can be read from it, and from a *)
(* part of the file nothing can.                                           *)
(***************************************************************************)
EXTENDS Integers, Sequences

CONSTANTS
    CellIndex, ValueIndex,   \* the indexes in question
    Bases, Checks, Values,
    NewCell     \* base and check where none has been set

VARIABLES
    lost,       \* the values that a file cannot tell from no value, always the same
    groups,     \* the contents of each group of storages that share them
    members,    \* of each storage: its group, and if its clones share it
    saved       \* what the file holds: a sequence of at most one content

vars == <<lost, groups, members, saved>>

Untouched == [cells |-> [i \in CellIndex |-> NewCell], values |-> [i \in ValueIndex |-> <<>>]]

Recovered(content) ==
    [content EXCEPT !.values =
        [i \in ValueIndex |-> IF @[i] # <<>> /\ Head(@[i]) \notin lost THEN @[i] ELSE <<>>]]

Init ==
    /\ lost \subseteq Values
    /\ groups = <<Untouched>>
    /\ \E share \in BOOLEAN : members = <<[group |-> 1, share |-> share]>>
    /\ saved = <<>>

Becomes(m, content) ==
    /\ groups' = [groups EXCEPT ![members[m].group] = content]
    /\ UNCHANGED <<lost, members, saved>>

SetBase(m, i, base) ==
    Becomes(m, [groups[members[m].group] EXCEPT !.cells[i].base = base])
SetCheck(m, i, check) ==
    Becomes(m, [groups[members[m].group] EXCEPT !.cells[i].check = check])
AddValue(m, i, value) ==
    Becomes(m, [groups[members[m].group] EXCEPT !.values[i] = <<value>>])

Clone(m) ==
    /\ IF members[m].share
         THEN groups' = groups /\ members' = Append(members, members[m])
         ELSE /\ groups' = Append(groups, groups[members[m].group])
              /\ members' = Append(members, [members[m] EXCEPT !.group = Len(groups) + 1])
    /\ UNCHANGED <<lost, saved>>

\* All of the file is written, or only a part.
Save(m) ==
    /\ saved' \in {<<groups[members[m].group]>>, <<>>}
    /\ UNCHANGED <<lost, groups, members>>

Load(share) ==
    /\ saved # <<>>
    /\ groups' = Append(groups, Recovered(Head(saved)))
    /\ members' = Append(members, [group |-> Len(groups) + 1, share |-> share])
    /\ UNCHANGED <<lost, saved>>

DestroyAll ==
    /\ groups' = <<>> /\ members' = <<>>
    /\ UNCHANGED <<lost, saved>>

Next ==
    \/ DestroyAll
    \/ \E m \in DOMAIN members :
          \/ \E i \in CellIndex, base \in Bases : SetBase(m, i, base)
          \/ \E i \in CellIndex, check \in Checks : SetCheck(m, i, check)
          \/ \E i \in ValueIndex, value \in Values : AddValue(m, i, value)
          \/ Clone(m)
          \/ Save(m)
    \/ \E share \in BOOLEAN : Load(share)

Spec == Init /\ [][Next]_vars
=============================================================================
