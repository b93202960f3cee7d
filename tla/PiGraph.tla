------------------------------ MODULE PiGraph ------------------------------
(***************************************************************************)
(* What Harnie finds wrong with the tree of a Pi session (pi/graph.ts).    *)
(*                                                                         *)
(* Every entry of a Pi session names itself and the entry it continues:    *)
(* line n has an id, or None, and a parent: an id, Root (parentId: null)   *)
(* or None (no parentId, or one that is no string: the reader drops it).   *)
(* An entry is known by the number of its line.                            *)
(***************************************************************************)
EXTENDS Naturals, Sequences, FiniteSets

CONSTANTS None, Root

ASSUME RootAssumption == None # Root

\* A diagnostic is about a line and, if that has a name, about an entry.
Found(code, file, lines) ==
    {[code |-> code, line |-> n, entry |-> file[n].id] : n \in lines}

Named(file, entries) == {n \in entries : file[n].id # None}

\* byId.get(id)
Holders(file, entries, id) == {n \in Named(file, entries) : file[n].id = id}

\* The entries whose id no other entry has.
Unique(file, entries) ==
    {n \in Named(file, entries) : Holders(file, entries, file[n].id) = {n}}

\* The entry that each unique entry continues: 0 where there is none, or none
\* that is unique.
Parent(file, entries) ==
    LET unique == Unique(file, entries)
    IN  [n \in unique |->
           IF \E p \in unique : file[p].id = file[n].parent
             THEN CHOOSE p \in unique : file[p].id = file[n].parent
             ELSE 0]

\* The entries that the walk from start to its parent, its parent's parent and
\* so on visits: it stops at the end of the branch or where it has been before.
Walk(parent, start) ==
    LET step[i \in 0..Cardinality(DOMAIN parent)] ==
          IF i = 0 THEN start
          ELSE IF step[i - 1] = 0 THEN 0 ELSE parent[step[i - 1]]
    IN  step

\* Mutant: a walk must come back to where it began.
ComesHome(walk) == \E j \in DOMAIN walk \ {0} : walk[j] = walk[0]

\* seen.has(current.entryId)
ComesBack(walk) == \E i, j \in DOMAIN walk : i < j /\ walk[i] = walk[j] /\ walk[i] # 0

\* detectCycles: every entry that a walk saw before it came back.
CycleEntries(parent) ==
    UNION {{w[i] : i \in DOMAIN w} :
             w \in {v \in {Walk(parent, n) : n \in DOMAIN parent} : ComesBack(v)}}

\* validatePiGraph, but for the timestamps.
GraphReports(file, entries) ==
    LET named == Named(file, entries)
        IsId(p) == p \notin {None, Root}
    IN  UNION {
          Found("missing_entry_id", file, entries \ named),
          Found("missing_parent_id", file, {n \in named : file[n].parent = None}),
          Found("self_parent", file, {n \in named : file[n].parent = file[n].id}),
          Found("duplicate_entry_id", file, named \ Unique(file, entries)),
          Found("orphan_parent", file,
                {n \in entries : /\ IsId(file[n].parent)
                                 /\ Holders(file, entries, file[n].parent) = {}}),
          Found("parent_cycle", file, CycleEntries(Parent(file, entries)))}

\* What the walks should find: the entries of the largest set in which everyone
\* has a parent, so that no branch of it ever ends.
Endless(parent) ==
    UNION {S \in SUBSET DOMAIN parent : \A n \in S : parent[n] \in S}
=============================================================================
