------------------------------ MODULE WorkLog ------------------------------
(***************************************************************************)
(* What the store promises of Works, whatever processes run: a Work is an  *)
(* append-only log of distinct events, a checkpoint is an immutable        *)
(* summary of the whole log at the moment it is taken, and a fork is born  *)
(* in one step as the prefix of its parent that one checkpoint covers.     *)
(***************************************************************************)
EXTENDS Naturals, FiniteSets, SequencesExt

CONSTANTS Works, Events,
          Summary(_)    \* what a checkpoint says of a log

VARIABLES born,    \* the Works that exist
          log,     \* log[w]: the events of w, oldest first
          shots,   \* shots[w]: the checkpoints of w, oldest first
          parent   \* parent[c]: set of at most one checkpoint a fork is from

vars == <<born, log, shots, parent>>

Init == /\ born = {}
        /\ log = [w \in Works |-> <<>>]
        /\ shots = [w \in Works |-> <<>>]
        /\ parent = [w \in Works |-> {}]

OthersKeep(f, g, w) == \A v \in Works \ {w} : g[v] = f[v]

\* An import creates w, or appends events that w lacks, or finds nothing new.
Extend(w) == /\ born' = born \cup {w}
             /\ log'[w] \in Seq(Events)
             /\ IsPrefix(log[w], log'[w])
             /\ IsInjective(log'[w])
             /\ OthersKeep(log, log', w)
             /\ UNCHANGED <<shots, parent>>

Snapshot(w) == /\ w \in born
               /\ shots' = [shots EXCEPT ![w] =
                              Append(@, [length |-> Len(log[w]), says |-> Summary(log[w])])]
               /\ UNCHANGED <<born, log, parent>>

Fork(w, c, k) == /\ w \in born /\ c \notin born
                 /\ k \in DOMAIN shots[w]
                 /\ born' = born \cup {c}
                 /\ log' = [log EXCEPT ![c] = SubSeq(log[w], 1, shots[w][k].length)]
                 /\ parent' = [parent EXCEPT ![c] = {<<w, k>>}]
                 /\ UNCHANGED shots

Next == \E w \in Works : \/ Extend(w)
                         \/ Snapshot(w)
                         \/ \E c \in Works : \E k \in DOMAIN shots[w] : Fork(w, c, k)

Spec == Init /\ [][Next]_vars
=============================================================================
