----------------------- MODULE StoreImplementsWorkLog -----------------------
(***************************************************************************)
(* HarnieStore implements WorkLog: a log is the rows of a Work in ORDER BY *)
(* ordinal, and a checkpoint says how many events it counts and the claims *)
(* derived from them.                                                      *)
(***************************************************************************)
EXTENDS HarnieStore

\* The event with i others before it.
EventAt(l, i) == CHOOSE e \in DOMAIN l : Cardinality({d \in DOMAIN l : l[d] < l[e]}) = i

LogOf(l) == [i \in 1..Cardinality(DOMAIN l) |-> EventAt(l, i - 1)]

ListingOf(seq) == [e \in {seq[i] : i \in DOMAIN seq} |->
                     (CHOOSE i \in DOMAIN seq : seq[i] = e) - 1]

Shot(checkpoint) == [length |-> checkpoint.count, says |-> checkpoint.claims]

ParentOf(from) == IF from = None THEN {} ELSE {<<from.work, from.ckpt>>}

Abstract == INSTANCE WorkLog WITH
    Works <- WorkIds, Events <- EventIds,
    Summary <- LAMBDA seq : Derive(ListingOf(seq)),
    born <- works,
    log <- [w \in WorkIds |-> LogOf(rows[w])],
    shots <- [w \in WorkIds |-> [k \in DOMAIN ckpts[w] |-> Shot(ckpts[w][k])]],
    parent <- [w \in WorkIds |-> ParentOf(origin[w])]

\* Every command, however it interleaves with the others, fails or crashes, acts
\* on Works as one atomic step of WorkLog or as none.
ImplementsWorkLog == Abstract!Spec
=============================================================================
