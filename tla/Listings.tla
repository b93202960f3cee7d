------------------------------ MODULE Listings ------------------------------
(***************************************************************************)
(* Event lists and the rows they are stored as.                            *)
(*                                                                         *)
(* A LISTING is a function from a set of ids to natural numbers: an id is  *)
(* listed at the ordinal it maps to.  The rows of table events that belong *)
(* to one Work are a listing (column ordinal), the in-memory array         *)
(* Work.events is one (any numbers that give its order), and so are the    *)
(* rows of table executions (column rowid).                                *)
(***************************************************************************)
EXTENDS Naturals, FiniteSets

\* l lists ids of S.
IsListing(l, S) == /\ DOMAIN l \subseteq S
                   /\ l \in [DOMAIN l -> Nat]

\* No two ids share an ordinal, so the order of the list is determined.
Distinct(l) == \A d, e \in DOMAIN l : l[d] = l[e] => d = e

\* The ordinals are 0, 1, 2, ..., without a gap (of a list without ties).
Dense(l) == \A e \in DOMAIN l : l[e] = Cardinality({d \in DOMAIN l : l[d] < l[e]})

Empty == [x \in {} |-> 0]

\* COALESCE(MAX(ordinal), -1) + 1: the first ordinal after every listed one.
NextOrdinal(l) ==
    IF DOMAIN l = {}
      THEN 0
      ELSE 1 + l[CHOOSE e \in DOMAIN l : \A d \in DOMAIN l : l[d] <= l[e]]

\* The ids of l that are not in known, in l's order, at base, base + 1, ...
Renumber(l, known, base) ==
    LET fresh == DOMAIN l \ known
    IN  [e \in fresh |-> base + Cardinality({d \in fresh : l[d] < l[e]})]

\* INSERT OR IGNORE: a row whose key is already present stays as it is.
InsertOrIgnore(l, more) ==
    [e \in DOMAIN l \cup DOMAIN more |-> IF e \in DOMAIN l THEN l[e] ELSE more[e]]

\* l followed by the ids of more that l lacks, in their order.
AppendAll(l, more) ==
    InsertOrIgnore(l, Renumber(more, DOMAIN l, NextOrdinal(l)))

\* The rows WHERE ordinal < bound (the code's `ordinal <= watermark`, with
\* bound = watermark + 1, so that the empty log's watermark -1 is bound 0).
Below(l, bound) ==
    LET ids == {e \in DOMAIN l : l[e] < bound}
    IN  [e \in ids |-> l[e]]

\* array.filter((event) => ids.has(event.id))
Only(l, ids) == [e \in DOMAIN l \cap ids |-> l[e]]
=============================================================================
