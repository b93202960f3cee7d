--------------------------- MODULE StoreInvariant ---------------------------
(***************************************************************************)
(* The inductive invariant of HarnieStore.                                 *)
(***************************************************************************)
EXTENDS HarnieStore

\* A Work that does not exist has no rows in any table.
Unborn == \A w \in WorkIds \ works : /\ rows[w] = Empty
                                     /\ ckpts[w] = <<>>
                                     /\ origin[w] = None
                                     /\ claims[w] = NoClaims

\* A watermark is the ordinal of the last event it covers, so nothing that is
\* appended later, to the Work or to a fork of it, can fall below it.
MarksExact == \A w \in WorkIds : \A k \in DOMAIN ckpts[w] :
                Mark(w, k) = NextOrdinal(Below(rows[w], Mark(w, k)))

\* What a process knows at each of its steps.
CommandAt(step) ==
    CASE step = "idle" -> {None}
      [] step \in {"load", "events"} -> {"import", "fork", "handoff"}
      [] step \in {"claims", "pin", "shown"} -> {"handoff"}
      [] step \in {"select", "seed"} -> {"fork"}
      [] step \in {"begin", "commit"} -> {"import", "fork"}
      [] step \in {"ckptLoad", "ckptBegin", "ckptCommit"} -> {"checkpoint", "fork"}

Selected == {"seed", "begin", "commit"}

JobOK(p) ==
    LET j == job[p] IN
    /\ j.cmd \in CommandAt(pc[p])
    /\ pc[p] # "idle" =>
         /\ j.work \in WorkIds
         /\ j.named \in 0..Len(ckpts[j.work])
         /\ pc[p] \notin {"load", "ckptLoad"} /\ j.cmd # "import" => j.work \in works
    /\ j.cmd = "import" => j.session \in Sessions
    /\ j.cmd = "fork" =>
         /\ pc[p] \in {"begin", "commit"} => j.child \in ForkIds
         /\ pc[p] \notin {"load", "events"} => j.work \in works
         /\ pc[p] \in Selected => j.ckpt \in DOMAIN ckpts[j.work]
         /\ pc[p] \in Selected /\ j.named # 0 => j.ckpt = j.named
         /\ pc[p] \in {"ckptLoad", "ckptBegin", "ckptCommit"} => j.named = 0
    /\ pc[p] = "pin" => j.named # 0

\* No one else writes while a transaction is open.
PinnedOK(p) == pc[p] \in InTransaction => job[p].pinned = rows[job[p].work]

\* The rows a process has loaded are still there, at the same ordinals.
SeenOK(p) ==
    LET j == job[p] IN
    pc[p] # "idle" => \A e \in DOMAIN j.seen : /\ e \in DOMAIN rows[j.work]
                                                /\ rows[j.work][e] = j.seen[e]

\* All that a named checkpoint covers was loaded, since it was there before.
Loaded == {"claims", "pin", "shown", "select", "seed", "begin", "commit"}

NamedOK(p) ==
    LET j == job[p] IN
    pc[p] \in Loaded /\ j.named # 0 =>
      DOMAIN Below(rows[j.work], Mark(j.work, j.named)) \subseteq DOMAIN j.seen

\* A fork derives claims from events that it will copy, and from no others.
SeedOK(p) ==
    job[p].cmd = "fork" /\ pc[p] \in {"begin", "commit"} =>
      DOMAIN job[p].seen \subseteq DOMAIN Covered(p)

DbInv == /\ Unborn
         /\ MarksExact
         /\ OrdinalsUnique
         /\ CheckpointPinned
         /\ ForkPrefix

ProcInv == \A p \in Procs : JobOK(p) /\ PinnedOK(p)

ViewInv == /\ ClaimsGrounded
           /\ \A p \in Procs : SeenOK(p) /\ NamedOK(p) /\ SeedOK(p) /\ PinnedView(p)

Inv == TypeOK /\ DbInv /\ ProcInv /\ ViewInv
-----------------------------------------------------------------------------
(* The order of events: invariants of their own, inductive beside Inv.       *)

\* The ordinals of a Work have no gaps, so that the events a checkpoint counts are
\* the first ones of the log, and a fork's ordinals go on where its parent's ended.
NoGaps == \A w \in WorkIds : Dense(rows[w])

\* What an import has loaded are the first lines of every session, in their order.
SeenInOrder == \A p \in Procs : job[p].cmd = "import" => InOrder(job[p].seen)

OrderInv == NoGaps /\ SessionOrder /\ SeenInOrder
-----------------------------------------------------------------------------
(* Commands that run one at a time. *)

OneAtATime == \A p, q \in Procs : p = q

\* What a command has loaded is what the store still holds.
SeenCurrent(p) ==
    LET j == job[p] IN
    /\ pc[p] = "load" => j.seen = Empty
    /\ j.cmd = "import" /\ pc[p] \in {"begin", "commit"} => j.seen = rows[j.work]
    /\ j.cmd = "fork" /\ pc[p] \in {"select", "ckptLoad", "ckptBegin", "ckptCommit", "seed"}
         => j.seen = rows[j.work]
    /\ j.cmd = "fork" /\ pc[p] \in {"begin", "commit"} => j.seen = Covered(p)

AloneInv == ClaimsCurrent /\ \A p \in Procs : SeenCurrent(p)
=============================================================================
