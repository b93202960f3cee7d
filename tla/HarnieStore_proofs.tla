------------------------- MODULE HarnieStore_proofs -------------------------
(***************************************************************************)
(* Proofs that Inv is an invariant of HarnieStore, for any finite set of   *)
(* sessions and any sets of processes and fork ids, and what follows.      *)
(***************************************************************************)
EXTENDS StoreInvariant, ListingLemmas, SequenceTheorems
-----------------------------------------------------------------------------
(* Event ids and claims. *)

\* There are finitely many events, so the rows of a Work can be counted.
LEMMA EventsFinite == IsFiniteSet(EventIds)
<1>1. IsFiniteSet(Sessions) /\ MaxLines \in Nat
  BY StoreAssumption, ScriptAssumption
<1>2. IsFiniteSet(1..MaxLines)
  BY <1>1, FS_Interval
<1> QED
  BY <1>1, <1>2, FS_Product DEF EventIds

\* Claims derived from a listing are claims, and cite its events only.
LEMMA DeriveGrounded ==
    ASSUME NEW l, IsListing(l, EventIds)
    PROVE  /\ Derive(l) \in ClaimsType
           /\ Evidence(Derive(l)) \subseteq DOMAIN l
<1>1. DOMAIN l \subseteq EventIds
  BY DEF IsListing
<1>2. /\ Goal(l) \subseteq DOMAIN l
      /\ OfRole(l, "decision") \subseteq DOMAIN l
      /\ Findings(l) \subseteq DOMAIN l
      /\ NextSteps(l) \subseteq DOMAIN l
  BY DEF Goal, OfRole, Findings, NextSteps
<1>3. \A op \in Operations(l) : /\ op \in (DOMAIN l) \X SUBSET (DOMAIN l)
  BY DEF Operations, OfRole, ResultOf
<1>4. Derive(l) \in ClaimsType
  BY <1>1, <1>2, <1>3 DEF Derive, ClaimsType
<1>5. \A op \in Operations(l) : {op[1]} \cup op[2] \subseteq DOMAIN l
  BY <1>3
<1>6. Evidence(Derive(l)) = Goal(l) \cup OfRole(l, "decision") \cup Findings(l)
                              \cup NextSteps(l)
                              \cup UNION {{op[1]} \cup op[2] : op \in Operations(l)}
  BY DEF Evidence, Derive
<1> QED
  BY <1>2, <1>4, <1>5, <1>6

\* A Work without claims cites nothing.
LEMMA NoClaimsGrounded == NoClaims \in ClaimsType /\ Evidence(NoClaims) = {}
BY DEF NoClaims, ClaimsType, Evidence

\* A Work without rows is a listing, without gaps and without a prefix.
LEMMA EmptyListing ==
    ASSUME NEW S
    PROVE  /\ IsListing(Empty, S) /\ Distinct(Empty) /\ DOMAIN Empty = {}
           /\ NextOrdinal(Empty) = 0
           /\ \A b \in Nat : Below(Empty, b) = Empty
BY DEF Empty, IsListing, Distinct, NextOrdinal, Below

\* What a session file is read as is a list without repetition.
LEMMA ObservedListing ==
    ASSUME NEW s \in Sessions, NEW n \in 0..MaxLines
    PROVE  IsListing(Observed(s, n), EventIds) /\ Distinct(Observed(s, n))
<1>1. DOMAIN Observed(s, n) = {s} \X (1..n)
  BY DEF Observed
<1>2. \A e \in {s} \X (1..n) : Observed(s, n)[e] = e[2] - 1 /\ e[2] - 1 \in Nat
  BY DEF Observed
<1>3. {s} \X (1..n) \subseteq EventIds
  BY ScriptAssumption DEF EventIds
<1>4. IsListing(Observed(s, n), EventIds)
  BY <1>1, <1>2, <1>3 DEF IsListing, Observed
<1>5. Distinct(Observed(s, n))
  BY <1>1, <1>2 DEF Distinct
<1> QED
  BY <1>4, <1>5
-----------------------------------------------------------------------------
(* Frames: what a step of one process leaves alone. *)

\* Only process p moves.
Moves(p) == /\ pc' = [q \in Procs |-> pc'[q]]
            /\ job' = [q \in Procs |-> job'[q]]
            /\ \A q \in Procs \ {p} : pc'[q] = pc[q] /\ job'[q] = job[q]

\* A step that leaves the tables alone takes nothing back.
LEMMA GrowsReflexive == UNCHANGED db => Grows
BY DEF db, Grows, Mark

\* The invariants of the tables depend on nothing but the tables.
LEMMA DbUnchanged == DbTypeOK /\ DbInv /\ ClaimsGrounded /\ UNCHANGED db
                       => DbTypeOK' /\ DbInv' /\ ClaimsGrounded'
<1> SUFFICES ASSUME DbTypeOK, DbInv, ClaimsGrounded, UNCHANGED db
             PROVE  DbTypeOK' /\ DbInv' /\ ClaimsGrounded'
  OBVIOUS
<1>1. /\ works' = works /\ rows' = rows /\ execs' = execs /\ claims' = claims
      /\ ckpts' = ckpts /\ origin' = origin
  BY DEF db
<1>2. DbTypeOK'
  BY <1>1 DEF DbTypeOK
<1>3. Unborn' /\ MarksExact'
  BY <1>1 DEF DbInv, Unborn, MarksExact, Mark
<1>4. OrdinalsUnique' /\ CheckpointPinned' /\ ForkPrefix'
  BY <1>1 DEF DbInv, OrdinalsUnique, CheckpointPinned, ForkPrefix, Mark
<1>5. ClaimsGrounded'
  BY <1>1 DEF ClaimsGrounded, Mark
<1> QED
  BY <1>2, <1>3, <1>4, <1>5 DEF DbInv

\* A process that does not move keeps its invariants while the store grows.
LEMMA OtherKeeps ==
    ASSUME Inv, DbTypeOK', NEW p \in Procs, Moves(p), Grows, rows' = rows \/ writer = p,
           NEW q \in Procs, q # p
    PROVE  /\ JobOK(q)' /\ PinnedOK(q)'
           /\ SeenOK(q)' /\ NamedOK(q)' /\ SeedOK(q)' /\ PinnedView(q)'
<1>1. pc'[q] = pc[q] /\ job'[q] = job[q]
  BY DEF Moves
<1>2. /\ JobOK(q) /\ PinnedOK(q) /\ SeenOK(q) /\ NamedOK(q) /\ SeedOK(q) /\ PinnedView(q)
  BY DEF Inv, ProcInv, ViewInv
<1> DEFINE w == job[q].work
           j == job[q]
<1>3. ASSUME pc[q] # "idle"
      PROVE  /\ w \in WorkIds
             /\ j.named \in 0..Len(ckpts[w])
             /\ Len(ckpts[w]) \in Nat /\ Len(ckpts'[w]) \in Nat
             /\ Len(ckpts[w]) <= Len(ckpts'[w])
             /\ DOMAIN ckpts[w] = 1..Len(ckpts[w])
             /\ \A k \in 1..Len(ckpts[w]) :
                  /\ k \in DOMAIN ckpts[w] /\ k \in DOMAIN ckpts'[w]
                  /\ ckpts'[w][k].mark = Mark(w, k)
                  /\ Below(rows'[w], Mark(w, k)) = Below(rows[w], Mark(w, k))
             /\ \A e \in DOMAIN rows[w] : e \in DOMAIN rows'[w] /\ rows'[w][e] = rows[w][e]
  <2>1. w \in WorkIds /\ j.named \in 0..Len(ckpts[w])
    BY <1>2, <1>3 DEF JobOK
  <2>2. ckpts[w] \in Seq(Checkpoint) /\ ckpts'[w] \in Seq(Checkpoint)
    BY <2>1 DEF Inv, TypeOK, DbTypeOK
  <2>3. /\ Len(ckpts[w]) \in Nat /\ DOMAIN ckpts[w] = 1..Len(ckpts[w])
        /\ Len(ckpts'[w]) \in Nat /\ DOMAIN ckpts'[w] = 1..Len(ckpts'[w])
    BY <2>2, LenProperties
  <2>4. Len(ckpts[w]) <= Len(ckpts'[w])
    BY <2>1 DEF Grows
  <2>5. \A k \in DOMAIN ckpts[w] :
          /\ ckpts'[w][k].mark = Mark(w, k)
          /\ Below(rows'[w], Mark(w, k)) = Below(rows[w], Mark(w, k))
    <3> TAKE k \in DOMAIN ckpts[w]
    <3>1. ckpts'[w][k] = ckpts[w][k]
      BY <2>1 DEF Grows
    <3>2. ckpts'[w][k].mark = Mark(w, k)
      BY <3>1 DEF Mark
    <3>3. Below(rows'[w], Mark(w, k)) = Below(rows[w], Mark(w, k))
      BY <2>1 DEF Grows
    <3> QED
      BY <3>2, <3>3
  <2>6. \A e \in DOMAIN rows[w] : e \in DOMAIN rows'[w] /\ rows'[w][e] = rows[w][e]
    BY <2>1 DEF Grows
  <2> QED
    BY <2>1, <2>3, <2>4, <2>5, <2>6
<1>4. JobOK(q)'
  <2>1. works \subseteq works'
    BY DEF Grows
  <2>2. /\ j.cmd \in CommandAt(pc[q])
        /\ j.cmd = "import" => j.session \in Sessions
        /\ pc[q] = "pin" => j.named # 0
    BY <1>2 DEF JobOK
  <2>3. pc[q] # "idle" =>
          /\ w \in WorkIds
          /\ j.named \in 0..Len(ckpts'[w])
          /\ pc[q] \notin {"load", "ckptLoad"} /\ j.cmd # "import" => w \in works'
    BY <1>2, <1>3, <2>1 DEF JobOK
  <2>4. j.cmd = "fork" =>
          /\ pc[q] \in {"begin", "commit"} => j.child \in ForkIds
          /\ pc[q] \notin {"load", "events"} => w \in works'
          /\ pc[q] \in Selected => j.ckpt \in DOMAIN ckpts'[w]
          /\ pc[q] \in Selected /\ j.named # 0 => j.ckpt = j.named
          /\ pc[q] \in {"ckptLoad", "ckptBegin", "ckptCommit"} => j.named = 0
    <3>1. pc[q] \in Selected => pc[q] # "idle"
      BY DEF Selected
    <3> QED
      BY <1>2, <1>3, <2>1, <3>1 DEF JobOK
  <2> QED
    BY <1>1, <2>2, <2>3, <2>4 DEF JobOK
<1>5. PinnedOK(q)'
  <2>1. pc[q] \in InTransaction => writer = q
    BY DEF Inv, TypeOK, LockOK
  <2> QED
    BY <1>1, <1>2, <2>1 DEF PinnedOK
<1>6. SeenOK(q)'
  BY <1>1, <1>2, <1>3 DEF SeenOK
<1>7. NamedOK(q)'
  <2> SUFFICES ASSUME pc[q] \in Loaded, j.named # 0
               PROVE  DOMAIN Below(rows'[w], ckpts'[w][j.named].mark) \subseteq DOMAIN j.seen
    BY <1>1 DEF NamedOK, Mark
  <2>1. pc[q] # "idle"
    BY DEF Loaded
  <2>2. j.named \in 1..Len(ckpts[w])
    BY <1>3, <2>1
  <2> QED
    BY <1>2, <1>3, <2>1, <2>2 DEF NamedOK
<1>8. SeedOK(q)'
  <2> SUFFICES ASSUME j.cmd = "fork", pc[q] \in {"begin", "commit"}
               PROVE  DOMAIN j.seen \subseteq DOMAIN Below(rows'[w], ckpts'[w][j.ckpt].mark)
    BY <1>1 DEF SeedOK, Covered, Mark
  <2>1. j.ckpt \in 1..Len(ckpts[w])
    <3>1. j.ckpt \in DOMAIN ckpts[w] /\ ckpts[w] \in Seq(Checkpoint)
      BY <1>2, <1>3 DEF JobOK, Selected, Inv, TypeOK, DbTypeOK
    <3> QED
      BY <3>1, LenProperties
  <2> QED
    BY <1>2, <1>3, <2>1 DEF SeedOK, Covered
<1>9. PinnedView(q)'
  <2> SUFFICES ASSUME pc[q] = "shown", j.named # 0
               PROVE  /\ j.seen = Below(rows'[w], ckpts'[w][j.named].mark)
                      /\ j.claims = Derive(j.seen)
    BY <1>1 DEF PinnedView, Mark
  <2>1. j.named \in 1..Len(ckpts[w])
    BY <1>3
  <2> QED
    BY <1>2, <1>3, <2>1 DEF PinnedView
<1> QED
  BY <1>4, <1>5, <1>6, <1>7, <1>8, <1>9
-----------------------------------------------------------------------------
(* Watermarks lie within their Work, and within every fork made at them. *)

\* A watermark of a checkpoint is at most the first free ordinal of its Work.
LEMMA MarkInWork ==
    ASSUME DbTypeOK, MarksExact, NEW w \in WorkIds, NEW k \in DOMAIN ckpts[w]
    PROVE  /\ ckpts[w][k] \in Checkpoint
           /\ Mark(w, k) \in 0..NextOrdinal(rows[w])
           /\ NextOrdinal(rows[w]) \in Nat
<1>1. ckpts[w] \in Seq(Checkpoint) /\ IsListing(rows[w], EventIds)
  BY DEF DbTypeOK
<1>2. ckpts[w][k] \in Checkpoint
  <2>1. ckpts[w] \in [1..Len(ckpts[w]) -> Checkpoint] /\ DOMAIN ckpts[w] = 1..Len(ckpts[w])
    BY <1>1, LenProperties
  <2> QED
    BY <2>1
<1>3. Mark(w, k) \in Nat
  BY <1>2 DEF Mark, Checkpoint
<1>4. NextOrdinal(rows[w]) \in Nat
  BY <1>1, EventsFinite, NextOrdinalAbove
<1>5. NextOrdinal(Below(rows[w], Mark(w, k))) <= NextOrdinal(rows[w])
  BY <1>1, <1>3, EventsFinite, BelowNextOrdinal
<1>6. Mark(w, k) = NextOrdinal(Below(rows[w], Mark(w, k)))
  BY DEF MarksExact
<1> QED
  BY <1>2, <1>3, <1>4, <1>5, <1>6

\* The watermark a fork was made at is at most the first free ordinal of the fork.
LEMMA MarkInFork ==
    ASSUME DbTypeOK, MarksExact, ForkPrefix, NEW c \in WorkIds, origin[c] # None
    PROVE  /\ origin[c].work \in WorkIds
           /\ origin[c].ckpt \in DOMAIN ckpts[origin[c].work]
           /\ Mark(origin[c].work, origin[c].ckpt) \in 0..NextOrdinal(rows[c])
           /\ NextOrdinal(rows[c]) \in Nat
<1> DEFINE w == origin[c].work
           k == origin[c].ckpt
           bound == Mark(w, k)
<1>1. w \in works /\ k \in DOMAIN ckpts[w] /\ Below(rows[c], bound) = Below(rows[w], bound)
  BY DEF ForkPrefix
<1>2. w \in WorkIds /\ IsListing(rows[c], EventIds)
  BY <1>1 DEF DbTypeOK
<1>3. bound \in Nat
  BY <1>1, <1>2, MarkInWork
<1>4. bound = NextOrdinal(Below(rows[w], bound))
  BY <1>1, <1>2 DEF MarksExact
<1>5. NextOrdinal(Below(rows[c], bound)) <= NextOrdinal(rows[c])
  BY <1>2, <1>3, EventsFinite, BelowNextOrdinal
<1>6. NextOrdinal(rows[c]) \in Nat
  BY <1>2, EventsFinite, NextOrdinalAbove
<1> QED
  BY <1>1, <1>2, <1>3, <1>4, <1>5, <1>6
-----------------------------------------------------------------------------
(* An import. *)

\* What a process has loaded is a list of rows that the Work still has.
LEMMA SeenListing ==
    ASSUME Inv, NEW p \in Procs, pc[p] # "idle"
    PROVE  /\ job[p].work \in WorkIds
           /\ IsListing(job[p].seen, EventIds)
           /\ Distinct(job[p].seen)
           /\ DOMAIN job[p].seen \subseteq DOMAIN rows[job[p].work]
<1>1. JobOK(p) /\ SeenOK(p) /\ IsJob(job[p]) /\ OrdinalsUnique
  BY DEF Inv, ProcInv, ViewInv, TypeOK, ProcTypeOK, DbInv
<1>2. job[p].work \in WorkIds
  BY <1>1 DEF JobOK
<1>3. IsListing(job[p].seen, EventIds)
  BY <1>1 DEF IsJob
<1>4. \A e \in DOMAIN job[p].seen : /\ e \in DOMAIN rows[job[p].work]
                                    /\ rows[job[p].work][e] = job[p].seen[e]
  BY <1>1 DEF SeenOK
<1>5. Distinct(rows[job[p].work])
  BY <1>1, <1>2 DEF OrdinalsUnique
<1>6. Distinct(job[p].seen)
  BY <1>4, <1>5 DEF Distinct
<1> QED
  BY <1>2, <1>3, <1>4, <1>6

\* What an import writes: the rows that it finds, and after them what it merged.
LEMMA ImportedIsAppended ==
    ASSUME Inv, NEW p \in Procs, pc[p] = "commit", job[p].cmd = "import"
    PROVE  /\ ImportedRows(p) = AppendAll(rows[job[p].work], Merged(p))
           /\ job[p].work \in WorkIds /\ job[p].session \in Sessions
           /\ job[p].input \in 0..MaxLines
           /\ IsListing(rows[job[p].work], EventIds) /\ Distinct(rows[job[p].work])
           /\ IsListing(job[p].seen, EventIds)
           /\ IsListing(Merged(p), EventIds) /\ Distinct(Merged(p))
<1> DEFINE w == job[p].work
<1>1. JobOK(p) /\ PinnedOK(p) /\ IsJob(job[p])
  BY DEF Inv, ProcInv, TypeOK, ProcTypeOK
<1>2. w \in WorkIds /\ job[p].session \in Sessions /\ job[p].input \in 0..MaxLines
  BY <1>1 DEF JobOK, IsJob
<1>3. job[p].pinned = rows[w]
  BY <1>1 DEF PinnedOK, InTransaction
<1>4. IsListing(rows[w], EventIds) /\ Distinct(rows[w])
  BY <1>2 DEF Inv, TypeOK, DbTypeOK, DbInv, OrdinalsUnique
<1>5. IsListing(job[p].seen, EventIds) /\ Distinct(job[p].seen)
  BY SeenListing
<1>6. /\ IsListing(Observed(job[p].session, job[p].input), EventIds)
      /\ Distinct(Observed(job[p].session, job[p].input))
  BY <1>2, ObservedListing
<1>7. IsListing(Merged(p), EventIds) /\ Distinct(Merged(p))
  BY <1>5, <1>6, EventsFinite, AppendAllProps DEF Merged
<1>8. ImportedRows(p) = AppendAll(rows[w], Merged(p))
  BY <1>3 DEF ImportedRows, NewRows, AppendAll
<1> QED
  BY <1>2, <1>4, <1>5, <1>7, <1>8

\* The rows an import leaves: all the old ones, and new ones at the end.
LEMMA ImportedRowsProps ==
    ASSUME Inv, NEW p \in Procs, pc[p] = "commit", job[p].cmd = "import",
           NEW w, w = job[p].work, NEW r, r = ImportedRows(p)
    PROVE  /\ w \in WorkIds /\ job[p].session \in Sessions
           /\ IsListing(Merged(p), EventIds)
           /\ DOMAIN Merged(p) \subseteq DOMAIN r
           /\ IsListing(r, EventIds) /\ Distinct(r)
           /\ \A e \in DOMAIN rows[w] : e \in DOMAIN r /\ r[e] = rows[w][e]
           /\ \A bound \in 0..NextOrdinal(rows[w]) : Below(r, bound) = Below(rows[w], bound)
<1>1. PICK l, m : l = rows[w] /\ m = Merged(p)
  OBVIOUS
<1>2. /\ r = AppendAll(l, m)
      /\ w \in WorkIds /\ job[p].session \in Sessions
      /\ IsListing(l, EventIds) /\ Distinct(l)
      /\ IsListing(m, EventIds) /\ Distinct(m)
  BY <1>1, ImportedIsAppended
<1>3. DOMAIN AppendAll(l, m) = DOMAIN l \cup DOMAIN m
  BY AppendAllDomain
<1>4. /\ IsListing(AppendAll(l, m), EventIds)
      /\ \A e \in DOMAIN l : AppendAll(l, m)[e] = l[e]
      /\ Distinct(l) /\ Distinct(m) => Distinct(AppendAll(l, m))
      /\ \A bound \in 0..NextOrdinal(l) : Below(AppendAll(l, m), bound) = Below(l, bound)
  BY <1>2, EventsFinite, AppendAllProps
<1> QED
  BY <1>1, <1>2, <1>3, <1>4

\* The commit of persistObservedWork keeps the invariants of the tables.
LEMMA ImportStep ==
    ASSUME Inv, NEW p \in Procs, CommitImport(p)
    PROVE  DbTypeOK' /\ DbInv' /\ ClaimsGrounded' /\ Grows
<1> DEFINE w == job[p].work
<1>1. pc[p] = "commit" /\ job[p].cmd = "import"
  BY DEF CommitImport
<1>2. PICK r : r = ImportedRows(p)
  OBVIOUS
<1>3. PICK m : m = Merged(p)
  OBVIOUS
<1>4. /\ w \in WorkIds /\ job[p].session \in Sessions
      /\ IsListing(m, EventIds) /\ DOMAIN m \subseteq DOMAIN r
      /\ IsListing(r, EventIds) /\ Distinct(r)
      /\ \A e \in DOMAIN rows[w] : e \in DOMAIN r /\ r[e] = rows[w][e]
      /\ \A bound \in 0..NextOrdinal(rows[w]) : Below(r, bound) = Below(rows[w], bound)
  BY <1>1, <1>2, <1>3, ImportedRowsProps
<1>5. PICK x : x = AppendAll(execs[w], [s \in {job[p].session} |-> 0])
  OBVIOUS
<1>6. /\ works' = works \cup {w}
      /\ rows' = [rows EXCEPT ![w] = r]
      /\ execs' = [execs EXCEPT ![w] = x]
      /\ claims' = [claims EXCEPT ![w] = Derive(m)]
      /\ ckpts' = ckpts /\ origin' = origin
  BY <1>2, <1>3, <1>5 DEF CommitImport, ImportClaims
<1>7. DbTypeOK /\ DbInv /\ ClaimsGrounded
  BY DEF Inv, TypeOK, ViewInv
<1>8. IsListing(x, Sessions) /\ Distinct(x)
  <2> DEFINE one == [s \in {job[p].session} |-> 0]
  <2>1. IsListing(one, Sessions) /\ Distinct(one)
    BY <1>4 DEF IsListing, Distinct
  <2>2. IsListing(execs[w], Sessions) /\ Distinct(execs[w])
    BY <1>4, <1>7 DEF DbTypeOK, DbInv, OrdinalsUnique
  <2> HIDE DEF one
  <2>3. IsListing(AppendAll(execs[w], one), Sessions)
    BY <2>1, <2>2, StoreAssumption, AppendAllProps
  <2>4. Distinct(AppendAll(execs[w], one))
    BY <2>1, <2>2, StoreAssumption, AppendAllProps
  <2> QED
    BY <1>5, <2>3, <2>4 DEF one
<1>9. Derive(m) \in ClaimsType /\ Evidence(Derive(m)) \subseteq DOMAIN r
  BY <1>4, DeriveGrounded
<1> HIDE DEF w
<1>10. \A v \in WorkIds : /\ rows'[v] = IF v = w THEN r ELSE rows[v]
                          /\ execs'[v] = IF v = w THEN x ELSE execs[v]
                          /\ claims'[v] = IF v = w THEN Derive(m) ELSE claims[v]
  BY <1>4, <1>6, <1>7 DEF DbTypeOK
<1>11. DbTypeOK'
  <2>1. works' \subseteq WorkIds
    BY <1>4, <1>6, <1>7 DEF DbTypeOK
  <2>2. rows' = [v \in WorkIds |-> rows'[v]] /\ execs' = [v \in WorkIds |-> execs'[v]]
    BY <1>6, <1>7 DEF DbTypeOK
  <2>3. \A v \in WorkIds : IsListing(rows'[v], EventIds) /\ IsListing(execs'[v], Sessions)
    BY <1>4, <1>7, <1>8, <1>10 DEF DbTypeOK
  <2>4. claims' \in [WorkIds -> ClaimsType]
    BY <1>6, <1>7, <1>9 DEF DbTypeOK
  <2> QED
    BY <2>1, <2>2, <2>3, <2>4, <1>6, <1>7 DEF DbTypeOK
\* What checkpoints and forks cover is as it was.
<1>12. \A v \in WorkIds : \A b \in 0..NextOrdinal(rows[v]) :
         Below(rows'[v], b) = Below(rows[v], b)
  BY <1>4, <1>10
<1>13. \A v \in WorkIds : \A k \in DOMAIN ckpts[v] :
         Below(rows'[v], Mark(v, k)) = Below(rows[v], Mark(v, k))
  BY <1>7, <1>12, MarkInWork DEF DbInv
<1>14. Grows
  BY <1>4, <1>6, <1>10, <1>13, <1>7 DEF Grows
<1>15. Unborn'
  BY <1>6, <1>7, <1>10 DEF DbInv, Unborn
<1>16. MarksExact' /\ CheckpointPinned'
  <2> SUFFICES ASSUME NEW v \in WorkIds, NEW k \in DOMAIN ckpts[v]
               PROVE  /\ ckpts[v][k].mark = NextOrdinal(Below(rows'[v], ckpts[v][k].mark))
                      /\ ckpts[v][k].count = Cardinality(DOMAIN Below(rows'[v], ckpts[v][k].mark))
                      /\ ckpts[v][k].claims = Derive(Below(rows'[v], ckpts[v][k].mark))
    BY <1>6 DEF MarksExact, CheckpointPinned, Mark
  <2>1. Below(rows'[v], ckpts[v][k].mark) = Below(rows[v], ckpts[v][k].mark)
    BY <1>13 DEF Mark
  <2> QED
    BY <2>1, <1>7 DEF DbInv, MarksExact, CheckpointPinned, Mark
<1>17. OrdinalsUnique'
  BY <1>4, <1>7, <1>8, <1>10 DEF DbInv, OrdinalsUnique
<1>18. ForkPrefix'
  <2> SUFFICES ASSUME NEW c \in WorkIds, origin[c] # None
               PROVE  /\ c \in works' /\ origin[c].work \in works'
                      /\ origin[c].ckpt \in DOMAIN ckpts[origin[c].work]
                      /\ Below(rows'[c], ckpts[origin[c].work][origin[c].ckpt].mark)
                           = Below(rows'[origin[c].work],
                                   ckpts[origin[c].work][origin[c].ckpt].mark)
    BY <1>6 DEF ForkPrefix, Mark
  <2>1. PICK v, k, b : v = origin[c].work /\ k = origin[c].ckpt /\ b = Mark(v, k)
    OBVIOUS
  <2>2. /\ c \in works /\ v \in works /\ k \in DOMAIN ckpts[v]
        /\ Below(rows[c], b) = Below(rows[v], b)
    BY <1>7, <2>1 DEF DbInv, ForkPrefix
  <2>3. v \in WorkIds /\ b \in 0..NextOrdinal(rows[c])
    BY <1>7, <2>1, MarkInFork DEF DbInv
  <2>4. Below(rows'[c], b) = Below(rows[c], b) /\ Below(rows'[v], b) = Below(rows[v], b)
    BY <1>12, <1>13, <2>1, <2>2, <2>3
  <2> QED
    BY <1>6, <2>1, <2>2, <2>4 DEF Mark
<1>19. ClaimsGrounded'
  <2>1. \A v \in WorkIds : Evidence(claims'[v]) \subseteq DOMAIN rows'[v]
    BY <1>7, <1>9, <1>10 DEF ClaimsGrounded
  <2>2. \A v \in WorkIds : \A k \in DOMAIN ckpts[v] :
          Evidence(ckpts[v][k].claims) \subseteq DOMAIN Below(rows'[v], ckpts[v][k].mark)
    BY <1>7, <1>13 DEF ClaimsGrounded, Mark
  <2> QED
    BY <2>1, <2>2, <1>6 DEF ClaimsGrounded, Mark
<1> QED
  BY <1>11, <1>14, <1>15, <1>16, <1>17, <1>18, <1>19 DEF DbInv
-----------------------------------------------------------------------------
(* A checkpoint. *)

\* The commit of createCheckpoint keeps the invariants of the tables.
LEMMA CheckpointStep ==
    ASSUME Inv, NEW p \in Procs, CommitCheckpoint(p)
    PROVE  /\ DbTypeOK' /\ DbInv' /\ ClaimsGrounded' /\ Grows
           /\ Len(ckpts'[job[p].work]) = Len(ckpts[job[p].work]) + 1
<1> DEFINE w == job[p].work
<1>1. PICK row : row = CheckpointRow(p)
  OBVIOUS
<1>2. /\ works' = works /\ rows' = rows /\ execs' = execs /\ claims' = claims
      /\ origin' = origin /\ ckpts' = [ckpts EXCEPT ![w] = Append(@, row)]
  BY <1>1 DEF CommitCheckpoint
<1>3. DbTypeOK /\ DbInv /\ ClaimsGrounded
  BY DEF Inv, TypeOK, ViewInv
<1>4. w \in WorkIds /\ job[p].pinned = rows[w] /\ w \in works
  <2>1. pc[p] = "ckptCommit" /\ JobOK(p) /\ PinnedOK(p)
    BY DEF CommitCheckpoint, Inv, ProcInv
  <2>2. job[p].cmd \in {"checkpoint", "fork"}
    BY <2>1 DEF JobOK, CommandAt
  <2> QED
    BY <2>1, <2>2 DEF JobOK, PinnedOK, InTransaction
<1>5. PICK bound : bound = NextOrdinal(rows[w])
  OBVIOUS
<1>6. IsListing(rows[w], EventIds) /\ IsListing(execs[w], Sessions)
  BY <1>3, <1>4 DEF DbTypeOK
<1>7. bound \in Nat /\ Below(rows[w], bound) = rows[w]
  <2>1. bound \in Nat /\ \A e \in DOMAIN rows[w] : rows[w][e] < bound
    BY <1>5, <1>6, EventsFinite, NextOrdinalAbove
  <2> QED
    BY <1>6, <2>1, BelowAll
<1>8. /\ row.mark = bound
      /\ row.count = Cardinality(DOMAIN rows[w])
      /\ row.claims = Derive(rows[w])
      /\ row = [mark |-> row.mark, count |-> row.count, exec |-> LatestExec(w),
                claims |-> row.claims]
  BY <1>1, <1>4, <1>5, <1>7 DEF CheckpointRow
<1>9. row \in Checkpoint
  <2>1. Cardinality(DOMAIN rows[w]) \in Nat
    BY <1>6, EventsFinite, FS_Subset, FS_CardinalityType DEF IsListing
  <2>2. LatestExec(w) \subseteq Sessions
    BY <1>6 DEF LatestExec, IsListing
  <2>3. Derive(rows[w]) \in ClaimsType
    BY <1>6, DeriveGrounded
  <2> QED
    BY <1>7, <1>8, <2>1, <2>2, <2>3 DEF Checkpoint
<1> HIDE DEF w
<1>10. \A v \in WorkIds : ckpts[v] \in Seq(Checkpoint)
  BY <1>3 DEF DbTypeOK
<1>11. PICK n \in Nat : n = Len(ckpts[w]) /\ DOMAIN ckpts[w] = 1..n
  BY <1>4, <1>10, LenProperties
<1>12. /\ ckpts'[w] = Append(ckpts[w], row)
       /\ \A v \in WorkIds \ {w} : ckpts'[v] = ckpts[v]
  BY <1>2, <1>3, <1>4 DEF DbTypeOK
<1>13. /\ Append(ckpts[w], row) \in Seq(Checkpoint)
       /\ Len(Append(ckpts[w], row)) = n + 1
       /\ \A k \in 1..n : Append(ckpts[w], row)[k] = ckpts[w][k]
       /\ Append(ckpts[w], row)[n + 1] = row
  BY <1>4, <1>9, <1>10, <1>11, AppendProperties
<1>14. DOMAIN ckpts'[w] = 1..(n + 1)
  BY <1>12, <1>13, LenProperties
<1>15. \A v \in WorkIds : \A k \in DOMAIN ckpts[v] :
         k \in DOMAIN ckpts'[v] /\ ckpts'[v][k] = ckpts[v][k]
  BY <1>11, <1>12, <1>13, <1>14
<1>16. \A v \in WorkIds : \A k \in DOMAIN ckpts'[v] :
         \/ k \in DOMAIN ckpts[v] /\ ckpts'[v][k] = ckpts[v][k]
         \/ v = w /\ ckpts'[v][k] = row
  BY <1>11, <1>12, <1>13, <1>14
<1>17. DbTypeOK'
  <2>1. ckpts' \in [WorkIds -> Seq(Checkpoint)]
    BY <1>2, <1>3, <1>13 DEF DbTypeOK
  <2> QED
    BY <2>1, <1>2, <1>3 DEF DbTypeOK
<1>18. Grows
  <2>1. \A v \in WorkIds : Len(ckpts[v]) <= Len(ckpts'[v])
    <3> TAKE v \in WorkIds
    <3>1. CASE v = w
      BY <3>1, <1>11, <1>12, <1>13
    <3>2. CASE v # w
      <4>1. ckpts'[v] = ckpts[v] /\ Len(ckpts[v]) \in Nat
        BY <3>2, <1>10, <1>12, LenProperties
      <4> QED
        BY <4>1
    <3> QED
      BY <3>1, <3>2
  <2> QED
    BY <2>1, <1>2, <1>15 DEF Grows
<1>19. Unborn'
  BY <1>2, <1>3, <1>4, <1>12 DEF DbInv, Unborn
<1>20. MarksExact' /\ CheckpointPinned'
  <2> SUFFICES ASSUME NEW v \in WorkIds, NEW k \in DOMAIN ckpts'[v], NEW c, c = ckpts'[v][k]
               PROVE  /\ c.mark = NextOrdinal(Below(rows[v], c.mark))
                      /\ c.count = Cardinality(DOMAIN Below(rows[v], c.mark))
                      /\ c.claims = Derive(Below(rows[v], c.mark))
    BY <1>2 DEF MarksExact, CheckpointPinned, Mark
  <2>1. CASE k \in DOMAIN ckpts[v] /\ c = ckpts[v][k]
    BY <2>1, <1>3 DEF DbInv, MarksExact, CheckpointPinned, Mark
  <2>2. CASE v = w /\ c = row
    BY <2>2, <1>5, <1>7, <1>8
  <2> QED
    BY <2>1, <2>2, <1>16
<1>21. OrdinalsUnique'
  BY <1>2, <1>3 DEF DbInv, OrdinalsUnique
<1>22. ForkPrefix'
  <2> SUFFICES ASSUME NEW c \in WorkIds, origin[c] # None, NEW v, v = origin[c].work,
                      NEW k, k = origin[c].ckpt
               PROVE  /\ c \in works /\ v \in works /\ k \in DOMAIN ckpts'[v]
                      /\ Below(rows[c], ckpts'[v][k].mark) = Below(rows[v], ckpts'[v][k].mark)
    BY <1>2 DEF ForkPrefix, Mark
  <2>1. /\ c \in works /\ v \in works /\ k \in DOMAIN ckpts[v]
        /\ Below(rows[c], ckpts[v][k].mark) = Below(rows[v], ckpts[v][k].mark)
    BY <1>3 DEF DbInv, ForkPrefix, Mark
  <2>2. v \in WorkIds
    BY <2>1, <1>3 DEF DbTypeOK
  <2>3. k \in DOMAIN ckpts'[v] /\ ckpts'[v][k] = ckpts[v][k]
    BY <2>1, <2>2, <1>15
  <2> QED
    BY <2>1, <2>3
<1>23. ClaimsGrounded'
  <2> SUFFICES ASSUME NEW v \in WorkIds, NEW k \in DOMAIN ckpts'[v], NEW c, c = ckpts'[v][k]
               PROVE  Evidence(c.claims) \subseteq DOMAIN Below(rows[v], c.mark)
    BY <1>2, <1>3 DEF ClaimsGrounded, Mark
  <2>1. CASE k \in DOMAIN ckpts[v] /\ c = ckpts[v][k]
    BY <2>1, <1>3 DEF ClaimsGrounded, Mark
  <2>2. CASE v = w /\ c = row
    <3>1. Evidence(Derive(rows[w])) \subseteq DOMAIN rows[w]
      BY <1>6, DeriveGrounded
    <3> QED
      BY <2>2, <3>1, <1>7, <1>8
  <2> QED
    BY <2>1, <2>2, <1>16
<1> QED
  BY <1>11, <1>12, <1>13, <1>17, <1>18, <1>19, <1>20, <1>21, <1>22, <1>23 DEF DbInv, w
-----------------------------------------------------------------------------
(* A fork. *)

\* The commit of createFork keeps the invariants of the tables.
LEMMA ForkStep ==
    ASSUME Inv, NEW p \in Procs, CommitFork(p)
    PROVE  DbTypeOK' /\ DbInv' /\ ClaimsGrounded' /\ Grows
<1> DEFINE w == job[p].work
           c == job[p].child
           k == job[p].ckpt
<1>1. DbTypeOK /\ DbInv /\ ClaimsGrounded /\ JobOK(p) /\ SeedOK(p) /\ IsJob(job[p])
  BY DEF Inv, TypeOK, ProcTypeOK, ProcInv, ViewInv
<1>2. pc[p] = "commit" /\ job[p].cmd = "fork" /\ c \notin works
  BY DEF CommitFork
<1>3. /\ w \in WorkIds /\ w \in works /\ c \in ForkIds /\ c \in WorkIds /\ c # w
      /\ k \in DOMAIN ckpts[w]
  BY <1>1, <1>2 DEF JobOK, Selected, WorkIds
<1>4. PICK b : b = Mark(w, k)
  OBVIOUS
<1>5. PICK r : r = Below(rows[w], b)
  OBVIOUS
<1>6. PICK m : m = job[p].seen
  OBVIOUS
<1>7. PICK sessions : sessions = CopiedSessions(p)
  OBVIOUS
<1>8. PICK order \in [sessions -> 0..(Cardinality(sessions) - 1)] :
        Distinct(order) /\ execs' = [execs EXCEPT ![c] = order]
  BY <1>7 DEF CommitFork
<1>9. /\ works' = works \cup {c}
      /\ rows' = [rows EXCEPT ![c] = r]
      /\ claims' = [claims EXCEPT ![c] = Derive(m)]
      /\ origin' = [origin EXCEPT ![c] = [work |-> w, ckpt |-> k]]
      /\ ckpts' = ckpts
  BY <1>4, <1>5, <1>6 DEF CommitFork, CopiedRows, Covered, ForkClaims
<1>10. IsListing(rows[w], EventIds) /\ IsListing(execs[w], Sessions) /\ Distinct(rows[w])
  BY <1>1, <1>3 DEF DbTypeOK, DbInv, OrdinalsUnique
<1>11. b \in Nat /\ k \in Nat
  <2>1. ckpts[w] \in Seq(Checkpoint)
    BY <1>1, <1>3 DEF DbTypeOK
  <2>2. DOMAIN ckpts[w] = 1..Len(ckpts[w])
    BY <2>1, LenProperties
  <2> QED
    BY <1>1, <1>3, <1>4, <2>2, MarkInWork DEF DbInv
<1>12. IsListing(r, EventIds) /\ Distinct(r)
  BY <1>5, <1>10, <1>11, BelowProps
<1>13. Below(r, b) = Below(rows[w], b)
  <2>1. \A d \in 0..b : Below(Below(rows[w], b), d) = Below(rows[w], d)
    BY <1>10, <1>11, BelowProps
  <2> QED
    BY <1>5, <1>11, <2>1
<1>14. IsListing(order, Sessions)
  <2>1. sessions \subseteq Sessions
    BY <1>7, <1>10 DEF CopiedSessions, IsListing
  <2>2. Cardinality(sessions) \in Nat
    BY <2>1, StoreAssumption, FS_Subset, FS_CardinalityType
  <2> QED
    BY <1>8, <2>1, <2>2 DEF IsListing
<1>15. Derive(m) \in ClaimsType /\ Evidence(Derive(m)) \subseteq DOMAIN r
  <2>1. IsListing(m, EventIds)
    BY <1>1, <1>6 DEF IsJob
  <2>2. DOMAIN m \subseteq DOMAIN r
    BY <1>1, <1>2, <1>4, <1>5, <1>6 DEF SeedOK, Covered
  <2> QED
    BY <2>1, <2>2, DeriveGrounded
<1>16. rows[c] = Empty /\ ckpts[c] = <<>> /\ origin[c] = None
  BY <1>1, <1>2, <1>3 DEF DbInv, Unborn
<1> HIDE DEF w, c, k
<1>17. \A v \in WorkIds : /\ rows'[v] = IF v = c THEN r ELSE rows[v]
                          /\ execs'[v] = IF v = c THEN order ELSE execs[v]
                          /\ claims'[v] = IF v = c THEN Derive(m) ELSE claims[v]
  BY <1>1, <1>3, <1>8, <1>9 DEF DbTypeOK
<1>18. /\ origin'[c] = [work |-> w, ckpt |-> k]
       /\ \A v \in WorkIds \ {c} : origin'[v] = origin[v]
  BY <1>1, <1>3, <1>9 DEF DbTypeOK
<1>19. DbTypeOK'
  <2>1. works' \subseteq WorkIds
    BY <1>1, <1>3, <1>9 DEF DbTypeOK
  <2>2. rows' = [v \in WorkIds |-> rows'[v]] /\ execs' = [v \in WorkIds |-> execs'[v]]
    BY <1>1, <1>8, <1>9 DEF DbTypeOK
  <2>3. \A v \in WorkIds : IsListing(rows'[v], EventIds) /\ IsListing(execs'[v], Sessions)
    BY <1>1, <1>12, <1>14, <1>17 DEF DbTypeOK
  <2>4. claims' \in [WorkIds -> ClaimsType]
    BY <1>1, <1>9, <1>15 DEF DbTypeOK
  <2>5. origin' \in [WorkIds -> {None} \cup [work : WorkIds, ckpt : Nat]]
    <3>1. [work |-> w, ckpt |-> k] \in [work : WorkIds, ckpt : Nat]
      BY <1>3, <1>11
    <3> QED
      BY <1>1, <1>9, <3>1 DEF DbTypeOK
  <2> QED
    BY <2>1, <2>2, <2>3, <2>4, <2>5, <1>1, <1>9 DEF DbTypeOK
\* A Work with a checkpoint existed, so its rows are as they were.
<1>20. \A v \in WorkIds : \A i \in DOMAIN ckpts[v] : rows'[v] = rows[v]
  BY <1>16, <1>17
<1>21. Grows
  <2>1. \A v \in WorkIds : \A e \in DOMAIN rows[v] : e \in DOMAIN rows'[v]
                                                     /\ rows'[v][e] = rows[v][e]
    BY <1>16, <1>17 DEF Empty
  <2>2. \A v \in WorkIds : Len(ckpts[v]) \in Nat
    BY <1>1, LenProperties DEF DbTypeOK
  <2> QED
    BY <2>1, <2>2, <1>9, <1>20 DEF Grows
<1>22. Unborn'
  BY <1>1, <1>9, <1>17, <1>18 DEF DbInv, Unborn
<1>23. MarksExact' /\ CheckpointPinned'
  <2> SUFFICES ASSUME NEW v \in WorkIds, NEW i \in DOMAIN ckpts[v], NEW x, x = ckpts[v][i]
               PROVE  /\ x.mark = NextOrdinal(Below(rows'[v], x.mark))
                      /\ x.count = Cardinality(DOMAIN Below(rows'[v], x.mark))
                      /\ x.claims = Derive(Below(rows'[v], x.mark))
    BY <1>9 DEF MarksExact, CheckpointPinned, Mark
  <2> QED
    BY <1>1, <1>20 DEF DbInv, MarksExact, CheckpointPinned, Mark
<1>24. OrdinalsUnique'
  BY <1>1, <1>8, <1>12, <1>17 DEF DbInv, OrdinalsUnique
<1>25. ForkPrefix'
  <2> SUFFICES ASSUME NEW d \in WorkIds, origin'[d] # None, NEW v, v = origin'[d].work,
                      NEW i, i = origin'[d].ckpt
               PROVE  /\ d \in works' /\ v \in works' /\ i \in DOMAIN ckpts[v]
                      /\ Below(rows'[d], ckpts[v][i].mark) = Below(rows'[v], ckpts[v][i].mark)
    BY <1>9 DEF ForkPrefix, Mark
  <2>1. CASE d = c
    <3>1. v = w /\ i = k
      BY <2>1, <1>18
    <3>2. rows'[d] = r /\ rows'[v] = rows[w]
      BY <2>1, <3>1, <1>3, <1>17
    <3> QED
      BY <2>1, <3>1, <3>2, <1>3, <1>4, <1>9, <1>13 DEF Mark
  <2>2. CASE d # c
    <3>1. origin[d] # None /\ v = origin[d].work /\ i = origin[d].ckpt
      BY <2>2, <1>18
    <3>2. /\ d \in works /\ v \in works /\ i \in DOMAIN ckpts[v]
          /\ Below(rows[d], ckpts[v][i].mark) = Below(rows[v], ckpts[v][i].mark)
      BY <3>1, <1>1 DEF DbInv, ForkPrefix, Mark
    <3>3. v \in WorkIds /\ v # c
      BY <3>2, <1>1, <1>2 DEF DbTypeOK, c
    <3> QED
      BY <2>2, <3>2, <3>3, <1>9, <1>17
  <2> QED
    BY <2>1, <2>2
<1>26. ClaimsGrounded'
  <2>1. \A v \in WorkIds : Evidence(claims'[v]) \subseteq DOMAIN rows'[v]
    BY <1>1, <1>15, <1>17 DEF ClaimsGrounded
  <2>2. \A v \in WorkIds : \A i \in DOMAIN ckpts[v] :
          Evidence(ckpts[v][i].claims) \subseteq DOMAIN Below(rows'[v], ckpts[v][i].mark)
    BY <1>1, <1>20 DEF ClaimsGrounded, Mark
  <2> QED
    BY <2>1, <2>2, <1>9 DEF ClaimsGrounded, Mark
<1> QED
  BY <1>19, <1>21, <1>22, <1>23, <1>24, <1>25, <1>26 DEF DbInv
-----------------------------------------------------------------------------
(* From the store and the process that moves to the whole invariant. *)

\* What a step must establish of the process that takes it.
Mine(p) == /\ pc[p] \in Steps /\ IsJob(job[p]) /\ JobOK(p) /\ PinnedOK(p)
           /\ SeenOK(p) /\ NamedOK(p) /\ SeedOK(p) /\ PinnedView(p)

\* Inv says of each process what Mine says.
LEMMA MineFromInv == ASSUME Inv, NEW p \in Procs PROVE Mine(p)
BY DEF Inv, TypeOK, ProcTypeOK, ProcInv, ViewInv, Mine

\* A step of p that grows the store and leaves p in order leaves all in order.
LEMMA Assemble ==
    ASSUME Inv, NEW p \in Procs, Moves(p),
           DbTypeOK', DbInv', ClaimsGrounded', Grows, rows' = rows \/ writer = p,
           lines' = lines, started' \in 0..MaxCommands, LockOK', Mine(p)'
    PROVE  Inv'
<1>1. \A q \in Procs : /\ JobOK(q)' /\ PinnedOK(q)'
                       /\ SeenOK(q)' /\ NamedOK(q)' /\ SeedOK(q)' /\ PinnedView(q)'
  <2> TAKE q \in Procs
  <2>1. CASE q = p
    BY <2>1 DEF Mine
  <2>2. CASE q # p
    BY <2>2, OtherKeeps
  <2> QED
    BY <2>1, <2>2
<1>2. ProcTypeOK'
  <2>1. \A q \in Procs : pc'[q] \in Steps /\ IsJob(job'[q])
    <3> TAKE q \in Procs
    <3>1. CASE q = p
      BY <3>1 DEF Mine
    <3>2. CASE q # p
      <4>1. pc'[q] = pc[q] /\ job'[q] = job[q]
        BY <3>2 DEF Moves
      <4>2. pc[q] \in Steps /\ IsJob(job[q])
        BY DEF Inv, TypeOK, ProcTypeOK
      <4> QED
        BY <4>1, <4>2
    <3> QED
      BY <3>1, <3>2
  <2>2. pc' = [q \in Procs |-> pc'[q]] /\ job' = [q \in Procs |-> job'[q]]
    BY DEF Moves
  <2>3. pc' \in [Procs -> Steps]
    BY <2>1, <2>2
  <2> QED
    BY <2>1, <2>2, <2>3 DEF ProcTypeOK
<1>3. lines' \in [Sessions -> 0..MaxLines]
  BY DEF Inv, TypeOK
<1>4. TypeOK'
  BY <1>2, <1>3 DEF TypeOK
<1>5. ProcInv' /\ ViewInv'
  BY <1>1 DEF ProcInv, ViewInv
<1> QED
  BY <1>4, <1>5 DEF Inv

\* Updates at p make p move.
LEMMA UpdatesMove ==
    ASSUME Inv, NEW p \in Procs, NEW step, NEW j,
           pc' = [pc EXCEPT ![p] = step], job' = [job EXCEPT ![p] = j]
    PROVE  Moves(p) /\ pc'[p] = step /\ job'[p] = j
<1>1. pc \in [Procs -> Steps] /\ job = [q \in Procs |-> job[q]]
  BY DEF Inv, TypeOK, ProcTypeOK
<1>2. pc' = [q \in Procs |-> pc'[q]] /\ job' = [q \in Procs |-> job'[q]]
  BY <1>1
<1> QED
  BY <1>1, <1>2 DEF Moves
-----------------------------------------------------------------------------
(* A process that exits. *)

\* A process that has no command knows nothing.
LEMMA IdleMine ==
    ASSUME NEW p \in Procs, pc'[p] = "idle", job'[p] = NoJob
    PROVE  Mine(p)'
<1>1. IsJob(NoJob)
  <2>1. MaxLines \in Nat
    BY ScriptAssumption
  <2>2. NoClaims \in ClaimsType /\ IsListing(Empty, EventIds)
    BY NoClaimsGrounded, EmptyListing
  <2> QED
    BY <2>1, <2>2 DEF IsJob, NoJob, Command
<1>2. JobOK(p)'
  <2>1. NoJob.cmd = None /\ None \notin Commands
    BY StoreAssumption DEF NoJob, Command
  <2> QED
    BY <2>1 DEF JobOK, CommandAt, Selected, Commands
<1>3. /\ PinnedOK(p)' /\ SeenOK(p)' /\ NamedOK(p)' /\ SeedOK(p)' /\ PinnedView(p)'
  BY DEF PinnedOK, InTransaction, SeenOK, NamedOK, SeedOK, PinnedView, Loaded
<1> QED
  BY <1>1, <1>2, <1>3 DEF Mine, Steps

\* A process that exits gives up its lock and forgets what it knew.
LEMMA LeaveKeeps ==
    ASSUME Inv, NEW p \in Procs, Leave(p),
           DbTypeOK', DbInv', ClaimsGrounded', Grows, rows' = rows \/ writer = p,
           UNCHANGED <<lines, started>>
    PROVE  Inv'
<1>1. Moves(p) /\ pc'[p] = "idle" /\ job'[p] = NoJob
  BY UpdatesMove DEF Leave
<1>2. LockOK'
  <2>1. LockOK /\ p # None /\ pc'[p] \notin InTransaction
    BY <1>1, StoreAssumption DEF Inv, TypeOK, InTransaction
  <2>2. \A q \in Procs \ {p} : pc'[q] = pc[q]
    BY <1>1 DEF Moves
  <2>3. writer' = IF writer = p THEN None ELSE writer
    BY DEF Leave
  <2> QED
    BY <2>1, <2>2, <2>3, StoreAssumption DEF LockOK
<1>3. Mine(p)'
  BY <1>1, IdleMine
<1>4. lines' = lines /\ started' \in 0..MaxCommands
  BY DEF Inv, TypeOK
<1> QED
  BY <1>1, <1>2, <1>3, <1>4, Assemble

\* Busy, Fail, Finish and every rejection leave the store as it is.
LEMMA LeaveStep ==
    ASSUME Inv, NEW p \in Procs, Leave(p), UNCHANGED <<lines, db, started>>
    PROVE  Inv'
<1>1. DbTypeOK /\ DbInv /\ ClaimsGrounded
  BY DEF Inv, TypeOK, ViewInv
<1>2. DbTypeOK' /\ DbInv' /\ ClaimsGrounded' /\ Grows
  BY <1>1, DbUnchanged, GrowsReflexive
<1>3. rows' = rows
  BY DEF db
<1> QED
  BY <1>2, <1>3, LeaveKeeps
-----------------------------------------------------------------------------
(* A process that goes on, outside a transaction. *)

\* A process that goes on without writing has only its own knowledge to keep.
LEMMA ContinueKeeps ==
    ASSUME Inv, NEW p \in Procs, Moves(p), UNCHANGED <<lines, db, writer>>,
           pc[p] \notin InTransaction, pc'[p] \notin InTransaction, pc'[p] \in Steps,
           started' \in 0..MaxCommands, IsJob(job'[p]), JobOK(p)',
           SeenOK(p)', NamedOK(p)', SeedOK(p)', PinnedView(p)'
    PROVE  Inv'
<1>1. DbTypeOK /\ DbInv /\ ClaimsGrounded
  BY DEF Inv, TypeOK, ViewInv
<1>2. DbTypeOK' /\ DbInv' /\ ClaimsGrounded' /\ Grows
  BY <1>1, DbUnchanged, GrowsReflexive
<1>3. LockOK'
  <2>1. LockOK /\ \A q \in Procs \ {p} : pc'[q] = pc[q]
    BY DEF Inv, TypeOK, Moves
  <2> QED
    BY <2>1 DEF LockOK
<1>4. Mine(p)'
  BY DEF Mine, PinnedOK
<1>5. rows' = rows
  BY DEF db
<1> QED
  BY <1>2, <1>3, <1>4, <1>5, Assemble

\* A command starts with its arguments only.
LEMMA StartStep ==
    ASSUME Inv, NEW p \in Procs, NEW cmd \in Commands,
           NEW first, first = IF cmd = "checkpoint" THEN "ckptLoad" ELSE "load",
           NEW w \in WorkIds, NEW s \in Sessions \cup {None}, cmd = "import" => s \in Sessions,
           NEW n \in 0..MaxLines, NEW k \in 0..Len(ckpts[w]), NEW attach \in BOOLEAN,
           Start(p, first), job' = [job EXCEPT ![p] = Command(cmd, w, s, n, attach, k)]
    PROVE  Inv'
<1>1. PICK j : j = Command(cmd, w, s, n, attach, k)
  OBVIOUS
<1>2. /\ pc[p] = "idle" /\ started < MaxCommands /\ started' = started + 1
      /\ pc' = [pc EXCEPT ![p] = first] /\ job' = [job EXCEPT ![p] = j]
      /\ UNCHANGED <<lines, db, writer>>
  BY <1>1 DEF Start
<1>3. Moves(p) /\ pc'[p] = first /\ job'[p] = j
  BY <1>2, UpdatesMove
<1>4. IsJob(j)
  <2>1. NoClaims \in ClaimsType /\ IsListing(Empty, EventIds) /\ k \in Nat
    <3>1. ckpts[w] \in Seq(Checkpoint)
      BY DEF Inv, TypeOK, DbTypeOK
    <3> QED
      BY <3>1, LenProperties, NoClaimsGrounded, EmptyListing
  <2> QED
    BY <1>1, <2>1 DEF IsJob, Command
<1>5. /\ works' = works /\ rows' = rows /\ ckpts' = ckpts
  BY <1>2 DEF db
<1>6. JobOK(p)'
  BY <1>1, <1>3, <1>5 DEF JobOK, CommandAt, Selected, Command, Commands
<1>7. SeenOK(p)'
  BY <1>1, <1>3, EmptyListing DEF SeenOK, Command
<1>8. NamedOK(p)' /\ SeedOK(p)' /\ PinnedView(p)'
  BY <1>3 DEF NamedOK, SeedOK, PinnedView, Loaded
<1>9. started' \in 0..MaxCommands
  BY <1>2, StoreAssumption DEF Inv, TypeOK
<1>10. pc[p] \notin InTransaction /\ pc'[p] \notin InTransaction /\ pc'[p] \in Steps
  BY <1>2, <1>3 DEF InTransaction, Steps
<1> QED
  BY <1>2, <1>3, <1>4, <1>6, <1>7, <1>8, <1>9, <1>10, ContinueKeeps

\* Every command starts in order.
LEMMA InvokeStep ==
    ASSUME Inv, NEW p \in Procs, Invoke(p)
    PROVE  Inv'
<1>1. \A w \in WorkIds : Len(ckpts[w]) \in Nat
  <2>1. \A w \in WorkIds : ckpts[w] \in Seq(Checkpoint)
    BY DEF Inv, TypeOK, DbTypeOK
  <2> QED
    BY <2>1, LenProperties
<1>2. ASSUME NEW s \in Sessions, NEW w \in WorkIds, NEW attach \in BOOLEAN,
             StartImport(p, s, w, attach)
      PROVE  Inv'
  <2>1. lines[s] \in 0..MaxLines /\ 0 \in 0..Len(ckpts[w])
    BY <1>1 DEF Inv, TypeOK
  <2>2. /\ Start(p, "load")
        /\ job' = [job EXCEPT ![p] = Command("import", w, s, lines[s], attach, 0)]
    BY <1>2 DEF StartImport
  <2> QED
    BY <2>1, <2>2, StartStep DEF Commands
<1>3. ASSUME NEW cmd \in {"checkpoint", "fork", "handoff"}, NEW w \in WorkIds,
             NEW k \in 0..Len(ckpts[w]), NEW first,
             first = IF cmd = "checkpoint" THEN "ckptLoad" ELSE "load",
             Start(p, first), job' = [job EXCEPT ![p] = Command(cmd, w, None, 0, FALSE, k)]
      PROVE  Inv'
  <2>1. 0 \in 0..MaxLines
    BY ScriptAssumption
  <2> QED
    BY <1>3, <2>1, StartStep DEF Commands
<1>4. ASSUME NEW w \in WorkIds, StartCheckpoint(p, w)
      PROVE  Inv'
  <2>1. 0 \in 0..Len(ckpts[w])
    BY <1>1
  <2> QED
    BY <1>3, <1>4, <2>1 DEF StartCheckpoint
<1>5. ASSUME NEW w \in WorkIds, NEW k, StartFork(p, w, k) \/ StartHandoff(p, w, k)
      PROVE  Inv'
  <2>1. k \in 0..Len(ckpts[w])
    BY <1>5 DEF StartFork, StartHandoff
  <2>2. CASE StartFork(p, w, k)
    BY <2>1, <2>2, <1>3 DEF StartFork
  <2>3. CASE StartHandoff(p, w, k)
    BY <2>1, <2>3, <1>3 DEF StartHandoff
  <2> QED
    BY <1>5, <2>2, <2>3
<1> QED
  BY <1>2, <1>4, <1>5 DEF Invoke
-----------------------------------------------------------------------------
(* The steps of loadWork. *)

\* What Continue says, for a step that leaves job[p] as j.
LEMMA Continued ==
    ASSUME Inv, NEW p \in Procs, NEW next, NEW j,
           Continue(p, next), job' = [job EXCEPT ![p] = j]
    PROVE  /\ Moves(p) /\ pc'[p] = next /\ job'[p] = j
           /\ UNCHANGED <<lines, db, writer, started>>
           /\ works' = works /\ rows' = rows /\ claims' = claims /\ ckpts' = ckpts
           /\ started' \in 0..MaxCommands
BY UpdatesMove DEF Continue, db, Inv, TypeOK

\* loadWork reads the works row.
LEMMA LoadRowStep ==
    ASSUME Inv, NEW p \in Procs, LoadRow(p)
    PROVE  Inv'
<1>1. PICK w : w = job[p].work
  OBVIOUS
<1>2. PICK j : j = [job[p] EXCEPT !.claims.goal = claims[w].goal]
  OBVIOUS
<1>3. /\ pc[p] = "load" /\ w \in works /\ Continue(p, "events")
      /\ job' = [job EXCEPT ![p] = j]
  BY <1>1, <1>2 DEF LoadRow
<1>4. Mine(p)
  BY MineFromInv
<1>5. /\ Moves(p) /\ pc'[p] = "events" /\ job'[p] = j
      /\ UNCHANGED <<lines, db, writer, started>>
      /\ works' = works /\ rows' = rows /\ ckpts' = ckpts /\ started' \in 0..MaxCommands
  BY <1>3, Continued
<1>6. claims[w] \in ClaimsType
  BY <1>3 DEF Inv, TypeOK, DbTypeOK
<1>7. IsJob(j)
  <2>1. IsJob(job[p])
    BY <1>4 DEF Mine
  <2>2. [job[p].claims EXCEPT !.goal = claims[w].goal] \in ClaimsType
    BY <1>6, <2>1 DEF IsJob, ClaimsType
  <2> QED
    BY <1>2, <2>1, <2>2 DEF IsJob
<1>8. /\ j.cmd = job[p].cmd /\ j.work = w /\ j.session = job[p].session
      /\ j.named = job[p].named /\ j.seen = job[p].seen
  BY <1>1, <1>2, <1>4 DEF Mine, IsJob
<1>9. JobOK(p)'
  BY <1>1, <1>3, <1>4, <1>5, <1>8 DEF Mine, JobOK, CommandAt, Selected
<1>10. SeenOK(p)'
  BY <1>1, <1>3, <1>4, <1>5, <1>8 DEF Mine, SeenOK
<1>11. NamedOK(p)' /\ SeedOK(p)' /\ PinnedView(p)'
  BY <1>5 DEF NamedOK, SeedOK, PinnedView, Loaded
<1>12. pc[p] \notin InTransaction /\ pc'[p] \notin InTransaction /\ pc'[p] \in Steps
  BY <1>3, <1>5 DEF InTransaction, Steps
<1> QED
  BY <1>5, <1>7, <1>9, <1>10, <1>11, <1>12, ContinueKeeps

\* Steps that only go on: the Work is absent, or its existence is all that counts.
LEMMA LoadAbsentStep ==
    ASSUME Inv, NEW p \in Procs, LoadAbsent(p) \/ LoadForCheckpoint(p)
    PROVE  Inv'
<1>1. PICK j : j = job[p]
  OBVIOUS
<1>2. Mine(p)
  BY MineFromInv
<1>3. job' = [job EXCEPT ![p] = j]
  <2>1. job' = job /\ job = [q \in Procs |-> job[q]]
    BY DEF LoadAbsent, LoadForCheckpoint, Inv, TypeOK, ProcTypeOK
  <2> QED
    BY <1>1, <2>1
<1>4. IsJob(j)
  BY <1>1, <1>2 DEF Mine
<1>5. CASE LoadAbsent(p)
  <2>1. pc[p] = "load" /\ j.cmd = "import" /\ Continue(p, "begin")
    BY <1>1, <1>5 DEF LoadAbsent
  <2>2. /\ Moves(p) /\ pc'[p] = "begin" /\ job'[p] = j
        /\ UNCHANGED <<lines, db, writer, started>>
        /\ works' = works /\ rows' = rows /\ ckpts' = ckpts /\ started' \in 0..MaxCommands
    BY <1>3, <2>1, Continued
  <2>3. j.named = 0
    <3>1. j.work \in WorkIds \ works /\ j.named \in 0..Len(ckpts[j.work])
      BY <1>1, <1>2, <1>5, <2>1 DEF Mine, JobOK, LoadAbsent
    <3>2. ckpts[j.work] = <<>>
      BY <3>1 DEF Inv, DbInv, Unborn
    <3> QED
      BY <3>1, <3>2
  <2>4. JobOK(p)'
    BY <1>1, <1>2, <2>1, <2>2 DEF Mine, JobOK, CommandAt, Selected
  <2>5. SeenOK(p)'
    BY <1>1, <1>2, <2>1, <2>2 DEF Mine, SeenOK
  <2>6. NamedOK(p)' /\ SeedOK(p)' /\ PinnedView(p)'
    BY <2>1, <2>2, <2>3 DEF NamedOK, SeedOK, PinnedView
  <2>7. pc[p] \notin InTransaction /\ pc'[p] \notin InTransaction /\ pc'[p] \in Steps
    BY <2>1, <2>2 DEF InTransaction, Steps
  <2> QED
    BY <1>4, <2>2, <2>4, <2>5, <2>6, <2>7, ContinueKeeps
<1>6. CASE LoadForCheckpoint(p)
  <2>1. pc[p] = "ckptLoad" /\ j.work \in works /\ Continue(p, "ckptBegin")
    BY <1>1, <1>6 DEF LoadForCheckpoint
  <2>2. /\ Moves(p) /\ pc'[p] = "ckptBegin" /\ job'[p] = j
        /\ UNCHANGED <<lines, db, writer, started>>
        /\ works' = works /\ rows' = rows /\ ckpts' = ckpts /\ started' \in 0..MaxCommands
    BY <1>3, <2>1, Continued
  <2>3. JobOK(p)'
    BY <1>1, <1>2, <2>1, <2>2 DEF Mine, JobOK, CommandAt, Selected
  <2>4. SeenOK(p)'
    BY <1>1, <1>2, <2>1, <2>2 DEF Mine, SeenOK
  <2>5. NamedOK(p)' /\ SeedOK(p)' /\ PinnedView(p)'
    BY <2>2 DEF NamedOK, SeedOK, PinnedView, Loaded
  <2>6. pc[p] \notin InTransaction /\ pc'[p] \notin InTransaction /\ pc'[p] \in Steps
    BY <2>1, <2>2 DEF InTransaction, Steps
  <2> QED
    BY <1>4, <2>2, <2>3, <2>4, <2>5, <2>6, ContinueKeeps
<1> QED
  BY <1>5, <1>6

\* loadWork reads the events: all that a named checkpoint covers is among them.
LEMMA LoadEventsStep ==
    ASSUME Inv, NEW p \in Procs, LoadEvents(p)
    PROVE  Inv'
<1>1. PICK w : w = job[p].work
  OBVIOUS
<1>2. PICK j : j = [job[p] EXCEPT !.seen = rows[w]]
  OBVIOUS
<1>3. PICK next : next = CASE job[p].cmd = "import" -> "begin"
                           [] job[p].cmd = "fork" -> "select"
                           [] job[p].cmd = "handoff" -> "claims"
  OBVIOUS
<1>4. /\ pc[p] = "events" /\ Continue(p, next) /\ job' = [job EXCEPT ![p] = j]
  BY <1>1, <1>2, <1>3 DEF LoadEvents
<1>5. Mine(p)
  BY MineFromInv
<1>6. /\ Moves(p) /\ pc'[p] = next /\ job'[p] = j
      /\ UNCHANGED <<lines, db, writer, started>>
      /\ works' = works /\ rows' = rows /\ ckpts' = ckpts /\ started' \in 0..MaxCommands
  BY <1>4, Continued
<1>7. job[p].cmd \in {"import", "fork", "handoff"} /\ w \in WorkIds
  BY <1>1, <1>4, <1>5 DEF Mine, JobOK, CommandAt
<1>8. IsListing(rows[w], EventIds) /\ IsListing(execs[w], Sessions)
  BY <1>7 DEF Inv, TypeOK, DbTypeOK
<1>9. IsJob(j)
  BY <1>2, <1>5, <1>8 DEF Mine, IsJob
<1>10. /\ j.cmd = job[p].cmd /\ j.work = w /\ j.session = job[p].session
       /\ j.named = job[p].named /\ j.seen = rows[w]
  BY <1>1, <1>2, <1>5 DEF Mine, IsJob
<1>11. next \in {"begin", "select", "claims"} /\ (next = "begin" <=> j.cmd = "import")
       /\ (next = "select" <=> j.cmd = "fork") /\ (next = "claims" <=> j.cmd = "handoff")
  BY <1>3, <1>7, <1>10
<1>12. JobOK(p)'
  <2>1. /\ j.named \in 0..Len(ckpts[w])
        /\ j.cmd # "import" => w \in works
        /\ j.cmd = "import" => j.session \in Sessions
    BY <1>1, <1>4, <1>5, <1>10 DEF Mine, JobOK
  <2> QED
    BY <2>1, <1>6, <1>7, <1>10, <1>11 DEF JobOK, CommandAt, Selected
<1>13. SeenOK(p)'
  BY <1>6, <1>10 DEF SeenOK
<1>14. NamedOK(p)'
  <2>1. DOMAIN Below(rows[w], ckpts[w][j.named].mark) \subseteq DOMAIN rows[w]
    BY DEF Below
  <2> QED
    BY <2>1, <1>6, <1>10 DEF NamedOK, Mark
<1>15. SeedOK(p)' /\ PinnedView(p)'
  BY <1>6, <1>11 DEF SeedOK, PinnedView
<1>16. pc[p] \notin InTransaction /\ pc'[p] \notin InTransaction /\ pc'[p] \in Steps
  BY <1>4, <1>6, <1>11 DEF InTransaction, Steps
<1> QED
  BY <1>6, <1>9, <1>12, <1>13, <1>14, <1>15, <1>16, ContinueKeeps

\* loadWork reads the claims.
LEMMA LoadClaimsStep ==
    ASSUME Inv, NEW p \in Procs, LoadClaims(p)
    PROVE  Inv'
<1>1. PICK w : w = job[p].work
  OBVIOUS
<1>2. PICK j : j = [job[p] EXCEPT !.claims = [claims[w] EXCEPT !.goal = job[p].claims.goal]]
  OBVIOUS
<1>3. PICK next : next = IF job[p].named = 0 THEN "shown" ELSE "pin"
  OBVIOUS
<1>4. /\ pc[p] = "claims" /\ Continue(p, next) /\ job' = [job EXCEPT ![p] = j]
  BY <1>1, <1>2, <1>3 DEF LoadClaims
<1>5. Mine(p)
  BY MineFromInv
<1>6. /\ Moves(p) /\ pc'[p] = next /\ job'[p] = j
      /\ UNCHANGED <<lines, db, writer, started>>
      /\ works' = works /\ rows' = rows /\ ckpts' = ckpts /\ started' \in 0..MaxCommands
  BY <1>4, Continued
<1>7. /\ w \in WorkIds /\ claims[w] \in ClaimsType
  BY <1>1, <1>4, <1>5 DEF Mine, JobOK, Inv, TypeOK, DbTypeOK
<1>8. IsJob(j)
  <2>1. IsJob(job[p])
    BY <1>5 DEF Mine
  <2>2. [claims[w] EXCEPT !.goal = job[p].claims.goal] \in ClaimsType
    BY <1>7, <2>1 DEF IsJob, ClaimsType
  <2> QED
    BY <1>2, <2>1, <2>2 DEF IsJob
<1>9. /\ j.cmd = job[p].cmd /\ j.work = w /\ j.session = job[p].session
      /\ j.named = job[p].named /\ j.seen = job[p].seen
  BY <1>1, <1>2, <1>5 DEF Mine, IsJob
<1>10. next \in {"shown", "pin"} /\ (next = "shown" <=> j.named = 0)
  BY <1>3, <1>9
<1>11. JobOK(p)'
  <2>1. /\ j.cmd = "handoff" /\ j.named \in 0..Len(ckpts[w]) /\ w \in works
    BY <1>1, <1>4, <1>5, <1>9 DEF Mine, JobOK, CommandAt
  <2> QED
    BY <2>1, <1>6, <1>7, <1>9, <1>10 DEF JobOK, CommandAt, Selected
<1>12. SeenOK(p)'
  BY <1>1, <1>4, <1>5, <1>6, <1>9 DEF Mine, SeenOK
<1>13. NamedOK(p)'
  BY <1>1, <1>4, <1>5, <1>6, <1>9 DEF Mine, NamedOK, Mark, Loaded
<1>14. SeedOK(p)' /\ PinnedView(p)'
  BY <1>6, <1>10 DEF SeedOK, PinnedView
<1>15. pc[p] \notin InTransaction /\ pc'[p] \notin InTransaction /\ pc'[p] \in Steps
  BY <1>4, <1>6, <1>10 DEF InTransaction, Steps
<1> QED
  BY <1>6, <1>8, <1>11, <1>12, <1>13, <1>14, <1>15, ContinueKeeps
-----------------------------------------------------------------------------
(* Reading a checkpoint. *)

\* What a process has loaded of the rows below a mark it knows of is all of them.
LEMMA SeenBelow ==
    ASSUME NEW r, NEW s, NEW b,
           \A e \in DOMAIN s : e \in DOMAIN r /\ r[e] = s[e],
           DOMAIN Below(r, b) \subseteq DOMAIN s
    PROVE  Only(s, DOMAIN Below(r, b)) = Below(r, b)
<1>1. DOMAIN Below(r, b) = {e \in DOMAIN r : r[e] < b}
  BY DEF Below
<1>2. DOMAIN s \cap DOMAIN Below(r, b) = DOMAIN Below(r, b)
  OBVIOUS
<1>3. \A e \in DOMAIN Below(r, b) : Below(r, b)[e] = r[e] /\ s[e] = r[e]
  BY <1>1 DEF Below
<1>4. Below(r, b) = [e \in DOMAIN Below(r, b) |-> Below(r, b)[e]]
  BY DEF Below
<1> QED
  BY <1>2, <1>3, <1>4 DEF Only

\* loadWorkAtCheckpoint restricts what it loaded to what the watermark covers.
LEMMA PinStep ==
    ASSUME Inv, NEW p \in Procs, Pin(p)
    PROVE  Inv'
<1>1. PICK w, k : w = job[p].work /\ k = job[p].named
  OBVIOUS
<1>2. PICK r : r = Below(rows[w], Mark(w, k))
  OBVIOUS
<1>3. PICK c : c = ckpts[w][k].claims
  OBVIOUS
<1>4. PICK j : j = [job[p] EXCEPT !.seen = Only(job[p].seen, DOMAIN r), !.claims = c]
  OBVIOUS
<1>5. Mine(p) /\ MarksExact /\ CheckpointPinned /\ DbTypeOK /\ pc[p] = "pin"
  BY MineFromInv DEF Pin, Inv, DbInv, TypeOK
<1>6. Continue(p, "shown") /\ job' = [job EXCEPT ![p] = j]
  <2>1. job = [q \in Procs |-> job[q]]
    BY DEF Inv, TypeOK, ProcTypeOK
  <2> QED
    BY <1>1, <1>2, <1>3, <1>4, <2>1 DEF Pin
<1>7. /\ Moves(p) /\ pc'[p] = "shown" /\ job'[p] = j
      /\ UNCHANGED <<lines, db, writer, started>>
      /\ works' = works /\ rows' = rows /\ ckpts' = ckpts /\ started' \in 0..MaxCommands
  BY <1>6, Continued
<1>8. /\ job[p].cmd = "handoff" /\ k # 0 /\ w \in WorkIds /\ w \in works /\ k \in DOMAIN ckpts[w]
      /\ k \in 0..Len(ckpts[w])
  <2>1. /\ job[p].cmd = "handoff" /\ k # 0 /\ w \in WorkIds /\ w \in works
        /\ k \in 0..Len(ckpts[w])
    BY <1>1, <1>5 DEF Mine, JobOK, CommandAt
  <2>2. ckpts[w] \in Seq(Checkpoint)
    BY <1>5, <2>1 DEF DbTypeOK
  <2> QED
    BY <2>1, <2>2, LenProperties
<1>9. /\ ckpts[w][k] \in Checkpoint /\ Mark(w, k) \in Nat
      /\ IsListing(rows[w], EventIds)
  <2>1. NextOrdinal(rows[w]) \in Nat /\ Mark(w, k) \in 0..NextOrdinal(rows[w])
        /\ ckpts[w][k] \in Checkpoint
    BY <1>5, <1>8, MarkInWork
  <2> QED
    BY <1>5, <1>8, <2>1 DEF DbTypeOK
<1>10. Only(job[p].seen, DOMAIN r) = r
  <2>1. \A e \in DOMAIN job[p].seen : e \in DOMAIN rows[w] /\ rows[w][e] = job[p].seen[e]
    BY <1>1, <1>5 DEF Mine, SeenOK
  <2>2. DOMAIN r \subseteq DOMAIN job[p].seen
    BY <1>1, <1>2, <1>5, <1>8 DEF Mine, NamedOK, Loaded
  <2> QED
    BY <1>2, <2>1, <2>2, SeenBelow
<1>11. IsListing(r, EventIds)
  BY <1>2, <1>9, BelowProps
<1>12. c = Derive(r) /\ c \in ClaimsType
  BY <1>2, <1>3, <1>5, <1>8, <1>9 DEF CheckpointPinned, Checkpoint
<1>13. IsJob(j)
  BY <1>4, <1>5, <1>10, <1>11, <1>12 DEF Mine, IsJob
<1>14. /\ j.cmd = "handoff" /\ j.work = w /\ j.named = k /\ j.seen = r /\ j.claims = c
  BY <1>1, <1>4, <1>5, <1>8, <1>10 DEF Mine, IsJob
<1>15. JobOK(p)'
  BY <1>7, <1>8, <1>14 DEF JobOK, CommandAt, Selected
<1>16. SeenOK(p)'
  <2>1. \A e \in DOMAIN r : e \in DOMAIN rows[w] /\ rows[w][e] = r[e]
    BY <1>2 DEF Below
  <2> QED
    BY <2>1, <1>7, <1>14 DEF SeenOK
<1>17. NamedOK(p)' /\ SeedOK(p)' /\ PinnedView(p)'
  BY <1>2, <1>7, <1>12, <1>14 DEF NamedOK, SeedOK, PinnedView, Mark
<1>18. pc[p] \notin InTransaction /\ pc'[p] \notin InTransaction /\ pc'[p] \in Steps
  BY <1>5, <1>7 DEF InTransaction, Steps
<1> QED
  BY <1>7, <1>13, <1>15, <1>16, <1>17, <1>18, ContinueKeeps
-----------------------------------------------------------------------------
(* Choosing what to fork. *)

\* createFork chooses a checkpoint that exists, or creates one.
LEMMA SelectCheckpointStep ==
    ASSUME Inv, NEW p \in Procs, SelectCheckpoint(p)
    PROVE  Inv'
<1>1. PICK w : w = job[p].work
  OBVIOUS
<1>2. PICK k : k = IF job[p].named # 0 THEN job[p].named ELSE Len(ckpts[w])
  OBVIOUS
<1>3. PICK j : j = [job[p] EXCEPT !.ckpt = k]
  OBVIOUS
<1>4. PICK next : next = IF k = 0 THEN "ckptLoad" ELSE "seed"
  OBVIOUS
<1>5. pc[p] = "select" /\ Continue(p, next) /\ job' = [job EXCEPT ![p] = j]
  BY <1>1, <1>2, <1>3, <1>4 DEF SelectCheckpoint
<1>6. Mine(p)
  BY MineFromInv
<1>7. /\ Moves(p) /\ pc'[p] = next /\ job'[p] = j
      /\ UNCHANGED <<lines, db, writer, started>>
      /\ works' = works /\ rows' = rows /\ ckpts' = ckpts /\ started' \in 0..MaxCommands
  BY <1>5, Continued
<1>8. /\ job[p].cmd = "fork" /\ w \in WorkIds /\ w \in works
      /\ job[p].named \in 0..Len(ckpts[w])
  BY <1>1, <1>5, <1>6 DEF Mine, JobOK, CommandAt
<1>9. Len(ckpts[w]) \in Nat /\ DOMAIN ckpts[w] = 1..Len(ckpts[w])
  <2>1. ckpts[w] \in Seq(Checkpoint)
    BY <1>8 DEF Inv, TypeOK, DbTypeOK
  <2> QED
    BY <2>1, LenProperties
<1>10. IsJob(j)
  BY <1>2, <1>3, <1>6, <1>8, <1>9 DEF Mine, IsJob
<1>11. /\ j.cmd = "fork" /\ j.work = w /\ j.named = job[p].named
       /\ j.seen = job[p].seen /\ j.ckpt = k
  BY <1>1, <1>3, <1>6, <1>8 DEF Mine, IsJob
<1>12. next \in {"ckptLoad", "seed"} /\ (next = "ckptLoad" <=> k = 0)
  BY <1>4
<1>13. JobOK(p)'
  BY <1>2, <1>7, <1>8, <1>9, <1>11, <1>12 DEF JobOK, CommandAt, Selected
<1>14. SeenOK(p)'
  BY <1>1, <1>5, <1>6, <1>7, <1>11 DEF Mine, SeenOK
<1>15. NamedOK(p)'
  BY <1>1, <1>5, <1>6, <1>7, <1>11 DEF Mine, NamedOK, Mark, Loaded
<1>16. SeedOK(p)' /\ PinnedView(p)'
  BY <1>7, <1>12 DEF SeedOK, PinnedView
<1>17. pc[p] \notin InTransaction /\ pc'[p] \notin InTransaction /\ pc'[p] \in Steps
  BY <1>5, <1>7, <1>12 DEF InTransaction, Steps
<1> QED
  BY <1>7, <1>10, <1>13, <1>14, <1>15, <1>16, <1>17, ContinueKeeps

\* childSeed keeps only events that the watermark covers.
LEMMA SeedStep ==
    ASSUME Inv, NEW p \in Procs, NEW c \in ForkIds, Seed(p, c)
    PROVE  Inv'
<1>1. PICK w, k : w = job[p].work /\ k = job[p].ckpt
  OBVIOUS
<1>2. PICK r : r = Below(rows[w], Mark(w, k))
  OBVIOUS
<1>3. PICK s : s = Only(job[p].seen, DOMAIN r)
  OBVIOUS
<1>4. PICK j : j = [job[p] EXCEPT !.child = c, !.seen = s]
  OBVIOUS
<1>5. Mine(p) /\ pc[p] = "seed"
  BY MineFromInv DEF Seed
<1>6. Continue(p, "begin") /\ job' = [job EXCEPT ![p] = j]
  <2>1. job = [q \in Procs |-> job[q]]
    BY DEF Inv, TypeOK, ProcTypeOK
  <2> QED
    BY <1>1, <1>2, <1>3, <1>4, <2>1 DEF Seed, SeedEvents, Covered
<1>7. /\ Moves(p) /\ pc'[p] = "begin" /\ job'[p] = j
      /\ UNCHANGED <<lines, db, writer, started>>
      /\ works' = works /\ rows' = rows /\ ckpts' = ckpts /\ started' \in 0..MaxCommands
  BY <1>6, Continued
<1>8. /\ job[p].cmd = "fork" /\ w \in WorkIds /\ w \in works
      /\ job[p].named \in 0..Len(ckpts[w]) /\ k \in DOMAIN ckpts[w]
      /\ job[p].named # 0 => k = job[p].named
  BY <1>1, <1>5 DEF Mine, JobOK, CommandAt, Selected
<1>9. /\ IsListing(job[p].seen, EventIds)
      /\ \A e \in DOMAIN job[p].seen : e \in DOMAIN rows[w] /\ rows[w][e] = job[p].seen[e]
  BY <1>1, <1>5 DEF Mine, IsJob, SeenOK
<1>10. /\ IsListing(s, EventIds)
       /\ \A e \in DOMAIN s : e \in DOMAIN rows[w] /\ rows[w][e] = s[e] /\ e \in DOMAIN r
       /\ \A e : e \in DOMAIN job[p].seen /\ e \in DOMAIN r => e \in DOMAIN s
  BY <1>3, <1>9 DEF Only, IsListing
<1>11. IsJob(j)
  BY <1>4, <1>5, <1>10 DEF Mine, IsJob
<1>12. /\ j.cmd = "fork" /\ j.work = w /\ j.named = job[p].named
       /\ j.seen = s /\ j.ckpt = k /\ j.child = c
  BY <1>1, <1>4, <1>5, <1>8 DEF Mine, IsJob
<1>13. JobOK(p)'
  BY <1>7, <1>8, <1>12 DEF JobOK, CommandAt, Selected
<1>14. SeenOK(p)'
  BY <1>7, <1>10, <1>12 DEF SeenOK
<1>15. NamedOK(p)'
  <2>1. job[p].named # 0 => DOMAIN r \subseteq DOMAIN job[p].seen
    BY <1>1, <1>2, <1>5, <1>8 DEF Mine, NamedOK, Loaded
  <2>2. j.named # 0 => DOMAIN Below(rows[w], ckpts[w][j.named].mark) \subseteq DOMAIN s
    BY <2>1, <1>2, <1>8, <1>10, <1>12 DEF Mark
  <2> QED
    BY <2>2, <1>7, <1>12 DEF NamedOK, Mark
<1>16. SeedOK(p)' /\ PinnedView(p)'
  BY <1>2, <1>7, <1>10, <1>12 DEF SeedOK, PinnedView, Covered, Mark
<1>17. pc[p] \notin InTransaction /\ pc'[p] \notin InTransaction /\ pc'[p] \in Steps
  BY <1>5, <1>7 DEF InTransaction, Steps
<1> QED
  BY <1>7, <1>11, <1>13, <1>14, <1>15, <1>16, <1>17, ContinueKeeps
-----------------------------------------------------------------------------
(* Transactions. *)

\* BEGIN IMMEDIATE takes a free lock, and what is read then is what the Work holds.
LEMMA BeginStep ==
    ASSUME Inv, NEW p \in Procs, BeginWrite(p) \/ BeginCheckpoint(p)
    PROVE  Inv'
<1>1. PICK w : w = job[p].work
  OBVIOUS
<1>2. PICK j : j = [job[p] EXCEPT !.pinned = rows[w]]
  OBVIOUS
<1>3. PICK step, next : /\ \/ step = "begin" /\ next = "commit"
                           \/ step = "ckptBegin" /\ next = "ckptCommit"
                        /\ Begin(p, step, next)
  BY DEF BeginWrite, BeginCheckpoint
<1>4. /\ pc[p] = step /\ writer = None /\ writer' = p
      /\ pc' = [pc EXCEPT ![p] = next] /\ job' = [job EXCEPT ![p] = j]
      /\ UNCHANGED <<lines, db, started>>
  BY <1>1, <1>2, <1>3 DEF Begin
<1>5. Mine(p)
  BY MineFromInv
<1>6. Moves(p) /\ pc'[p] = next /\ job'[p] = j
  BY <1>4, UpdatesMove
<1>7. works' = works /\ rows' = rows /\ ckpts' = ckpts
  BY <1>4 DEF db
<1>8. DbTypeOK' /\ DbInv' /\ ClaimsGrounded' /\ Grows
  BY <1>4, DbUnchanged, GrowsReflexive DEF Inv, TypeOK, ViewInv
<1>9. LockOK'
  <2>1. LockOK /\ \A q \in Procs \ {p} : pc'[q] = pc[q]
    BY <1>6 DEF Inv, TypeOK, Moves
  <2> QED
    BY <2>1, <1>3, <1>4, <1>6, StoreAssumption DEF LockOK, InTransaction
<1>10. lines' = lines /\ started' \in 0..MaxCommands
  BY <1>4 DEF Inv, TypeOK
<1>11. w \in WorkIds /\ IsListing(rows[w], EventIds)
  <2>1. w \in WorkIds
    BY <1>1, <1>3, <1>4, <1>5 DEF Mine, JobOK
  <2> QED
    BY <2>1 DEF Inv, TypeOK, DbTypeOK
<1>12. IsJob(j)
  BY <1>2, <1>5, <1>11 DEF Mine, IsJob
<1>13. /\ j.cmd = job[p].cmd /\ j.work = w /\ j.session = job[p].session
       /\ j.named = job[p].named /\ j.ckpt = job[p].ckpt /\ j.child = job[p].child
       /\ j.seen = job[p].seen /\ j.pinned = rows[w]
  BY <1>1, <1>2, <1>5 DEF Mine, IsJob
<1>14. JobOK(p)'
  BY <1>1, <1>3, <1>4, <1>5, <1>6, <1>7, <1>13 DEF Mine, JobOK, CommandAt, Selected
<1>15. PinnedOK(p)'
  BY <1>6, <1>7, <1>13 DEF PinnedOK
<1>16. SeenOK(p)'
  BY <1>1, <1>3, <1>4, <1>5, <1>6, <1>7, <1>13 DEF Mine, SeenOK
<1>17. NamedOK(p)'
  BY <1>1, <1>3, <1>4, <1>5, <1>6, <1>7, <1>13 DEF Mine, NamedOK, Mark, Loaded
<1>18. SeedOK(p)' /\ PinnedView(p)'
  BY <1>1, <1>3, <1>4, <1>5, <1>6, <1>7, <1>13
     DEF Mine, SeedOK, PinnedView, Covered, Mark
<1>19. Mine(p)'
  BY <1>3, <1>6, <1>12, <1>14, <1>15, <1>16, <1>17, <1>18 DEF Mine, Steps
<1> QED
  BY <1>6, <1>7, <1>8, <1>9, <1>10, <1>19, Assemble

\* An import or a fork exits with its commit.
LEMMA CommitStep ==
    ASSUME Inv, NEW p \in Procs, CommitImport(p) \/ CommitFork(p)
    PROVE  Inv'
<1>1. DbTypeOK' /\ DbInv' /\ ClaimsGrounded' /\ Grows
  BY ImportStep, ForkStep
<1>2. Leave(p) /\ UNCHANGED <<lines, started>> /\ pc[p] = "commit"
  BY DEF CommitImport, CommitFork, Committed
<1>3. writer = p
  BY <1>2 DEF Inv, TypeOK, LockOK, InTransaction
<1> QED
  BY <1>1, <1>2, <1>3, LeaveKeeps

\* A checkpoint is committed, and a fork goes on with it.
LEMMA CommitCheckpointStep ==
    ASSUME Inv, NEW p \in Procs, CommitCheckpoint(p)
    PROVE  Inv'
<1>1. DbTypeOK' /\ DbInv' /\ ClaimsGrounded' /\ Grows
  BY CheckpointStep
<1>2. /\ pc[p] = "ckptCommit" /\ writer' = None /\ UNCHANGED <<works, rows, lines, started>>
  BY DEF CommitCheckpoint
<1>3. writer = p /\ Mine(p)
  BY <1>2, MineFromInv DEF Inv, TypeOK, LockOK, InTransaction
<1>4. CASE job[p].cmd # "fork"
  <2>1. Leave(p)
    BY <1>2, <1>3, <1>4 DEF CommitCheckpoint, Leave
  <2> QED
    BY <1>1, <1>2, <1>3, <2>1, LeaveKeeps
<1>5. CASE job[p].cmd = "fork"
  <2>1. PICK w, n : w = job[p].work /\ n = Len(ckpts[w])
    OBVIOUS
  <2>2. PICK j : j = [job[p] EXCEPT !.ckpt = n + 1, !.pinned = Empty]
    OBVIOUS
  <2>3. pc' = [pc EXCEPT ![p] = "seed"] /\ job' = [job EXCEPT ![p] = j]
    <3>1. job = [q \in Procs |-> job[q]]
      BY DEF Inv, TypeOK, ProcTypeOK
    <3> QED
      BY <1>5, <2>1, <2>2, <3>1 DEF CommitCheckpoint
  <2>4. Moves(p) /\ pc'[p] = "seed" /\ job'[p] = j
    BY <2>3, UpdatesMove
  <2>5. /\ w \in WorkIds /\ w \in works /\ job[p].named = 0
    BY <1>2, <1>3, <1>5, <2>1 DEF Mine, JobOK
  <2>6. n \in Nat /\ n + 1 \in DOMAIN ckpts'[w] /\ 0 \in 0..Len(ckpts'[w])
    <3>1. ckpts[w] \in Seq(Checkpoint) /\ ckpts'[w] \in Seq(Checkpoint)
      BY <1>1, <2>5 DEF Inv, TypeOK, DbTypeOK
    <3>2. n \in Nat
      BY <2>1, <3>1, LenProperties
    <3>3. Len(ckpts'[w]) = n + 1
      <4>1. Len(ckpts'[job[p].work]) = Len(ckpts[job[p].work]) + 1
        BY CheckpointStep
      <4> QED
        BY <2>1, <4>1
    <3>4. DOMAIN ckpts'[w] = 1..(n + 1)
      BY <3>1, <3>3, LenProperties
    <3> QED
      BY <3>2, <3>3, <3>4
  <2>7. IsJob(j)
    <3>1. PICK e, m : e = Empty /\ m = n + 1
      OBVIOUS
    <3>2. IsJob(job[p]) /\ IsListing(e, EventIds) /\ m \in Nat
      BY <1>3, <2>6, <3>1, EmptyListing DEF Mine
    <3>3. j = [job[p] EXCEPT !.ckpt = m, !.pinned = e]
      BY <2>2, <3>1
    <3> QED
      BY <3>2, <3>3 DEF IsJob
  <2>8. /\ j.cmd = "fork" /\ j.work = w /\ j.named = 0
        /\ j.ckpt = n + 1 /\ j.seen = job[p].seen
    BY <1>3, <1>5, <2>1, <2>2, <2>5 DEF Mine, IsJob
  <2>9. JobOK(p)'
    BY <1>2, <2>4, <2>5, <2>6, <2>8 DEF JobOK, CommandAt, Selected
  <2>10. SeenOK(p)'
    BY <1>2, <1>3, <2>1, <2>4, <2>8 DEF Mine, SeenOK
  <2>11. PinnedOK(p)' /\ NamedOK(p)' /\ SeedOK(p)' /\ PinnedView(p)'
    BY <2>4, <2>8 DEF PinnedOK, InTransaction, NamedOK, SeedOK, PinnedView
  <2>12. Mine(p)'
    BY <2>4, <2>7, <2>9, <2>10, <2>11 DEF Mine, Steps
  <2>13. LockOK'
    <3>1. LockOK /\ \A q \in Procs \ {p} : pc'[q] = pc[q]
      BY <2>4 DEF Inv, TypeOK, Moves
    <3> QED
      BY <1>2, <1>3, <2>4, <3>1, StoreAssumption DEF LockOK, InTransaction
  <2>14. lines' = lines /\ started' \in 0..MaxCommands
    BY <1>2 DEF Inv, TypeOK
  <2> QED
    BY <1>1, <1>3, <2>4, <2>12, <2>13, <2>14, Assemble
<1> QED
  BY <1>4, <1>5
-----------------------------------------------------------------------------
(* The inductive invariant. *)

\* A harness that appends to its session file does not touch the store.
LEMMA RecordStep ==
    ASSUME Inv, NEW s \in Sessions, Record(s)
    PROVE  Inv'
<1>1. /\ works' = works /\ rows' = rows /\ execs' = execs /\ claims' = claims
      /\ ckpts' = ckpts /\ origin' = origin
      /\ writer' = writer /\ pc' = pc /\ job' = job /\ started' = started
  BY DEF Record, db
<1>2. DbTypeOK' /\ DbInv' /\ ClaimsGrounded'
  BY <1>1, DbUnchanged DEF Inv, TypeOK, ViewInv, db
<1>3. lines' \in [Sessions -> 0..MaxLines]
  BY ScriptAssumption DEF Record, Inv, TypeOK
<1>4. ProcTypeOK' /\ LockOK'
  BY <1>1 DEF Inv, TypeOK, ProcTypeOK, LockOK
<1>5. TypeOK'
  BY <1>1, <1>2, <1>3, <1>4 DEF Inv, TypeOK
<1>6. \A p \in Procs : JobOK(p)' /\ PinnedOK(p)'
  BY <1>1 DEF Inv, ProcInv, JobOK, PinnedOK
<1>7. \A p \in Procs : SeenOK(p)' /\ NamedOK(p)' /\ SeedOK(p)' /\ PinnedView(p)'
  BY <1>1 DEF Inv, ViewInv, SeenOK, NamedOK, SeedOK, PinnedView, Covered, Mark
<1> QED
  BY <1>2, <1>5, <1>6, <1>7 DEF Inv, ProcInv, ViewInv

\* Every step of a running command keeps the invariant.
LEMMA StepKeeps ==
    ASSUME Inv, NEW p \in Procs, Step(p)
    PROVE  Inv'
<1>1. CASE LoadRow(p) \/ LoadAbsent(p) \/ LoadEvents(p) \/ LoadClaims(p)
  BY <1>1, LoadRowStep, LoadAbsentStep, LoadEventsStep, LoadClaimsStep
<1>2. CASE \/ RejectUnknownWork(p) \/ RejectEmptyFork(p) \/ RejectUnknownCheckpoint(p)
           \/ RejectTakenChild(p) \/ Finish(p) \/ Busy(p)
  <2>1. Leave(p) /\ UNCHANGED <<lines, db, started>>
    BY <1>2 DEF RejectUnknownWork, RejectEmptyFork, RejectUnknownCheckpoint,
                RejectTakenChild, Reject, Finish, Busy
  <2> QED
    BY <2>1, LeaveStep
<1>3. CASE Pin(p)
  BY <1>3, PinStep
<1>4. CASE BeginWrite(p) \/ BeginCheckpoint(p)
  BY <1>4, BeginStep
<1>5. CASE CommitImport(p) \/ CommitFork(p)
  BY <1>5, CommitStep
<1>6. CASE LoadForCheckpoint(p)
  BY <1>6, LoadAbsentStep
<1>7. CASE CommitCheckpoint(p)
  BY <1>7, CommitCheckpointStep
<1>8. CASE SelectCheckpoint(p)
  BY <1>8, SelectCheckpointStep
<1>9. CASE \E c \in ForkIds : Seed(p, c)
  BY <1>9, SeedStep
<1> QED
  BY <1>1, <1>2, <1>3, <1>4, <1>5, <1>6, <1>7, <1>8, <1>9 DEF Step

\* The invariant holds of an empty store.
LEMMA InitInv == Init => Inv
<1> SUFFICES ASSUME Init
             PROVE  Inv
  OBVIOUS
<1>1. /\ works = {} /\ writer = None /\ started = 0
      /\ lines = [s \in Sessions |-> 0]
      /\ rows = [w \in WorkIds |-> Empty] /\ execs = [w \in WorkIds |-> Empty]
      /\ claims = [w \in WorkIds |-> NoClaims] /\ ckpts = [w \in WorkIds |-> <<>>]
      /\ origin = [w \in WorkIds |-> None]
      /\ pc = [p \in Procs |-> "idle"] /\ job = [p \in Procs |-> NoJob]
  BY DEF Init
<1>2. \A w \in WorkIds : ckpts[w] = <<>> /\ DOMAIN ckpts[w] = {} /\ ckpts[w] \in Seq(Checkpoint)
  BY <1>1
<1>3. DbTypeOK
  <2>1. claims \in [WorkIds -> ClaimsType]
    BY <1>1, NoClaimsGrounded
  <2>2. ckpts \in [WorkIds -> Seq(Checkpoint)]
    BY <1>1, <1>2
  <2> QED
    BY <1>1, <2>1, <2>2, EmptyListing DEF DbTypeOK
<1>4. DbInv
  <2>1. Unborn /\ OrdinalsUnique /\ ForkPrefix
    BY <1>1, EmptyListing DEF Unborn, OrdinalsUnique, ForkPrefix
  <2>2. MarksExact /\ CheckpointPinned
    BY <1>2 DEF MarksExact, CheckpointPinned
  <2> QED
    BY <2>1, <2>2 DEF DbInv
<1>5. ClaimsGrounded
  BY <1>1, <1>2, NoClaimsGrounded DEF ClaimsGrounded
<1>6. \A p \in Procs : Mine(p)
  <2> TAKE p \in Procs
  <2>1. pc[p] = "idle" /\ job[p] = NoJob
    BY <1>1
  <2>2. IsJob(NoJob)
    <3>1. MaxLines \in Nat
      BY ScriptAssumption
    <3> QED
      BY <3>1, NoClaimsGrounded, EmptyListing DEF IsJob, NoJob, Command
  <2>3. JobOK(p)
    <3>1. NoJob.cmd = None /\ None \notin Commands
      BY StoreAssumption DEF NoJob, Command
    <3> QED
      BY <2>1, <3>1 DEF JobOK, CommandAt, Selected, Commands
  <2>4. /\ PinnedOK(p) /\ SeenOK(p) /\ NamedOK(p) /\ SeedOK(p) /\ PinnedView(p)
    BY <2>1 DEF PinnedOK, InTransaction, SeenOK, NamedOK, SeedOK, PinnedView, Loaded
  <2> QED
    BY <2>1, <2>2, <2>3, <2>4 DEF Mine, Steps
<1>7. LockOK /\ ProcTypeOK
  BY <1>1, <1>6, StoreAssumption DEF LockOK, ProcTypeOK, Mine, InTransaction
<1>8. lines \in [Sessions -> 0..MaxLines] /\ started \in 0..MaxCommands
  BY <1>1, StoreAssumption, ScriptAssumption
<1> QED
  BY <1>3, <1>4, <1>5, <1>6, <1>7, <1>8 DEF Inv, TypeOK, ProcInv, ViewInv, Mine

\* The invariant is inductive.
LEMMA NextInv == Inv /\ [Next]_vars => Inv'
<1> SUFFICES ASSUME Inv, [Next]_vars
             PROVE  Inv'
  OBVIOUS
<1>1. ASSUME NEW s \in Sessions, Record(s)
      PROVE  Inv'
  BY <1>1, RecordStep
<1>2. ASSUME NEW p \in Procs, Invoke(p)
      PROVE  Inv'
  BY <1>2, InvokeStep
<1>3. ASSUME NEW p \in Procs, Step(p)
      PROVE  Inv'
  BY <1>3, StepKeeps
<1>4. ASSUME NEW p \in Procs, Fail(p)
      PROVE  Inv'
  BY <1>4, LeaveStep DEF Fail
<1>5. CASE UNCHANGED vars
  <2>1. /\ works' = works /\ rows' = rows /\ execs' = execs /\ claims' = claims
        /\ ckpts' = ckpts /\ origin' = origin /\ lines' = lines
        /\ writer' = writer /\ pc' = pc /\ job' = job /\ started' = started
    BY <1>5 DEF vars, db
  <2>2. DbTypeOK' /\ DbInv' /\ ClaimsGrounded'
    BY <2>1, DbUnchanged DEF Inv, TypeOK, ViewInv, db
  <2>3. TypeOK'
    BY <2>1, <2>2 DEF Inv, TypeOK, ProcTypeOK, LockOK
  <2>4. \A p \in Procs : JobOK(p)' /\ PinnedOK(p)'
    BY <2>1 DEF Inv, ProcInv, JobOK, PinnedOK
  <2>5. \A p \in Procs : SeenOK(p)' /\ NamedOK(p)' /\ SeedOK(p)' /\ PinnedView(p)'
    BY <2>1 DEF Inv, ViewInv, SeenOK, NamedOK, SeedOK, PinnedView, Covered, Mark
  <2> QED
    BY <2>2, <2>3, <2>4, <2>5 DEF Inv, ProcInv, ViewInv
<1> QED
  BY <1>1, <1>2, <1>3, <1>4, <1>5 DEF Next
-----------------------------------------------------------------------------
(* What holds of every behaviour of the store. *)

\* Inv is an invariant, whatever commands run and however they interleave or fail.
THEOREM Invariance == Spec => []Inv
BY InitInv, NextInv, PTL DEF Spec

\* Every variable keeps its type, and the write lock is held exactly inside a
\* transaction, by one process.
THEOREM TypeCorrect == Spec => []TypeOK
<1>1. Inv => TypeOK
  BY DEF Inv
<1> QED
  BY <1>1, Invariance, PTL

\* ORDER BY ordinal and ORDER BY rowid determine an order, although imports
\* load the events they number before they hold the write lock.
THEOREM OrdinalsStayUnique == Spec => []OrdinalsUnique
<1>1. Inv => OrdinalsUnique
  BY DEF Inv, DbInv
<1> QED
  BY <1>1, Invariance, PTL

\* A checkpoint counts, and derives its claims from, exactly the events that its
\* watermark covers, whatever is imported afterwards.
THEOREM CheckpointsStayPinned == Spec => []CheckpointPinned
<1>1. Inv => CheckpointPinned
  BY DEF Inv, DbInv
<1> QED
  BY <1>1, Invariance, PTL

\* A fork and its parent agree up to the watermark the fork was made at.
THEOREM ForksSharePrefix == Spec => []ForkPrefix
<1>1. Inv => ForkPrefix
  BY DEF Inv, DbInv
<1> QED
  BY <1>1, Invariance, PTL

\* No stored or frozen claim cites an event that its Work does not hold.
THEOREM ClaimsStayGrounded == Spec => []ClaimsGrounded
<1>1. Inv => ClaimsGrounded
  BY DEF Inv, ViewInv
<1> QED
  BY <1>1, Invariance, PTL

\* handoff --checkpoint is not torn by what commits between its reads.
THEOREM PinnedViewsExact == Spec => []PinnedViewExact
<1>1. Inv => PinnedViewExact
  BY DEF Inv, ViewInv, PinnedViewExact
<1> QED
  BY <1>1, Invariance, PTL
-----------------------------------------------------------------------------
(* What a step may never do. *)

\* Only commits write, and each kind of commit only what its statements say.
LEMMA OnlyCommitsWrite ==
    ASSUME [Next]_vars, \A p \in Procs : ~ CommitImport(p) /\ ~ CommitFork(p)
    PROVE  /\ UNCHANGED <<works, rows, execs, claims, origin>>
           /\ (\A p \in Procs : ~ CommitCheckpoint(p)) => UNCHANGED ckpts
<1>1. ASSUME NEW p \in Procs, Step(p), ~ CommitImport(p), ~ CommitFork(p), ~ CommitCheckpoint(p)
      PROVE  UNCHANGED db
  BY <1>1 DEF Step, LoadRow, LoadAbsent, LoadEvents, LoadClaims, Pin, Continue,
              LoadForCheckpoint, SelectCheckpoint, Seed, BeginWrite, BeginCheckpoint, Begin,
              RejectUnknownWork, RejectEmptyFork, RejectUnknownCheckpoint,
              RejectTakenChild, Reject, Finish, Busy
<1>2. ASSUME NEW p \in Procs, Invoke(p) \/ Fail(p)
      PROVE  UNCHANGED db
  BY <1>2 DEF Invoke, StartImport, StartCheckpoint, StartFork, StartHandoff, Start, Fail
<1>3. ASSUME NEW s \in Sessions, Record(s)
      PROVE  UNCHANGED db
  BY <1>3 DEF Record
<1>4. UNCHANGED vars => UNCHANGED db
  BY DEF vars, db
<1>5. ASSUME NEW p \in Procs, CommitCheckpoint(p)
      PROVE  UNCHANGED <<works, rows, execs, claims, origin>>
  BY <1>5 DEF CommitCheckpoint
<1>6. UNCHANGED db => UNCHANGED <<works, rows, execs, claims, origin>> /\ UNCHANGED ckpts
  BY DEF db
<1> QED
  BY <1>1, <1>2, <1>3, <1>4, <1>5, <1>6 DEF Next

\* Every step only adds to Works, events and checkpoints.
LEMMA NextGrows == Inv /\ [Next]_vars => Grows
<1> SUFFICES ASSUME Inv, [Next]_vars
             PROVE  Grows
  OBVIOUS
<1>1. ASSUME NEW p \in Procs, CommitImport(p) \/ CommitCheckpoint(p) \/ CommitFork(p)
      PROVE  Grows
  BY <1>1, ImportStep, CheckpointStep, ForkStep
<1>2. ASSUME \A p \in Procs : ~ (CommitImport(p) \/ CommitCheckpoint(p) \/ CommitFork(p))
      PROVE  Grows
  BY <1>2, OnlyCommitsWrite, GrowsReflexive DEF db
<1> QED
  BY <1>1, <1>2

\* No step takes back or moves an event, drops a checkpoint or a Work, or slips a
\* new event under a watermark.
THEOREM HistoryIsKept == Spec => HistoryKept
<1>1. Inv /\ [Next]_vars => [Grows]_vars
  BY NextGrows
<1> QED
  BY <1>1, Invariance, PTL DEF Spec, HistoryKept

\* A fork of a named checkpoint copies the events it derived its claims from: all that the
\* checkpoint covers was loaded at the start, and nothing new can come below its mark.
LEMMA NamedForkStep ==
    ASSUME Inv, NEW p \in Procs, CommitFork(p), job[p].named # 0
    PROVE  claims'[job[p].child] = Derive(rows'[job[p].child])
<1> DEFINE w == job[p].work
           c == job[p].child
           seen == job[p].seen
           covered == Covered(p)
<1>1. Mine(p) /\ pc[p] = "commit" /\ job[p].cmd = "fork"
  BY MineFromInv DEF CommitFork
<1>2. c \in WorkIds /\ w \in WorkIds /\ job[p].ckpt = job[p].named
  BY <1>1 DEF Mine, JobOK, Selected, WorkIds
<1>3. claims'[c] = Derive(seen) /\ rows'[c] = covered
  <2>1. /\ claims' = [claims EXCEPT ![c] = Derive(seen)]
        /\ rows' = [rows EXCEPT ![c] = covered]
    BY DEF CommitFork, ForkClaims, CopiedRows
  <2> QED
    BY <1>2, <2>1 DEF Inv, TypeOK, DbTypeOK
<1>4. IsListing(seen, EventIds) /\ \A e \in DOMAIN seen : e \in DOMAIN rows[w]
                                                          /\ rows[w][e] = seen[e]
  BY <1>1 DEF Mine, SeenOK, IsJob
<1>5. DOMAIN seen \subseteq DOMAIN covered
  BY <1>1 DEF Mine, SeedOK
<1>6. DOMAIN covered \subseteq DOMAIN seen
  BY <1>1, <1>2 DEF Mine, NamedOK, Loaded, Covered
<1>7. Only(seen, DOMAIN covered) = covered
  BY <1>4, <1>6, SeenBelow DEF Covered
<1>8. Only(seen, DOMAIN covered) = seen
  BY <1>4, <1>5 DEF Only, IsListing
<1> QED
  BY <1>3, <1>7, <1>8

\* A fork of a checkpoint the user names starts with the claims of its events,
\* although the parent was loaded, and the rows are copied, at other moments.
THEOREM NamedForksExact == Spec => NamedForkExact
<1> DEFINE Exact == \A p \in Procs : job[p].named # 0 =>
                      \A c \in ForkIds : Forked(c) /\ job[p].child = c /\ writer = p =>
                        claims'[c] = Derive(rows'[c])
<1>1. Inv /\ [Next]_vars => Exact
  <2> SUFFICES ASSUME Inv, [Next]_vars, NEW p \in Procs, job[p].named # 0,
                      NEW c \in ForkIds, Forked(c), job[p].child = c, writer = p
               PROVE  claims'[c] = Derive(rows'[c])
    OBVIOUS
  <2>1. c \in WorkIds /\ c \notin works /\ c \in works' /\ origin'[c] # None /\ origin[c] = None
    BY DEF Forked, WorkIds, Inv, DbInv, Unborn
  <2>2. ASSUME NEW q \in Procs, CommitImport(q)
        PROVE  origin' = origin
    BY <2>2 DEF CommitImport
  <2>3. PICK q \in Procs : CommitFork(q)
    BY <2>1, <2>2, OnlyCommitsWrite
  <2>4. writer = q
    BY <2>3 DEF CommitFork, Inv, TypeOK, LockOK, InTransaction
  <2> QED
    BY <2>3, <2>4, NamedForkStep
<1>2. Inv /\ [Next]_vars => [Exact]_vars
  BY <1>1
<1> QED
  BY <1>2, Invariance, PTL DEF Spec, NamedForkExact
-----------------------------------------------------------------------------
(* Events and executions. *)

\* Every step keeps the events of a Work within its executions.
LEMMA NextCovers == Inv /\ ExecutionsCover /\ [Next]_vars => ExecutionsCover'
<1> SUFFICES ASSUME Inv, ExecutionsCover, [Next]_vars
             PROVE  ExecutionsCover'
  OBVIOUS
<1>1. ASSUME NEW p \in Procs, CommitImport(p)
      PROVE  ExecutionsCover'
  <2>1. PICK w, s : w = job[p].work /\ s = job[p].session
    OBVIOUS
  <2>2. PICK r, x : r = ImportedRows(p) /\ x = AppendAll(execs[w], [y \in {s} |-> 0])
    OBVIOUS
  <2>3. /\ rows' = [rows EXCEPT ![w] = r] /\ execs' = [execs EXCEPT ![w] = x]
        /\ pc[p] = "commit" /\ job[p].cmd = "import"
    BY <1>1, <2>1, <2>2 DEF CommitImport
  <2>4. \A e \in DOMAIN r : e \in DOMAIN rows[w] \/ e[1] = s
    <3>1. DOMAIN NewRows(p) \subseteq DOMAIN Merged(p)
      BY DEF NewRows, Renumber
    <3>2. DOMAIN Merged(p) = DOMAIN job[p].seen \cup DOMAIN Observed(s, job[p].input)
      BY <2>1, AppendAllDomain DEF Merged
    <3>3. DOMAIN job[p].seen \subseteq DOMAIN rows[w]
      BY <2>1, <2>3, SeenListing
    <3>4. \A e \in DOMAIN Observed(s, job[p].input) : e[1] = s
      BY DEF Observed
    <3>5. DOMAIN r = DOMAIN rows[w] \cup DOMAIN NewRows(p)
      BY <2>1, <2>2 DEF ImportedRows, InsertOrIgnore
    <3> QED
      BY <3>1, <3>2, <3>3, <3>4, <3>5
  <2>5. DOMAIN x = DOMAIN execs[w] \cup {s}
    BY <2>2, AppendAllDomain
  <2>6. \A v \in WorkIds : rows'[v] = (IF v = w THEN r ELSE rows[v])
                          /\ execs'[v] = (IF v = w THEN x ELSE execs[v])
    BY <2>3 DEF Inv, TypeOK, DbTypeOK
  <2>7. w \in WorkIds
    BY <2>1, <2>3, SeenListing
  <2>8. {e[1] : e \in DOMAIN r} \subseteq DOMAIN x
    BY <2>4, <2>5, <2>7 DEF ExecutionsCover
  <2> QED
    BY <2>6, <2>8 DEF ExecutionsCover
<1>2. ASSUME NEW p \in Procs, CommitFork(p)
      PROVE  ExecutionsCover'
  <2>1. PICK w, c, r : w = job[p].work /\ c = job[p].child /\ r = Covered(p)
    OBVIOUS
  <2>2. PICK sessions, order : /\ sessions = CopiedSessions(p)
                               /\ DOMAIN order = sessions
                               /\ execs' = [execs EXCEPT ![c] = order]
    BY <1>2, <2>1 DEF CommitFork
  <2>3. rows' = [rows EXCEPT ![c] = r] /\ w \in WorkIds
    BY <1>2, <2>1, SeenListing DEF CommitFork, CopiedRows
  <2>4. {e[1] : e \in DOMAIN r} \subseteq {e[1] : e \in DOMAIN rows[w]}
    BY <2>1 DEF Covered, Below
  <2>5. {e[1] : e \in DOMAIN r} \subseteq sessions
    BY <2>1, <2>2, <2>3, <2>4 DEF ExecutionsCover, CopiedSessions
  <2>6. \A v \in WorkIds : rows'[v] = (IF v = c THEN r ELSE rows[v])
                          /\ execs'[v] = (IF v = c THEN order ELSE execs[v])
    BY <2>2, <2>3 DEF Inv, TypeOK, DbTypeOK
  <2> QED
    BY <2>2, <2>5, <2>6 DEF ExecutionsCover
<1>3. (\A p \in Procs : ~ CommitImport(p) /\ ~ CommitFork(p)) => rows' = rows /\ execs' = execs
  BY OnlyCommitsWrite
<1>4. rows' = rows /\ execs' = execs => ExecutionsCover'
  BY DEF ExecutionsCover
<1> QED
  BY <1>1, <1>2, <1>3, <1>4

\* Every event of a Work belongs to an execution of that Work, in a fork too.
THEOREM ExecutionsStayCovering == Spec => []ExecutionsCover
<1>1. Init => ExecutionsCover
  BY EmptyListing DEF Init, ExecutionsCover
<1> QED
  BY <1>1, NextCovers, Invariance, PTL DEF Spec
-----------------------------------------------------------------------------
(* What becomes of the events a process has loaded. *)

\* p does not move; if nobody else is there, nothing is written either.
Stays(p) == /\ pc'[p] = pc[p] /\ job'[p] = job[p]
            /\ UNCHANGED db \/ \E q \in Procs : q # p

Exits(p) == pc'[p] = "idle" /\ job'[p] = NoJob

Starts(p) == /\ job'[p].seen = Empty
             /\ \/ pc'[p] = "load"
                \/ pc'[p] = "ckptLoad" /\ job'[p].cmd = "checkpoint"

Reads(p) == /\ job'[p].cmd = job[p].cmd /\ job'[p].work = job[p].work
            /\ job'[p].seen = rows[job[p].work] /\ rows' = rows
            /\ pc'[p] # "load"
            /\ job[p].cmd = "fork" => pc'[p] = "select"

Seeds(p) == /\ pc[p] = "seed" /\ pc'[p] = "begin"
            /\ job[p].cmd = "fork" /\ job'[p].cmd = "fork" /\ job'[p].work = job[p].work
            /\ job'[p].ckpt = job[p].ckpt /\ job'[p].seen = SeedEvents(p)
            /\ rows' = rows /\ ckpts' = ckpts

GoesOn(p) ==
    /\ job'[p].cmd = job[p].cmd /\ job'[p].work = job[p].work /\ rows' = rows
    /\ \/ job[p].cmd = "handoff" /\ pc'[p] # "load"
       \/ /\ job'[p].seen = job[p].seen
          /\ \/ pc'[p] = "events"
             \/ pc[p] = "load" /\ pc'[p] = "begin" /\ job[p].work \notin works
                  /\ job[p].cmd = "import"
             \/ /\ pc[p] \in {"select", "ckptLoad", "ckptBegin", "ckptCommit"}
                /\ pc'[p] \in {"ckptLoad", "ckptBegin", "ckptCommit", "seed"}
                /\ job[p].cmd # "import"
             \/ /\ pc[p] = "begin" /\ pc'[p] = "commit"
                /\ job'[p].ckpt = job[p].ckpt /\ ckpts' = ckpts

Goes(p) == Stays(p) \/ Exits(p) \/ Starts(p) \/ Reads(p) \/ Seeds(p) \/ GoesOn(p)

\* A step of p, seen from what p has loaded.
LEMMA StepGoes == ASSUME Inv, NEW p \in Procs, Step(p) PROVE Goes(p)
<1> USE DEF Goes
<1>1. PICK j : j = job[p]
  OBVIOUS
<1>2. IsJob(j) /\ JobOK(p)
  BY <1>1, MineFromInv DEF Mine
<1>3. /\ pc \in [Procs -> Steps] /\ job = [q \in Procs |-> job[q]]
      /\ \A next : pc' = [pc EXCEPT ![p] = next] => pc'[p] = next
      /\ \A k : job' = [job EXCEPT ![p] = k] => job'[p] = k
  BY DEF Inv, TypeOK, ProcTypeOK
<1>4. UNCHANGED db => rows' = rows /\ ckpts' = ckpts
  BY DEF db
<1>5. ASSUME Leave(p) PROVE Exits(p)
  BY <1>3, <1>5 DEF Leave, Exits
<1>6. CASE LoadRow(p)
  <2>1. job'[p] = [j EXCEPT !.claims.goal = claims[j.work].goal] /\ pc'[p] = "events"
    BY <1>1, <1>3, <1>6 DEF LoadRow, Continue
  <2>2. job'[p].cmd = j.cmd /\ job'[p].work = j.work /\ job'[p].seen = j.seen
    BY <1>2, <2>1 DEF IsJob
  <2> QED
    BY <1>1, <1>4, <1>6, <2>1, <2>2 DEF LoadRow, Continue, GoesOn
<1>7. CASE LoadAbsent(p) \/ LoadForCheckpoint(p)
  <2>1. job'[p] = job[p] /\ CASE LoadAbsent(p) -> pc'[p] = "begin"
                              [] OTHER -> pc'[p] = "ckptBegin"
    BY <1>3, <1>7 DEF LoadAbsent, LoadForCheckpoint, Continue
  <2>2. pc[p] = "ckptLoad" => job[p].cmd # "import"
    BY <1>2 DEF JobOK, CommandAt
  <2> QED
    BY <1>4, <1>7, <2>1, <2>2 DEF LoadAbsent, LoadForCheckpoint, Continue, GoesOn
<1>8. CASE LoadEvents(p)
  <2>1. PICK next : /\ next = CASE j.cmd = "import" -> "begin"
                                [] j.cmd = "fork" -> "select"
                                [] j.cmd = "handoff" -> "claims"
                    /\ job' = [job EXCEPT ![p] = [j EXCEPT !.seen = rows[j.work]]]
                    /\ Continue(p, next) /\ pc[p] = "events"
    BY <1>1, <1>8 DEF LoadEvents
  <2>2. pc'[p] = next /\ job'[p] = [j EXCEPT !.seen = rows[j.work]]
    BY <1>3, <2>1 DEF Continue
  <2>3. job'[p].cmd = j.cmd /\ job'[p].work = j.work /\ job'[p].seen = rows[j.work]
    BY <1>2, <2>2 DEF IsJob
  <2>4. j.cmd \in {"import", "fork", "handoff"}
    BY <1>1, <1>2, <2>1 DEF JobOK, CommandAt
  <2>5. next # "load" /\ (j.cmd = "fork" => next = "select")
    BY <2>1, <2>4
  <2> QED
    BY <1>1, <1>4, <2>1, <2>2, <2>3, <2>5 DEF Continue, Reads
<1>9. CASE LoadClaims(p) \/ Pin(p)
  <2>1. j.cmd = "handoff"
    BY <1>1, <1>2, <1>9 DEF JobOK, CommandAt, LoadClaims, Pin
  <2>2. pc'[p] \in {"shown", "pin"} /\ rows' = rows
    BY <1>3, <1>4, <1>9 DEF LoadClaims, Pin, Continue
  <2>3. job'[p].cmd = j.cmd /\ job'[p].work = j.work
    <3>1. CASE LoadClaims(p)
      <4>1. PICK c : job' = [job EXCEPT ![p] = [j EXCEPT !.claims = c]]
        BY <1>1, <3>1 DEF LoadClaims
      <4>2. job'[p] = [j EXCEPT !.claims = c]
        BY <1>3, <4>1
      <4> QED
        BY <1>2, <4>2 DEF IsJob
    <3>2. CASE Pin(p)
      <4>1. PICK s, c : job' = [job EXCEPT ![p] = [[j EXCEPT !.seen = s] EXCEPT !.claims = c]]
        BY <1>1, <3>2 DEF Pin
      <4>2. job'[p] = [[j EXCEPT !.seen = s] EXCEPT !.claims = c]
        BY <1>3, <4>1
      <4> QED
        BY <1>2, <4>2 DEF IsJob
    <3> QED
      BY <1>9, <3>1, <3>2
  <2> QED
    BY <1>1, <2>1, <2>2, <2>3 DEF GoesOn
<1>10. CASE BeginWrite(p) \/ BeginCheckpoint(p)
  <2>1. /\ job' = [job EXCEPT ![p] = [j EXCEPT !.pinned = rows[j.work]]] /\ UNCHANGED db
        /\ \/ pc[p] = "begin" /\ pc' = [pc EXCEPT ![p] = "commit"]
           \/ pc[p] = "ckptBegin" /\ pc' = [pc EXCEPT ![p] = "ckptCommit"]
    BY <1>1, <1>10 DEF BeginWrite, BeginCheckpoint, Begin
  <2>2. job'[p] = [j EXCEPT !.pinned = rows[j.work]]
    BY <1>3, <2>1
  <2>3. /\ job'[p].cmd = j.cmd /\ job'[p].work = j.work /\ job'[p].seen = j.seen
        /\ job'[p].ckpt = j.ckpt
    BY <1>2, <2>2 DEF IsJob
  <2>4. pc[p] = "ckptBegin" => j.cmd # "import"
    BY <1>1, <1>2 DEF JobOK, CommandAt
  <2> QED
    BY <1>1, <1>3, <1>4, <2>1, <2>3, <2>4 DEF GoesOn
<1>11. CASE CommitCheckpoint(p)
  <2>1. CASE j.cmd = "fork"
    <3>1. PICK k : /\ job' = [job EXCEPT ![p] = [[j EXCEPT !.ckpt = k] EXCEPT !.pinned = Empty]]
                   /\ pc' = [pc EXCEPT ![p] = "seed"] /\ pc[p] = "ckptCommit" /\ rows' = rows
      BY <1>1, <1>11, <2>1 DEF CommitCheckpoint
    <3>2. job'[p] = [[j EXCEPT !.ckpt = k] EXCEPT !.pinned = Empty] /\ pc'[p] = "seed"
      BY <1>3, <3>1
    <3>3. job'[p].cmd = j.cmd /\ job'[p].work = j.work /\ job'[p].seen = j.seen
      BY <1>2, <3>2 DEF IsJob
    <3> QED
      BY <1>1, <2>1, <3>1, <3>2, <3>3 DEF GoesOn
  <2>2. CASE j.cmd # "fork"
    BY <1>1, <1>3, <1>11, <2>2 DEF CommitCheckpoint, Exits
  <2> QED
    BY <2>1, <2>2
<1>12. CASE SelectCheckpoint(p)
  <2>1. PICK k : /\ job' = [job EXCEPT ![p] = [j EXCEPT !.ckpt = k]]
                 /\ Continue(p, IF k = 0 THEN "ckptLoad" ELSE "seed") /\ pc[p] = "select"
    BY <1>1, <1>12 DEF SelectCheckpoint
  <2>2. job'[p] = [j EXCEPT !.ckpt = k] /\ pc'[p] \in {"ckptLoad", "seed"} /\ rows' = rows
    BY <1>3, <1>4, <2>1 DEF Continue
  <2>3. job'[p].cmd = j.cmd /\ job'[p].work = j.work /\ job'[p].seen = j.seen
    BY <1>2, <2>2 DEF IsJob
  <2>4. j.cmd = "fork"
    BY <1>1, <1>2, <2>1 DEF JobOK, CommandAt
  <2> QED
    BY <1>1, <2>1, <2>2, <2>3, <2>4 DEF GoesOn
<1>13. ASSUME NEW c \in ForkIds, Seed(p, c) PROVE Goes(p)
  <2>1. PICK s : s = SeedEvents(p)
    OBVIOUS
  <2>2. /\ job' = [job EXCEPT ![p] = [[j EXCEPT !.child = c] EXCEPT !.seen = s]]
        /\ Continue(p, "begin") /\ pc[p] = "seed"
    BY <1>1, <1>13, <2>1 DEF Seed
  <2>3. job'[p] = [[j EXCEPT !.child = c] EXCEPT !.seen = s] /\ pc'[p] = "begin"
    BY <1>3, <2>2 DEF Continue
  <2>4. /\ job'[p].cmd = j.cmd /\ job'[p].work = j.work /\ job'[p].seen = s
        /\ job'[p].ckpt = j.ckpt
    BY <1>2, <2>3 DEF IsJob
  <2>5. j.cmd = "fork"
    BY <1>1, <1>2, <2>2 DEF JobOK, CommandAt
  <2> QED
    BY <1>1, <1>4, <2>1, <2>2, <2>3, <2>4, <2>5 DEF Continue, Seeds
<1>14. CASE \/ RejectUnknownWork(p) \/ RejectEmptyFork(p) \/ RejectUnknownCheckpoint(p)
            \/ RejectTakenChild(p) \/ Busy(p) \/ Finish(p) \/ CommitImport(p) \/ CommitFork(p)
  <2>1. Leave(p)
    BY <1>14 DEF RejectUnknownWork, RejectEmptyFork, RejectUnknownCheckpoint, RejectTakenChild,
                 Reject, Busy, Finish, CommitImport, CommitFork, Committed
  <2> QED
    BY <1>5, <2>1
<1> QED
  BY <1>6, <1>7, <1>8, <1>9, <1>10, <1>11, <1>12, <1>13, <1>14 DEF Step

\* Any step, seen from what p has loaded.
LEMMA NextGoes == ASSUME Inv, [Next]_vars, NEW p \in Procs PROVE Goes(p)
<1> USE DEF Goes
<1>1. job = [q \in Procs |-> job[q]] /\ pc \in [Procs -> Steps]
  BY DEF Inv, TypeOK, ProcTypeOK
<1>2. ASSUME NEW q \in Procs, Step(q) \/ Invoke(q) \/ Fail(q), q # p
      PROVE  Stays(p)
  BY <1>1, <1>2 DEF Stays, Invoke, StartImport, StartCheckpoint, StartFork, StartHandoff, Start,
     Fail, Leave, Step, LoadRow, LoadAbsent, LoadEvents, LoadClaims, Pin, Continue,
     LoadForCheckpoint, SelectCheckpoint, Seed, BeginWrite, BeginCheckpoint, Begin,
     RejectUnknownWork, RejectEmptyFork, RejectUnknownCheckpoint, RejectTakenChild, Reject,
     Finish, Busy, CommitImport, CommitFork, CommitCheckpoint, Committed
<1>3. ASSUME Fail(p) PROVE Exits(p)
  BY <1>1, <1>3 DEF Fail, Leave, Exits
<1>4. ASSUME Invoke(p) PROVE Starts(p)
  <2>1. ASSUME NEW w, NEW s, NEW n, NEW attach, NEW k, NEW cmd, Start(p, "load"),
               job' = [job EXCEPT ![p] = Command(cmd, w, s, n, attach, k)]
        PROVE  Starts(p)
    <3>1. PICK c : c = Command(cmd, w, s, n, attach, k)
      OBVIOUS
    <3>2. job'[p] = c /\ pc'[p] = "load"
      BY <1>1, <2>1, <3>1 DEF Start
    <3>3. c.seen = Empty
      BY <3>1 DEF Command
    <3> QED
      BY <3>2, <3>3 DEF Starts
  <2>2. ASSUME NEW s \in Sessions, NEW w \in WorkIds, NEW attach \in BOOLEAN,
               StartImport(p, s, w, attach)
        PROVE  Starts(p)
    BY <2>1, <2>2 DEF StartImport
  <2>3. ASSUME NEW w \in WorkIds, StartCheckpoint(p, w) PROVE Starts(p)
    BY <1>1, <2>3 DEF StartCheckpoint, Start, Starts, Command
  <2>4. ASSUME NEW w \in WorkIds, NEW k, StartFork(p, w, k) PROVE Starts(p)
    BY <2>1, <2>4 DEF StartFork
  <2>5. ASSUME NEW w \in WorkIds, NEW k, StartHandoff(p, w, k) PROVE Starts(p)
    BY <2>1, <2>5 DEF StartHandoff
  <2> QED
    BY <1>4, <2>2, <2>3, <2>4, <2>5 DEF Invoke
<1>5. ASSUME NEW s \in Sessions, Record(s) PROVE Stays(p)
  BY <1>5 DEF Record, Stays
<1>6. ASSUME UNCHANGED vars PROVE Stays(p)
  BY <1>6 DEF vars, db, Stays
<1> QED
  BY <1>2, <1>3, <1>4, <1>5, <1>6, StepGoes DEF Next
-----------------------------------------------------------------------------
(* The order of events. *)

\* A session file is read from its first line on.
LEMMA ObservedInOrder ==
    ASSUME NEW s \in Sessions, NEW n \in 0..MaxLines
    PROVE  InOrder(Observed(s, n))
<1>1. MaxLines \in Nat
  BY ScriptAssumption
<1>2. /\ DOMAIN Observed(s, n) = {s} \X (1..n)
      /\ \A i \in 1..n : <<s, i>> \in {s} \X (1..n) /\ Observed(s, n)[<<s, i>>] = i - 1
  BY DEF Observed
<1>3. \A i \in 1..n : \A k \in 1..(i - 1) : k \in 1..n /\ k - 1 < i - 1
  BY <1>1
<1>4. \A e \in {s} \X (1..n) : \E i \in 1..n : e = <<s, i>>
  OBVIOUS
<1> QED
  BY <1>2, <1>3, <1>4 DEF InOrder

\* Lists that are in order give one when the one is appended to the other.
LEMMA AppendAllInOrder ==
    ASSUME NEW l, IsListing(l, EventIds), InOrder(l),
           NEW more, IsListing(more, EventIds), InOrder(more)
    PROVE  InOrder(AppendAll(l, more))
<1>1. PICK r : r = AppendAll(l, more)
  OBVIOUS
<1>2. /\ DOMAIN r = DOMAIN l \cup DOMAIN more
      /\ \A e \in DOMAIN l : r[e] = l[e]
      /\ \A e \in DOMAIN more \ DOMAIN l : \A d \in DOMAIN l : r[d] < r[e]
      /\ \A d, e \in DOMAIN more \ DOMAIN l : more[d] < more[e] => r[d] < r[e]
  <2>1. DOMAIN r = DOMAIN l \cup DOMAIN more
    BY <1>1, AppendAllDomain
  <2>2. \A e \in DOMAIN l : r[e] = l[e]
    BY <1>1, EventsFinite, AppendAllProps
  <2>3. /\ \A e \in DOMAIN more \ DOMAIN l : \A d \in DOMAIN l : r[d] < r[e]
        /\ \A d, e \in DOMAIN more \ DOMAIN l : more[d] < more[e] => r[d] < r[e]
    BY <1>1, EventsFinite, AppendAllOrder
  <2> QED
    BY <2>1, <2>2, <2>3
<1>3. ASSUME NEW e \in DOMAIN r, NEW n \in 1..(e[2] - 1)
      PROVE  <<e[1], n>> \in DOMAIN r /\ r[<<e[1], n>>] < r[e]
  <2>1. PICK d : d = <<e[1], n>>
    OBVIOUS
  <2>2. CASE e \in DOMAIN l
    <3>1. d \in DOMAIN l /\ l[d] < l[e]
      BY <2>1, <2>2 DEF InOrder
    <3> QED
      BY <1>2, <2>1, <2>2, <3>1
  <2>3. CASE e \in DOMAIN more \ DOMAIN l
    <3>1. d \in DOMAIN more /\ more[d] < more[e]
      BY <2>1, <2>3 DEF InOrder
    <3> QED
      BY <1>2, <2>1, <2>3, <3>1
  <2> QED
    BY <1>2, <2>2, <2>3
<1>4. InOrder(r)
  BY <1>3 DEF InOrder
<1> QED
  BY <1>1, <1>4

\* A list in order is in order up to any bound.
LEMMA BelowInOrder ==
    ASSUME NEW l, IsListing(l, EventIds), InOrder(l), NEW bound \in Nat
    PROVE  InOrder(Below(l, bound))
<1>1. PICK r : r = Below(l, bound)
  OBVIOUS
<1>2. /\ \A e : e \in DOMAIN r <=> e \in DOMAIN l /\ l[e] < bound
      /\ \A e \in DOMAIN r : r[e] = l[e]
  BY <1>1, BelowProps
<1>3. \A e \in DOMAIN l : l[e] \in Nat
  BY DEF IsListing
<1>4. ASSUME NEW e \in DOMAIN r, NEW n \in 1..(e[2] - 1)
      PROVE  <<e[1], n>> \in DOMAIN r /\ r[<<e[1], n>>] < r[e]
  <2>1. PICK d : d = <<e[1], n>>
    OBVIOUS
  <2>2. d \in DOMAIN l /\ l[d] < l[e] /\ l[e] < bound
    BY <1>2, <1>4, <2>1 DEF InOrder
  <2> QED
    BY <1>2, <1>3, <1>4, <2>1, <2>2
<1>5. InOrder(r)
  BY <1>4 DEF InOrder
<1> QED
  BY <1>1, <1>5

\* What a fork writes: rows of a Work up to a watermark.
LEMMA CopiedIsBelow ==
    ASSUME Inv, NEW p \in Procs, CommitFork(p)
    PROVE  /\ job[p].work \in WorkIds /\ job[p].child \in WorkIds
           /\ rows' = [rows EXCEPT ![job[p].child] =
                         Below(rows[job[p].work], Mark(job[p].work, job[p].ckpt))]
           /\ IsListing(rows[job[p].work], EventIds)
           /\ Mark(job[p].work, job[p].ckpt) \in Nat
           /\ job[p].ckpt \in DOMAIN ckpts[job[p].work]
<1>1. pc[p] = "commit" /\ job[p].cmd = "fork" /\ JobOK(p) /\ DbTypeOK
  BY DEF CommitFork, Inv, ProcInv, TypeOK
<1>2. /\ job[p].work \in WorkIds /\ job[p].child \in WorkIds
      /\ job[p].ckpt \in DOMAIN ckpts[job[p].work]
  BY <1>1 DEF JobOK, Selected, WorkIds
<1>3. IsListing(rows[job[p].work], EventIds) /\ Mark(job[p].work, job[p].ckpt) \in Nat
  BY <1>1, <1>2, MarkInWork DEF DbTypeOK, Inv, DbInv
<1>4. rows' = [rows EXCEPT ![job[p].child] =
                 Below(rows[job[p].work], Mark(job[p].work, job[p].ckpt))]
  BY DEF CommitFork, CopiedRows, Covered
<1> QED
  BY <1>2, <1>3, <1>4

\* Every step keeps the order of events.
LEMMA NextOrder == Inv /\ OrderInv /\ [Next]_vars => OrderInv'
<1> SUFFICES ASSUME Inv, OrderInv, [Next]_vars
             PROVE  OrderInv'
  OBVIOUS
<1>1. NoGaps /\ SessionOrder /\ SeenInOrder /\ rows = [v \in WorkIds |-> rows[v]]
  BY DEF OrderInv, Inv, TypeOK, DbTypeOK
<1>2. ASSUME NEW p \in Procs, CommitImport(p)
      PROVE  NoGaps' /\ SessionOrder'
  <2>1. PICK w, l, m : w = job[p].work /\ l = rows[w] /\ m = Merged(p)
    OBVIOUS
  <2>2. pc[p] = "commit" /\ job[p].cmd = "import"
    BY <1>2 DEF CommitImport
  <2>3. PICK s, n : s = job[p].session /\ n = job[p].input
    OBVIOUS
  <2>4. /\ ImportedRows(p) = AppendAll(l, m)
        /\ w \in WorkIds /\ s \in Sessions /\ n \in 0..MaxLines
        /\ IsListing(l, EventIds) /\ Distinct(l)
        /\ IsListing(job[p].seen, EventIds)
        /\ IsListing(m, EventIds) /\ Distinct(m)
    BY <2>1, <2>2, <2>3, ImportedIsAppended
  <2>5. InOrder(job[p].seen) /\ InOrder(Observed(s, n)) /\ IsListing(Observed(s, n), EventIds)
    BY <1>1, <2>2, <2>4, ObservedInOrder, ObservedListing DEF SeenInOrder
  <2>6. InOrder(m)
    BY <2>1, <2>3, <2>4, <2>5, AppendAllInOrder DEF Merged
  <2>7. Dense(l) /\ InOrder(l)
    BY <1>1, <2>1, <2>4 DEF NoGaps, SessionOrder
  <2>8. InOrder(AppendAll(l, m)) /\ Dense(AppendAll(l, m))
    BY <2>4, <2>6, <2>7, EventsFinite, AppendAllInOrder, AppendAllDense
  <2>9. rows' = [rows EXCEPT ![w] = AppendAll(l, m)]
    BY <1>2, <2>1, <2>4 DEF CommitImport
  <2>10. \A v \in WorkIds : rows'[v] = IF v = w THEN AppendAll(l, m) ELSE rows[v]
    BY <1>1, <2>9
  <2> QED
    BY <1>1, <2>8, <2>10 DEF NoGaps, SessionOrder
<1>3. ASSUME NEW p \in Procs, CommitFork(p)
      PROVE  NoGaps' /\ SessionOrder'
  <2>1. PICK w, c, l, b : /\ w = job[p].work /\ c = job[p].child /\ l = rows[w]
                          /\ b = Mark(w, job[p].ckpt)
    OBVIOUS
  <2>2. /\ w \in WorkIds /\ IsListing(l, EventIds) /\ b \in Nat
        /\ rows' = [rows EXCEPT ![c] = Below(l, b)]
    BY <1>3, <2>1, CopiedIsBelow
  <2>3. InOrder(Below(l, b)) /\ Dense(Below(l, b))
    <3>1. InOrder(l) /\ Dense(l)
      BY <1>1, <2>1, <2>2 DEF NoGaps, SessionOrder
    <3> QED
      BY <2>2, <3>1, BelowInOrder, BelowDense
  <2>4. \A v \in WorkIds : rows'[v] = IF v = c THEN Below(l, b) ELSE rows[v]
    BY <1>1, <2>2
  <2> QED
    BY <1>1, <2>3, <2>4 DEF NoGaps, SessionOrder
<1>4. ASSUME \A p \in Procs : ~ CommitImport(p) /\ ~ CommitFork(p)
      PROVE  NoGaps' /\ SessionOrder'
  <2>1. rows' = rows
    BY <1>4, OnlyCommitsWrite
  <2> QED
    BY <1>1, <2>1 DEF NoGaps, SessionOrder
<1>5. SeenInOrder'
  <2> SUFFICES ASSUME NEW p \in Procs, job'[p].cmd = "import"
               PROVE  InOrder(job'[p].seen)
    BY DEF SeenInOrder
  <2>1. Goes(p)
    BY NextGoes
  <2>2. ASSUME job'[p].cmd = job[p].cmd, job'[p].seen = job[p].seen
        PROVE  InOrder(job'[p].seen)
    BY <1>1, <2>2 DEF SeenInOrder
  <2>3. CASE Stays(p) \/ GoesOn(p)
    BY <2>2, <2>3 DEF Stays, GoesOn
  <2>4. CASE Starts(p)
    BY <2>4, EmptyListing DEF Starts, InOrder
  <2>5. CASE Reads(p)
    <3>1. job[p].work \in WorkIds
      BY <2>5, MineFromInv, StoreAssumption DEF Reads, Mine, JobOK, CommandAt, Commands
    <3> QED
      BY <1>1, <2>5, <3>1 DEF Reads, SessionOrder
  <2>6. ~ Exits(p)
    BY StoreAssumption DEF Exits, NoJob, Command, Commands
  <2> QED
    BY <2>1, <2>3, <2>4, <2>5, <2>6 DEF Goes, Seeds
<1> QED
  BY <1>2, <1>3, <1>4, <1>5 DEF OrderInv

\* Inv and OrderInv together are inductive.
THEOREM OrderInvariance == Spec => []OrderInv
<1>1. ASSUME Init PROVE OrderInv
  <2>1. DOMAIN Empty = {} /\ NoJob.cmd # "import"
    BY EmptyListing, StoreAssumption DEF NoJob, Command, Commands
  <2>2. NoGaps /\ SessionOrder
    BY <1>1, <2>1 DEF Init, NoGaps, Dense, SessionOrder, InOrder
  <2>3. SeenInOrder
    BY <1>1, <2>1 DEF Init, SeenInOrder
  <2> QED
    BY <2>2, <2>3 DEF OrderInv
<1> QED
  BY <1>1, NextOrder, Invariance, PTL DEF Spec

\* In every Work, a fork or one that several sessions were attached to, the events
\* of a session are the first lines of its file, in the order of the file, although
\* imports of several sessions and of the same one overlap.
THEOREM SessionsStayInOrder == Spec => []SessionOrder
<1>1. OrderInv => SessionOrder
  BY DEF OrderInv
<1> QED
  BY <1>1, OrderInvariance, PTL
-----------------------------------------------------------------------------
(* Commands that run one at a time. *)

\* Nothing derives from no events.
LEMMA DeriveEmpty == Derive(Empty) = NoClaims
<1>1. DOMAIN Empty = {}
  BY DEF Empty
<1> QED
  BY <1>1 DEF Derive, NoClaims, Goal, Findings, NextSteps, Operations, OfRole

\* The events that a fork derives its claims from are those that it will copy.
LEMMA SeededIsCovered ==
    ASSUME Inv, NEW p \in Procs, job[p].seen = rows[job[p].work]
    PROVE  SeedEvents(p) = Covered(p)
<1>1. DOMAIN Covered(p) \subseteq DOMAIN rows[job[p].work]
  BY DEF Covered, Below
<1>2. \A e \in DOMAIN Covered(p) : Covered(p)[e] = rows[job[p].work][e]
  BY DEF Covered, Below
<1>3. Covered(p) = [e \in DOMAIN Covered(p) |-> Covered(p)[e]]
  BY DEF Covered, Below
<1> QED
  BY <1>1, <1>2, <1>3 DEF SeedEvents, Only

\* What a command that is alone has loaded stays what the store holds.
LEMMA NextCurrent ==
    ASSUME OneAtATime, Inv, [Next]_vars, NEW p \in Procs, SeenCurrent(p)
    PROVE  SeenCurrent(p)'
<1>1. Goes(p)
  BY NextGoes
<1>2. JobOK(p) /\ IsJob(job[p])
  BY MineFromInv DEF Mine
<1>3. CASE Stays(p)
  <2>1. UNCHANGED db
    BY <1>3 DEF Stays, OneAtATime
  <2> QED
    BY <1>3, <2>1 DEF Stays, SeenCurrent, Covered, Mark, db
<1>4. CASE Exits(p) \/ Starts(p)
  BY <1>4 DEF Exits, Starts, SeenCurrent
<1>5. CASE Reads(p)
  BY <1>5 DEF Reads, SeenCurrent
<1>6. CASE Seeds(p)
  <2>1. SeedEvents(p) = Covered(p)
    BY <1>6, SeededIsCovered DEF Seeds, SeenCurrent
  <2>2. Covered(p)' = Covered(p)
    BY <1>6 DEF Seeds, Covered, Mark
  <2> QED
    BY <1>6, <2>1, <2>2 DEF Seeds, SeenCurrent
<1>7. CASE GoesOn(p)
  <2>1. pc[p] = "load" /\ job[p].work \notin works /\ job[p].cmd = "import"
          => rows[job[p].work] = Empty
    BY <1>2 DEF JobOK, Inv, DbInv, Unborn
  <2>2. pc[p] = "begin" /\ job'[p].ckpt = job[p].ckpt /\ ckpts' = ckpts => Covered(p)' = Covered(p)
    BY <1>7 DEF GoesOn, Covered, Mark
  <2> QED
    BY <1>7, <2>1, <2>2 DEF GoesOn, SeenCurrent
<1> QED
  BY <1>1, <1>3, <1>4, <1>5, <1>6, <1>7 DEF Goes

\* Alone, an import derives the claims from the rows that it leaves,
LEMMA ImportAlone ==
    ASSUME Inv, NEW p \in Procs, SeenCurrent(p), CommitImport(p)
    PROVE  /\ job[p].work \in WorkIds
           /\ claims' = [claims EXCEPT ![job[p].work] = Derive(Merged(p))]
           /\ rows' = [rows EXCEPT ![job[p].work] = Merged(p)]
           /\ Merged(p) = AppendAll(rows[job[p].work], Observed(job[p].session, job[p].input))
<1>1. PICK w, s, n : w = job[p].work /\ s = job[p].session /\ n = job[p].input
  OBVIOUS
<1>2. pc[p] = "commit" /\ job[p].cmd = "import"
  BY DEF CommitImport
<1>3. /\ ImportedRows(p) = AppendAll(rows[w], Merged(p))
      /\ w \in WorkIds /\ s \in Sessions /\ n \in 0..MaxLines
      /\ IsListing(rows[w], EventIds)
  BY <1>1, <1>2, ImportedIsAppended
<1>4. Merged(p) = AppendAll(rows[w], Observed(s, n))
  BY <1>1, <1>2 DEF Merged, SeenCurrent
<1>5. AppendAll(rows[w], Merged(p)) = Merged(p)
  BY <1>3, <1>4, EventsFinite, ObservedListing, AppendAllTwice
<1> QED
  BY <1>1, <1>3, <1>4, <1>5 DEF CommitImport, ImportClaims

\* and a fork those from the rows that it copies.
LEMMA ForkAlone ==
    ASSUME Inv, NEW p \in Procs, SeenCurrent(p), CommitFork(p)
    PROVE  /\ job[p].child \in WorkIds /\ job[p].work \in WorkIds
           /\ job[p].ckpt \in DOMAIN ckpts[job[p].work]
           /\ claims' = [claims EXCEPT ![job[p].child] = Derive(Covered(p))]
           /\ rows' = [rows EXCEPT ![job[p].child] = Covered(p)]
<1>1. job[p].seen = Covered(p)
  BY DEF CommitFork, SeenCurrent
<1> QED
  BY <1>1, CopiedIsBelow DEF CommitFork, ForkClaims, CopiedRows

\* Every step of a command that is alone keeps the stored claims current.
LEMMA NextAlone == OneAtATime /\ Inv /\ AloneInv /\ [Next]_vars => AloneInv'
<1> SUFFICES ASSUME OneAtATime, Inv, AloneInv, [Next]_vars
             PROVE  AloneInv'
  OBVIOUS
<1>1. \A p \in Procs : SeenCurrent(p) /\ SeenCurrent(p)'
  BY NextCurrent DEF AloneInv
<1>2. /\ rows = [w \in WorkIds |-> rows[w]] /\ claims = [w \in WorkIds |-> claims[w]]
      /\ \A w \in WorkIds : claims[w] = Derive(rows[w])
  BY DEF AloneInv, ClaimsCurrent, Inv, TypeOK, DbTypeOK
<1>3. ASSUME NEW w \in WorkIds, NEW l, rows' = [rows EXCEPT ![w] = l],
             claims' = [claims EXCEPT ![w] = Derive(l)]
      PROVE  ClaimsCurrent'
  <2>1. \A v \in WorkIds : /\ rows'[v] = IF v = w THEN l ELSE rows[v]
                           /\ claims'[v] = IF v = w THEN Derive(l) ELSE claims[v]
    BY <1>2, <1>3
  <2> QED
    BY <1>2, <2>1 DEF ClaimsCurrent
<1>4. ASSUME NEW p \in Procs, CommitImport(p) \/ CommitFork(p)
      PROVE  ClaimsCurrent'
  BY <1>1, <1>3, <1>4, ImportAlone, ForkAlone
<1>5. ASSUME \A p \in Procs : ~ CommitImport(p) /\ ~ CommitFork(p)
      PROVE  ClaimsCurrent'
  <2>1. rows' = rows /\ claims' = claims
    BY <1>5, OnlyCommitsWrite
  <2> QED
    BY <1>2, <2>1 DEF ClaimsCurrent
<1> QED
  BY <1>1, <1>4, <1>5 DEF AloneInv

\* AloneInv is an invariant of commands that run one at a time.
THEOREM AloneInvariance == OneAtATime => (Spec => []AloneInv)
<1>1. Init => AloneInv
  BY EmptyListing, DeriveEmpty, StoreAssumption
  DEF Init, AloneInv, ClaimsCurrent, SeenCurrent, NoJob, Command, Commands
<1> SUFFICES ASSUME OneAtATime PROVE Spec => []AloneInv
  OBVIOUS
<1>2. Inv /\ AloneInv /\ [Next]_vars => AloneInv'
  BY NextAlone
<1> QED
  BY <1>1, <1>2, Invariance, PTL DEF Spec

\* Of commands that run one at a time, each leaves in every Work the claims that
\* derive from the events it leaves there.
THEOREM ClaimsStayCurrent == OneAtATime => (Spec => []ClaimsCurrent)
<1>1. AloneInv => ClaimsCurrent
  BY DEF AloneInv
<1> QED
  BY <1>1, AloneInvariance, PTL

\* A fork is made by a process that commits one.
LEMMA ForkedByCommit ==
    ASSUME Inv, [Next]_vars, NEW c \in ForkIds, Forked(c)
    PROVE  \E p \in Procs : CommitFork(p) /\ job[p].child = c
<1>1. c \in WorkIds /\ c \notin works /\ c \in works' /\ origin'[c] # None /\ origin[c] = None
  BY DEF Forked, WorkIds, Inv, DbInv, Unborn
<1>2. ASSUME NEW q \in Procs, CommitImport(q)
      PROVE  origin' = origin
  BY <1>2 DEF CommitImport
<1>3. PICK p \in Procs : CommitFork(p)
  BY <1>1, <1>2, OnlyCommitsWrite
<1>4. works' = works \cup {job[p].child}
  BY <1>3 DEF CommitFork
<1> QED
  BY <1>1, <1>3, <1>4

\* A fork that is made alone starts with the claims that its checkpoint froze, although
\* they are derived anew from copied rows.
THEOREM ForksAreCheckpoints == OneAtATime => (Spec => ForkIsCheckpoint)
<1> DEFINE Exact == \A c \in ForkIds : Forked(c) =>
                      claims'[c] = ckpts[origin'[c].work][origin'[c].ckpt].claims
<1>1. ASSUME OneAtATime, Inv, AloneInv, [Next]_vars PROVE Exact
  <2> SUFFICES ASSUME NEW c \in ForkIds, Forked(c)
               PROVE  claims'[c] = ckpts[origin'[c].work][origin'[c].ckpt].claims
    OBVIOUS
  <2>1. PICK p \in Procs : CommitFork(p) /\ job[p].child = c
    BY <1>1, ForkedByCommit
  <2>2. PICK w, k : w = job[p].work /\ k = job[p].ckpt
    OBVIOUS
  <2>3. /\ c \in WorkIds /\ w \in WorkIds /\ k \in DOMAIN ckpts[w]
        /\ claims' = [claims EXCEPT ![c] = Derive(Covered(p))]
    BY <1>1, <2>1, <2>2, ForkAlone DEF AloneInv
  <2>4. origin' = [origin EXCEPT ![c] = [work |-> w, ckpt |-> k]]
    BY <2>1, <2>2 DEF CommitFork
  <2>5. /\ claims'[c] = Derive(Covered(p))
        /\ origin'[c].work = w /\ origin'[c].ckpt = k
    BY <1>1, <2>3, <2>4 DEF Inv, TypeOK, DbTypeOK
  <2>6. ckpts[w][k].claims = Derive(Below(rows[w], Mark(w, k)))
    BY <1>1, <2>3 DEF Inv, DbInv, CheckpointPinned
  <2> QED
    BY <2>2, <2>5, <2>6 DEF Covered
<1> SUFFICES ASSUME OneAtATime PROVE Spec => ForkIsCheckpoint
  OBVIOUS
<1>2. Inv /\ AloneInv /\ [Next]_vars => [Exact]_vars
  BY <1>1
<1> QED
  BY <1>2, Invariance, AloneInvariance, PTL DEF Spec, ForkIsCheckpoint

\* A list to which nothing that it lacks is appended stays as it is.
LEMMA AppendNothing ==
    ASSUME NEW S, NEW l, IsListing(l, S), NEW more, DOMAIN more \subseteq DOMAIN l
    PROVE  AppendAll(l, more) = l
<1>1. DOMAIN l \cup DOMAIN Renumber(more, DOMAIN l, NextOrdinal(l)) = DOMAIN l
  BY DEF Renumber
<1> QED
  BY <1>1 DEF AppendAll, InsertOrIgnore, IsListing

\* Importing a session again that has no new lines changes nothing, when no other
\* command runs: neither rows nor executions nor claims.
THEOREM ReimportsChangeNothing == OneAtATime => (Spec => ReimportIdempotent)
<1> DEFINE Known(p) == /\ writer = p /\ job[p].cmd = "import" /\ job[p].work \in works
                       /\ job[p].session \in DOMAIN execs[job[p].work]
                       /\ DOMAIN Observed(job[p].session, job[p].input)
                            \subseteq DOMAIN rows[job[p].work]
           Idle == \A p \in Procs : Known(p) => UNCHANGED <<rows, execs, claims>>
<1>1. ASSUME OneAtATime, Inv, AloneInv, [Next]_vars PROVE Idle
  <2> SUFFICES ASSUME NEW p \in Procs, Known(p)
               PROVE  UNCHANGED <<rows, execs, claims>>
    OBVIOUS
  <2>1. \A q \in Procs : q = p
    BY <1>1 DEF OneAtATime
  <2>2. ~ CommitFork(p)
    BY DEF CommitFork
  <2>3. CASE CommitImport(p)
    <3>1. PICK w, s, l : w = job[p].work /\ s = job[p].session /\ l = rows[w]
      OBVIOUS
    <3>2. /\ w \in WorkIds
          /\ claims' = [claims EXCEPT ![w] = Derive(Merged(p))]
          /\ rows' = [rows EXCEPT ![w] = Merged(p)]
          /\ Merged(p) = AppendAll(l, Observed(s, job[p].input))
      BY <1>1, <2>3, <3>1, ImportAlone DEF AloneInv
    <3>3. IsListing(l, EventIds) /\ IsListing(execs[w], Sessions)
      BY <1>1, <3>1, <3>2 DEF Inv, TypeOK, DbTypeOK
    <3>4. Merged(p) = l
      BY <3>1, <3>2, <3>3, AppendNothing
    <3>5. AppendAll(execs[w], [x \in {s} |-> 0]) = execs[w]
      <4>1. DOMAIN [x \in {s} |-> 0] \subseteq DOMAIN execs[w]
        BY <3>1
      <4> QED
        BY <3>3, <4>1, AppendNothing
    <3>6. execs' = [execs EXCEPT ![w] = execs[w]]
      BY <2>3, <3>1, <3>5 DEF CommitImport
    <3>7. claims[w] = Derive(l)
      BY <1>1, <3>1, <3>2 DEF AloneInv, ClaimsCurrent
    <3>8. /\ rows = [v \in WorkIds |-> rows[v]] /\ execs = [v \in WorkIds |-> execs[v]]
          /\ claims = [v \in WorkIds |-> claims[v]]
      BY <1>1 DEF Inv, TypeOK, DbTypeOK
    <3> QED
      BY <3>1, <3>2, <3>4, <3>6, <3>7, <3>8
  <2>4. CASE ~ CommitImport(p)
    <3>1. \A q \in Procs : ~ CommitImport(q) /\ ~ CommitFork(q)
      BY <2>1, <2>2, <2>4
    <3> QED
      BY <1>1, <3>1, OnlyCommitsWrite
  <2> QED
    BY <2>3, <2>4
<1> SUFFICES ASSUME OneAtATime PROVE Spec => ReimportIdempotent
  OBVIOUS
<1>2. Inv /\ AloneInv /\ [Next]_vars => [Idle]_vars
  BY <1>1
<1> QED
  BY <1>2, Invariance, AloneInvariance, PTL DEF Spec, ReimportIdempotent
=============================================================================
