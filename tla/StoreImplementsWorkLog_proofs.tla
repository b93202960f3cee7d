------------------- MODULE StoreImplementsWorkLog_proofs -------------------
(***************************************************************************)
(* Proof that HarnieStore implements WorkLog: whatever commands overlap,   *)
(* and wherever they fail, each acts on Works as one step of an append-    *)
(* only log, or as none.                                                   *)
(***************************************************************************)
EXTENDS HarnieStore_proofs, StoreImplementsWorkLog
-----------------------------------------------------------------------------
(* Rows and logs. *)

\* The rows of a Work as the invariants have them.
Tidy(l) == IsListing(l, EventIds) /\ Distinct(l) /\ Dense(l)

\* The i-th event of a log is the row at ordinal i - 1, and every row is in the log.
LEMMA LogOfRows ==
    ASSUME NEW l, Tidy(l), NEW n, n = Cardinality(DOMAIN l)
    PROVE  /\ n \in Nat
           /\ LogOf(l) \in Seq(DOMAIN l) /\ LogOf(l) \in Seq(EventIds) /\ Len(LogOf(l)) = n
           /\ \A i \in 1..n : LogOf(l)[i] \in DOMAIN l /\ l[LogOf(l)[i]] = i - 1
           /\ \A e \in DOMAIN l : l[e] + 1 \in 1..n /\ LogOf(l)[l[e] + 1] = e
<1>1. IsListing(l, EventIds) /\ Distinct(l) /\ Dense(l)
  BY DEF Tidy
<1>2. /\ n \in Nat
      /\ \A e \in DOMAIN l : l[e] \in 0..(n - 1)
      /\ \A i \in 0..(n - 1) : \E e \in DOMAIN l : l[e] = i
  BY <1>1, EventsFinite, DenseOrdinals
<1>3. PICK s : s = LogOf(l)
  OBVIOUS
<1>4. s = [i \in 1..n |-> EventAt(l, i - 1)]
  BY <1>3 DEF LogOf
<1>5. \A i \in 1..n : s[i] \in DOMAIN l /\ l[s[i]] = i - 1
  <2> TAKE i \in 1..n
  <2>1. \E e \in DOMAIN l : Cardinality({d \in DOMAIN l : l[d] < l[e]}) = i - 1
    BY <1>1, <1>2 DEF Dense
  <2>2. s[i] = CHOOSE e \in DOMAIN l : Cardinality({d \in DOMAIN l : l[d] < l[e]}) = i - 1
    BY <1>4 DEF EventAt
  <2>3. s[i] \in DOMAIN l /\ Cardinality({d \in DOMAIN l : l[d] < l[s[i]]}) = i - 1
    BY <2>1, <2>2
  <2> QED
    BY <1>1, <2>3 DEF Dense
<1>6. s \in [1..n -> DOMAIN l]
  BY <1>4, <1>5
<1>7. s \in Seq(DOMAIN l) /\ Len(s) = n
  BY <1>2, <1>6
<1>8. s \in Seq(EventIds)
  BY <1>1, <1>7, SeqMonotonic DEF IsListing
<1>9. \A e \in DOMAIN l : l[e] + 1 \in 1..n /\ s[l[e] + 1] = e
  <2> TAKE e \in DOMAIN l
  <2>1. l[e] + 1 \in 1..n /\ (l[e] + 1) - 1 = l[e]
    BY <1>2
  <2>2. s[l[e] + 1] \in DOMAIN l /\ l[s[l[e] + 1]] = l[e]
    BY <1>5, <2>1
  <2> QED
    BY <1>1, <2>1, <2>2 DEF Distinct
<1> QED
  BY <1>2, <1>3, <1>5, <1>7, <1>8, <1>9

\* A log says all that the rows say.
LEMMA RowsOfLog ==
    ASSUME NEW l, Tidy(l)
    PROVE  ListingOf(LogOf(l)) = l
<1>1. PICK n, s : n = Cardinality(DOMAIN l) /\ s = LogOf(l)
  OBVIOUS
<1>2. /\ n \in Nat /\ DOMAIN s = 1..n
      /\ \A i \in 1..n : s[i] \in DOMAIN l /\ l[s[i]] = i - 1
      /\ \A e \in DOMAIN l : l[e] + 1 \in 1..n /\ s[l[e] + 1] = e
  <2>1. s \in Seq(EventIds) /\ Len(s) = n
    BY <1>1, LogOfRows
  <2> QED
    BY <1>1, <2>1, LogOfRows
<1>3. {s[i] : i \in DOMAIN s} = DOMAIN l
  BY <1>2
<1>4. \A e \in DOMAIN l : (CHOOSE i \in DOMAIN s : s[i] = e) - 1 = l[e]
  <2> TAKE e \in DOMAIN l
  <2>1. PICK i : i = CHOOSE j \in DOMAIN s : s[j] = e
    OBVIOUS
  <2>2. i \in 1..n /\ s[i] = e
    BY <1>2, <2>1
  <2> QED
    BY <1>2, <2>1, <2>2
<1>5. ListingOf(s) = [e \in DOMAIN l |-> l[e]]
  BY <1>3, <1>4 DEF ListingOf
<1> QED
  BY <1>1, <1>5 DEF Tidy, IsListing

\* Rows that are added at the end extend the log at its end.
LEMMA LogGrows ==
    ASSUME NEW l, Tidy(l), NEW r, Tidy(r), \A e \in DOMAIN l : e \in DOMAIN r /\ r[e] = l[e]
    PROVE  /\ LogOf(r) \in Seq(EventIds)
           /\ Abstract!IsPrefix(LogOf(l), LogOf(r))
           /\ Abstract!IsInjective(LogOf(r))
<1>1. PICK m, n, s, t : /\ m = Cardinality(DOMAIN l) /\ n = Cardinality(DOMAIN r)
                        /\ s = LogOf(l) /\ t = LogOf(r)
  OBVIOUS
<1>2. /\ m \in Nat /\ s \in Seq(EventIds) /\ Len(s) = m
      /\ \A i \in 1..m : s[i] \in DOMAIN l /\ l[s[i]] = i - 1
  BY <1>1, LogOfRows
<1>3. /\ n \in Nat /\ t \in Seq(EventIds) /\ Len(t) = n
      /\ \A i \in 1..n : t[i] \in DOMAIN r /\ r[t[i]] = i - 1
      /\ \A e \in DOMAIN r : r[e] + 1 \in 1..n /\ t[r[e] + 1] = e
  BY <1>1, LogOfRows
<1>4. \A i \in 1..m : i \in 1..n /\ t[i] = s[i]
  <2> TAKE i \in 1..m
  <2>1. s[i] \in DOMAIN r /\ r[s[i]] = i - 1
    BY <1>2
  <2>2. (i - 1) + 1 = i
    BY <1>2
  <2> QED
    BY <1>3, <2>1, <2>2
<1>5. m <= n
  <2>1. m = 0 \/ m \in 1..m
    BY <1>2
  <2> QED
    BY <1>2, <1>3, <1>4, <2>1
<1>6. SubSeq(s, 1, m) = SubSeq(t, 1, m)
  BY <1>2, <1>3, <1>4, <1>5
<1>7. \A i, j \in DOMAIN t : t[i] = t[j] => i = j
  BY <1>3
<1> QED
  BY <1>1, <1>2, <1>3, <1>5, <1>6, <1>7 DEF Abstract!IsPrefix, Abstract!IsInjective

\* The rows up to a watermark are that many events from the start of the log.
LEMMA LogUpTo ==
    ASSUME NEW l, Tidy(l), NEW bound \in 0..Cardinality(DOMAIN l)
    PROVE  /\ Tidy(Below(l, bound))
           /\ LogOf(Below(l, bound)) = SubSeq(LogOf(l), 1, bound)
<1>1. PICK r, n, m, s, t : /\ r = Below(l, bound) /\ n = Cardinality(DOMAIN l)
                           /\ m = Cardinality(DOMAIN r)
                           /\ s = LogOf(l) /\ t = LogOf(r)
  OBVIOUS
<1>2. /\ n \in Nat /\ s \in Seq(EventIds) /\ Len(s) = n
      /\ \A i \in 1..n : s[i] \in DOMAIN l /\ l[s[i]] = i - 1
      /\ \A e \in DOMAIN l : l[e] + 1 \in 1..n /\ s[l[e] + 1] = e
  BY <1>1, LogOfRows
<1>3. bound \in Nat /\ bound <= n
  BY <1>1, <1>2
<1>4. Tidy(r)
  BY <1>1, <1>3, BelowProps, BelowDense DEF Tidy
<1>5. /\ \A e : e \in DOMAIN r <=> e \in DOMAIN l /\ l[e] < bound
      /\ \A e \in DOMAIN r : r[e] = l[e]
  BY <1>1, <1>3, BelowProps DEF Tidy
<1>6. /\ m \in Nat /\ t \in Seq(EventIds) /\ Len(t) = m
      /\ \A i \in 1..m : t[i] \in DOMAIN r /\ r[t[i]] = i - 1
      /\ \A e \in DOMAIN r : r[e] + 1 \in 1..m /\ t[r[e] + 1] = e
  BY <1>1, <1>4, LogOfRows
<1>7. m = bound
  <2>1. ASSUME m < bound PROVE FALSE
    <3>1. m + 1 \in 1..n /\ (m + 1) - 1 = m
      BY <1>2, <1>3, <1>6, <2>1
    <3>2. s[m + 1] \in DOMAIN l /\ l[s[m + 1]] = m
      BY <1>2, <3>1
    <3>3. s[m + 1] \in DOMAIN r /\ r[s[m + 1]] = m
      BY <1>5, <2>1, <3>2
    <3>4. m + 1 \in 1..m
      BY <1>6, <3>3
    <3> QED
      BY <1>6, <3>4
  <2>2. ASSUME bound < m PROVE FALSE
    <3>1. m \in 1..m
      BY <1>3, <1>6, <2>2
    <3>2. t[m] \in DOMAIN r /\ r[t[m]] = m - 1
      BY <1>6, <3>1
    <3>3. m - 1 < bound
      BY <1>5, <3>2
    <3> QED
      BY <1>3, <1>6, <2>2, <3>3
  <2> QED
    BY <1>3, <1>6, <2>1, <2>2
<1>8. \A i \in 1..m : t[i] = s[i]
  <2> TAKE i \in 1..m
  <2>1. t[i] \in DOMAIN l /\ l[t[i]] = i - 1 /\ (i - 1) + 1 = i
    BY <1>5, <1>6
  <2> QED
    BY <1>2, <2>1
<1>9. t = SubSeq(s, 1, m)
  BY <1>2, <1>3, <1>6, <1>7, <1>8
<1> QED
  BY <1>1, <1>4, <1>7, <1>9
-----------------------------------------------------------------------------
(* Steps. *)

\* All Works have tidy rows.
LEMMA RowsTidy ==
    ASSUME Inv, OrderInv, NEW w \in WorkIds
    PROVE  Tidy(rows[w])
BY DEF Inv, OrderInv, TypeOK, DbTypeOK, DbInv, OrdinalsUnique, NoGaps, Tidy

\* A checkpoint counts what its watermark says, which is no more than there is.
LEMMA CountIsMark ==
    ASSUME Inv, OrderInv, NEW w \in WorkIds, NEW k \in DOMAIN ckpts[w]
    PROVE  /\ ckpts[w][k].count = Mark(w, k)
           /\ Mark(w, k) \in 0..Cardinality(DOMAIN rows[w])
<1>1. PICK l, b : l = rows[w] /\ b = Mark(w, k)
  OBVIOUS
<1>2. Tidy(l)
  BY <1>1, RowsTidy
<1>3. DbTypeOK /\ MarksExact
  BY DEF Inv, TypeOK, DbInv
<1>4. b \in 0..NextOrdinal(l) /\ NextOrdinal(l) \in Nat
  BY <1>1, <1>3, MarkInWork
<1>5. NextOrdinal(l) = Cardinality(DOMAIN l)
  BY <1>2, EventsFinite, DenseNext DEF Tidy
<1>6. IsListing(Below(l, b), EventIds) /\ Distinct(Below(l, b)) /\ Dense(Below(l, b))
  BY <1>2, <1>4, <1>5, LogUpTo DEF Tidy
<1>7. NextOrdinal(Below(l, b)) = Cardinality(DOMAIN Below(l, b))
  BY <1>6, EventsFinite, DenseNext
<1>8. b = NextOrdinal(Below(l, b))
  BY <1>1, <1>3 DEF MarksExact
<1>9. ckpts[w][k].count = Cardinality(DOMAIN Below(l, b))
  BY <1>1 DEF Inv, DbInv, CheckpointPinned
<1> QED
  BY <1>1, <1>4, <1>5, <1>7, <1>8, <1>9

\* The commit of an import creates a Work, or extends its log, or does nothing.
LEMMA ImportExtends ==
    ASSUME Inv, OrderInv, Inv', OrderInv', NEW p \in Procs, CommitImport(p), Grows
    PROVE  \E w \in WorkIds : Abstract!Extend(w)
<1>1. PICK w : w = job[p].work
  OBVIOUS
<1>2. w \in WorkIds
  BY <1>1, ImportedIsAppended DEF CommitImport
<1>3. PICK r : rows' = [rows EXCEPT ![w] = r]
  BY <1>1 DEF CommitImport
<1>4. works' = works \cup {w} /\ ckpts' = ckpts /\ origin' = origin
  BY <1>1 DEF CommitImport
<1>5. \A v \in WorkIds \ {w} : rows'[v] = rows[v]
  BY <1>3 DEF Inv, TypeOK, DbTypeOK
<1>6. Tidy(rows[w]) /\ Tidy(rows'[w])
  <2>1. Tidy(rows'[w])
    BY <1>2 DEF Inv, OrderInv, TypeOK, DbTypeOK, DbInv, OrdinalsUnique, NoGaps, Tidy
  <2> QED
    BY <1>2, <2>1, RowsTidy
<1>7. \A e \in DOMAIN rows[w] : e \in DOMAIN rows'[w] /\ rows'[w][e] = rows[w][e]
  BY <1>2 DEF Grows
<1>8. /\ LogOf(rows'[w]) \in Seq(EventIds)
      /\ Abstract!IsPrefix(LogOf(rows[w]), LogOf(rows'[w]))
      /\ Abstract!IsInjective(LogOf(rows'[w]))
  BY <1>6, <1>7, LogGrows
<1>9. Abstract!Extend(w)
  BY <1>2, <1>4, <1>5, <1>8 DEF Abstract!Extend, Abstract!OthersKeep
<1> QED
  BY <1>2, <1>9

\* The commit of a checkpoint is a snapshot of the whole log.
LEMMA CheckpointSnapshots ==
    ASSUME Inv, OrderInv, NEW p \in Procs, CommitCheckpoint(p)
    PROVE  \E w \in WorkIds : Abstract!Snapshot(w)
<1>1. PICK w, l, row, c : w = job[p].work /\ l = rows[w] /\ row = CheckpointRow(p) /\ c = ckpts[w]
  OBVIOUS
<1>2. pc[p] = "ckptCommit" /\ JobOK(p) /\ PinnedOK(p)
  BY MineFromInv DEF CommitCheckpoint, Mine
<1>3. w \in WorkIds /\ w \in works
  BY <1>1, <1>2 DEF JobOK, CommandAt
<1>4. Tidy(l)
  BY <1>1, <1>3, RowsTidy
<1>5. PICK n : n = Cardinality(DOMAIN l)
  OBVIOUS
<1>6. NextOrdinal(l) = n /\ n \in Nat /\ \A e \in DOMAIN l : l[e] < n
  BY <1>4, <1>5, EventsFinite, NextOrdinalAbove, DenseNext DEF Tidy
<1>7. Below(l, n) = l
  BY <1>4, <1>6, BelowAll DEF Tidy
<1>8. job[p].pinned = l
  BY <1>1, <1>2 DEF PinnedOK, InTransaction
<1>9. row.count = n /\ row.claims = Derive(l)
  BY <1>1, <1>5, <1>6, <1>7, <1>8 DEF CheckpointRow
<1>10. Shot(row) = [length |-> Len(LogOf(l)), says |-> Derive(ListingOf(LogOf(l)))]
  BY <1>4, <1>5, <1>9, LogOfRows, RowsOfLog DEF Shot
<1>11. ckpts' = [ckpts EXCEPT ![w] = Append(c, row)]
  BY <1>1 DEF CommitCheckpoint
<1>12. ckpts \in [WorkIds -> Seq(Checkpoint)] /\ c \in Seq(Checkpoint)
  BY <1>1, <1>3 DEF Inv, TypeOK, DbTypeOK
<1> DEFINE Shots(d) == [k \in DOMAIN d |-> Shot(d[k])]
<1>13. Shots(Append(c, row)) = Append(Shots(c), Shot(row))
  BY <1>12
<1>14. [v \in WorkIds |-> Shots(ckpts'[v])]
         = [[v \in WorkIds |-> Shots(ckpts[v])] EXCEPT ![w] = Append(Shots(c), Shot(row))]
  BY <1>3, <1>11, <1>12, <1>13
<1>15. UNCHANGED <<works, rows, origin>>
  BY DEF CommitCheckpoint
<1>16. Abstract!Snapshot(w)
  BY <1>1, <1>3, <1>10, <1>14, <1>15 DEF Abstract!Snapshot
<1> QED
  BY <1>3, <1>16

\* The commit of a fork makes a Work of the part of a log that a checkpoint counts.
LEMMA ForkForks ==
    ASSUME Inv, OrderInv, NEW p \in Procs, CommitFork(p)
    PROVE  \E w \in WorkIds, c \in WorkIds : \E k \in DOMAIN ckpts[w] : Abstract!Fork(w, c, k)
<1>1. PICK w, c, k, l, b : /\ w = job[p].work /\ c = job[p].child /\ k = job[p].ckpt
                           /\ l = rows[w] /\ b = Mark(w, k)
  OBVIOUS
<1>2. /\ w \in WorkIds /\ c \in WorkIds /\ k \in DOMAIN ckpts[w]
      /\ rows' = [rows EXCEPT ![c] = Below(l, b)]
  BY <1>1, CopiedIsBelow
<1>3. w \in works /\ c \notin works /\ works' = works \cup {c} /\ ckpts' = ckpts
  BY <1>1, MineFromInv DEF CommitFork, Mine, JobOK
<1>4. Tidy(l)
  BY <1>1, <1>2, RowsTidy
<1>5. ckpts[w][k].count = b /\ b \in 0..Cardinality(DOMAIN l)
  BY <1>1, <1>2, CountIsMark
<1>6. LogOf(Below(l, b)) = SubSeq(LogOf(l), 1, b)
  BY <1>4, <1>5, LogUpTo
<1>7. [v \in WorkIds |-> LogOf(rows'[v])]
        = [[v \in WorkIds |-> LogOf(rows[v])] EXCEPT ![c] = SubSeq(LogOf(l), 1, b)]
  BY <1>2, <1>6 DEF Inv, TypeOK, DbTypeOK
<1>8. origin' = [origin EXCEPT ![c] = [work |-> w, ckpt |-> k]]
  BY <1>1 DEF CommitFork
<1>9. ParentOf([work |-> w, ckpt |-> k]) = {<<w, k>>}
  <2>1. k \in Nat
    BY <1>2, LenProperties DEF Inv, TypeOK, DbTypeOK
  <2>2. [work |-> w, ckpt |-> k] # None
    BY <1>2, <2>1, StoreAssumption DEF WorkIds
  <2> QED
    BY <2>2 DEF ParentOf
<1>10. [v \in WorkIds |-> ParentOf(origin'[v])]
         = [[v \in WorkIds |-> ParentOf(origin[v])] EXCEPT ![c] = {<<w, k>>}]
  BY <1>2, <1>8, <1>9 DEF Inv, TypeOK, DbTypeOK
<1>11. PICK shots : shots = [v \in WorkIds |-> [j \in DOMAIN ckpts[v] |-> Shot(ckpts[v][j])]]
  OBVIOUS
<1>12. k \in DOMAIN shots[w] /\ shots[w][k].length = b
  BY <1>2, <1>5, <1>11 DEF Shot
<1>13. PICK logs : logs = [v \in WorkIds |-> LogOf(rows[v])]
  OBVIOUS
<1>14. logs[w] = LogOf(l)
  BY <1>1, <1>2, <1>13
<1>15. [v \in WorkIds |-> LogOf(rows'[v])]
         = [logs EXCEPT ![c] = SubSeq(logs[w], 1, shots[w][k].length)]
  BY <1>7, <1>12, <1>13, <1>14
<1>16. Abstract!Fork(w, c, k)
  BY <1>3, <1>10, <1>11, <1>12, <1>13, <1>15 DEF Abstract!Fork
<1> QED
  BY <1>2, <1>16

\* Every step of the store is a step on Works, or none.
LEMMA StepMaps ==
    ASSUME Inv, OrderInv, Inv', OrderInv', [Next]_vars
    PROVE  [Abstract!Next]_(Abstract!vars)
<1>1. Grows
  BY NextGrows
<1>2. ASSUME NEW p \in Procs, CommitImport(p)
      PROVE  Abstract!Next
  BY <1>1, <1>2, ImportExtends DEF Abstract!Next
<1>3. ASSUME NEW p \in Procs, CommitCheckpoint(p)
      PROVE  Abstract!Next
  BY <1>3, CheckpointSnapshots DEF Abstract!Next
<1>4. ASSUME NEW p \in Procs, CommitFork(p)
      PROVE  Abstract!Next
  BY <1>4, ForkForks DEF Abstract!Next
<1>5. ASSUME \A p \in Procs : ~ CommitImport(p) /\ ~ CommitCheckpoint(p) /\ ~ CommitFork(p)
      PROVE  UNCHANGED Abstract!vars
  BY <1>5, OnlyCommitsWrite DEF Abstract!vars
<1> QED
  BY <1>2, <1>3, <1>4, <1>5

\* The store starts as WorkLog does.
LEMMA InitMaps == Init => Abstract!Init
<1> SUFFICES ASSUME Init PROVE Abstract!Init
  OBVIOUS
<1>1. LogOf(Empty) = <<>>
  <2>1. Cardinality(DOMAIN Empty) = 0
    BY EmptyListing, FS_EmptySet
  <2> QED
    BY <2>1 DEF LogOf
<1>2. ParentOf(None) = {}
  BY DEF ParentOf
<1> QED
  BY <1>1, <1>2 DEF Init, Abstract!Init

\* Concurrent harnie commands on one store, for any number of them, are as good as
\* one atomic step each on an append-only log of every Work: an import extends one
\* log at its end, a checkpoint summarizes a whole log as it is at that moment, and
\* a fork is born as a prefix that a checkpoint counted; all else changes nothing.
THEOREM StoreIsWorkLog == Spec => ImplementsWorkLog
<1>1. Init => Abstract!Init
  BY InitMaps
<1>2. Inv /\ OrderInv /\ Inv' /\ OrderInv' /\ [Next]_vars => [Abstract!Next]_(Abstract!vars)
  BY StepMaps
<1> QED
  BY <1>1, <1>2, Invariance, OrderInvariance, PTL DEF Spec, Abstract!Spec, ImplementsWorkLog
=============================================================================
