---------------------------- MODULE HarnieStore ----------------------------
(***************************************************************************)
(* Concurrent harnie commands on one SQLite file.                          *)
(*                                                                         *)
(* Every command is an operating-system process of its own.  A process     *)
(* reads with autocommit SELECTs, one after the other, and writes in one   *)
(* BEGIN IMMEDIATE transaction; between any two of its statements other    *)
(* processes may commit.  The busy timeout is 0: a process that needs the  *)
(* write lock while another holds it fails at once.                        *)
(***************************************************************************)
EXTENDS Derivation, Sequences

CONSTANTS Procs,        \* slots for commands that run at the same time
          ForkIds,      \* ids createFork can draw for a child Work
          MaxCommands,  \* bound: commands started in a behaviour
          None

Commands == {"import", "checkpoint", "fork", "handoff"}

ASSUME StoreAssumption ==
    /\ MaxCommands \in Nat
    /\ IsFiniteSet(Sessions)
    /\ None \notin Commands /\ None \notin Procs
    /\ None \notin Sessions /\ None \notin ForkIds
    /\ None \notin [work : Sessions \cup ForkIds, ckpt : Nat]
    /\ Sessions \cap ForkIds = {}

\* A session's own Work, work:<harness>:<sourceId>, is named by the session.
WorkIds == Sessions \cup ForkIds

VARIABLES
  lines,    \* lines[s]: lines the harness has written to session file s
  works,    \* rows of table works
  rows,     \* rows[w]: rows of table events
  execs,    \* execs[w]: rows of table executions, listed by rowid
  claims,   \* claims[w]: goal_json, decisions, findings, next_steps, operations
  ckpts,    \* ckpts[w]: rows of table checkpoints; the n-th is checkpoint:w:n
  origin,   \* origin[w]: forked_from_work_id and forked_from_checkpoint_id
  writer,   \* the process that holds the write lock, or None
  pc, job,  \* each process: its next statement, and its local variables
  started   \* commands started so far

db == <<works, rows, execs, claims, ckpts, origin>>
vars == <<lines, db, writer, pc, job, started>>
-----------------------------------------------------------------------------
Steps == {"idle", "load", "events", "claims", "pin", "shown", "select", "seed",
          "begin", "commit", "ckptLoad", "ckptBegin", "ckptCommit"}

\* Steps whose first statement needs the write lock: BEGIN IMMEDIATE, and the
\* INSERT OR IGNORE INTO schema_migrations that every loadWork starts with.
NeedsLock == {"load", "begin", "ckptLoad", "ckptBegin"}

\* Steps inside an open transaction.
InTransaction == {"commit", "ckptCommit"}

\* A command with its arguments, before its first statement.
Command(cmd, w, s, n, attach, k) ==
    [cmd |-> cmd, work |-> w, session |-> s, input |-> n, attach |-> attach,
     named |-> k, seen |-> Empty, claims |-> NoClaims, pinned |-> Empty,
     ckpt |-> 0, child |-> None]

NoJob == Command(None, None, None, 0, FALSE, 0)

\* Mutant: a reader that returns the newest line first.
NewestFirst(s, n) == [e \in {s} \X (1..n) |-> n - e[2]]

\* reconstructObservedWork on the first n lines of a session file.
Observed(s, n) == [e \in {s} \X (1..n) |-> e[2] - 1]

Mark(w, k) == ckpts[w][k].mark
LatestExec(w) == {s \in DOMAIN execs[w] : \A t \in DOMAIN execs[w] : execs[w][t] <= execs[w][s]}

Init == /\ lines = [s \in Sessions |-> 0]
        /\ works = {}
        /\ rows = [w \in WorkIds |-> Empty]
        /\ execs = [w \in WorkIds |-> Empty]
        /\ claims = [w \in WorkIds |-> NoClaims]
        /\ ckpts = [w \in WorkIds |-> <<>>]
        /\ origin = [w \in WorkIds |-> None]
        /\ writer = None
        /\ pc = [p \in Procs |-> "idle"]
        /\ job = [p \in Procs |-> NoJob]
        /\ started = 0
-----------------------------------------------------------------------------
(* The environment: a harness appends to its session file. *)

Record(s) == /\ lines[s] < MaxLines
             /\ lines' = [lines EXCEPT ![s] = @ + 1]
             /\ UNCHANGED <<db, writer, pc, job, started>>

(* Starting a command, and how one ends. *)

Start(p, first) ==
    /\ pc[p] = "idle"
    /\ started < MaxCommands
    /\ started' = started + 1
    /\ pc' = [pc EXCEPT ![p] = first]
    /\ UNCHANGED <<lines, db, writer>>

\* harnie import <session> [--work w]: the store is opened, the session file is
\* read (an await), then the Work is loaded.  Without --work the target is the
\* session's own Work.
StartImport(p, s, w, attach) ==
    /\ attach \/ w = s
    /\ job' = [job EXCEPT ![p] = Command("import", w, s, lines[s], attach, 0)]
    /\ Start(p, "load")

StartCheckpoint(p, w) ==
    /\ job' = [job EXCEPT ![p] = Command("checkpoint", w, None, 0, FALSE, 0)]
    /\ Start(p, "ckptLoad")

\* [--checkpoint k]: a user names a checkpoint that some command has printed.
StartFork(p, w, k) ==
    /\ k \in 0..Len(ckpts[w])
    /\ job' = [job EXCEPT ![p] = Command("fork", w, None, 0, FALSE, k)]
    /\ Start(p, "load")

StartHandoff(p, w, k) ==
    /\ k \in 0..Len(ckpts[w])
    /\ job' = [job EXCEPT ![p] = Command("handoff", w, None, 0, FALSE, k)]
    /\ Start(p, "load")

\* The process exits; SQLite rolls an open transaction back.
Leave(p) == /\ pc' = [pc EXCEPT ![p] = "idle"]
            /\ job' = [job EXCEPT ![p] = NoJob]
            /\ writer' = IF writer = p THEN None ELSE writer

\* SQLITE_BUSY ("database is locked"): nothing waits and nothing retries.
Busy(p) == /\ pc[p] \in NeedsLock
           /\ writer # None
           /\ Leave(p)
           /\ UNCHANGED <<lines, db, started>>

\* An error thrown by any statement (catch, ROLLBACK, rethrow), or a crash: the
\* journal undoes the transaction.
Fail(p) == /\ pc[p] # "idle"
           /\ Leave(p)
           /\ UNCHANGED <<lines, db, started>>

\* Errors the code raises itself: "Work not found", "Work has no events to fork".
Reject(p, step, condition) ==
    /\ pc[p] = step
    /\ condition
    /\ Leave(p)
    /\ UNCHANGED <<lines, db, started>>
-----------------------------------------------------------------------------
(* loadWork: the works row (with the goal) and the executions, then the      *)
(* events, then the other claims, as separate autocommit SELECTs.            *)

Continue(p, next) == /\ pc' = [pc EXCEPT ![p] = next]
                     /\ UNCHANGED <<lines, db, writer, started>>

LoadRow(p) ==
    LET w == job[p].work IN
    /\ pc[p] = "load"
    /\ writer = None
    /\ w \in works
    /\ job' = [job EXCEPT ![p].claims.goal = claims[w].goal]
    /\ Continue(p, "events")

\* existing === undefined: an import without --work creates the Work.
LoadAbsent(p) ==
    /\ pc[p] = "load"
    /\ writer = None
    /\ job[p].work \notin works
    /\ job[p].cmd = "import" /\ ~job[p].attach
    /\ UNCHANGED job
    /\ Continue(p, "begin")

RejectUnknownWork(p) ==
    Reject(p, "load", /\ writer = None
                      /\ job[p].work \notin works
                      /\ job[p].cmd # "import" \/ job[p].attach)

\* An import and a fork derive the claims anew and never look at the stored
\* ones, which they load as well.
LoadEvents(p) ==
    LET next == CASE job[p].cmd = "import" -> "begin"
                  [] job[p].cmd = "fork" -> "select"
                  [] job[p].cmd = "handoff" -> "claims"
    IN /\ pc[p] = "events"
       /\ job[p].cmd = "fork" => DOMAIN rows[job[p].work] # {}
       /\ job' = [job EXCEPT ![p].seen = rows[job[p].work]]
       /\ Continue(p, next)

RejectEmptyFork(p) ==
    Reject(p, "events", job[p].cmd = "fork" /\ DOMAIN rows[job[p].work] = {})

LoadClaims(p) ==
    LET w == job[p].work IN
    /\ pc[p] = "claims"
    /\ job' = [job EXCEPT ![p].claims = [claims[w] EXCEPT !.goal = job[p].claims.goal]]
    /\ Continue(p, IF job[p].named = 0 THEN "shown" ELSE "pin")
-----------------------------------------------------------------------------
(* harnie handoff: what the rendered package is built from.                  *)

\* Mutant: the checkpoint's claims with the live events.
PinClaimsOnly(p) ==
    /\ pc[p] = "pin"
    /\ job' = [job EXCEPT ![p].claims = ckpts[job[p].work][job[p].named].claims]
    /\ Continue(p, "shown")

\* loadWorkAtCheckpoint: the events at or below the watermark, and the claims
\* the checkpoint froze.
Pin(p) ==
    LET w == job[p].work
        k == job[p].named
        ids == DOMAIN Below(rows[w], Mark(w, k))
    IN /\ pc[p] = "pin"
       /\ job' = [job EXCEPT ![p].seen = Only(@, ids), ![p].claims = ckpts[w][k].claims]
       /\ Continue(p, "shown")

Finish(p) == /\ pc[p] = "shown"
             /\ Leave(p)
             /\ UNCHANGED <<lines, db, started>>
-----------------------------------------------------------------------------
(* Transactions.  BEGIN IMMEDIATE takes the write lock; what the transaction *)
(* reads before it writes is pinned there.                                   *)

\* Mutant: BEGIN, which takes no lock before the first write.
BeginDeferred(p, step, next) ==
    /\ pc[p] = step
    /\ writer' = p
    /\ pc' = [pc EXCEPT ![p] = next]
    /\ job' = [job EXCEPT ![p].pinned = rows[job[p].work]]
    /\ UNCHANGED <<lines, db, started>>

Begin(p, step, next) ==
    /\ pc[p] = step
    /\ writer = None
    /\ writer' = p
    /\ pc' = [pc EXCEPT ![p] = next]
    /\ job' = [job EXCEPT ![p].pinned = rows[job[p].work]]
    /\ UNCHANGED <<lines, db, started>>

BeginWrite(p) == Begin(p, "begin", "commit")
BeginCheckpoint(p) == Begin(p, "ckptBegin", "ckptCommit")

\* COMMIT, and the process exits.
Committed(p) == Leave(p) /\ UNCHANGED <<lines, started>>

\* Mutant: the incoming events before those of the Work.
IncomingFirst(p) == AppendAll(Observed(job[p].session, job[p].input), job[p].seen)

\* attachObservedWork(existing, observed).
Merged(p) == AppendAll(job[p].seen, Observed(job[p].session, job[p].input))

\* Mutant: the first free ordinal is that of the Work as it was loaded.
NumberedAfterLoaded(p) ==
    Renumber(Merged(p), DOMAIN job[p].pinned, NextOrdinal(job[p].seen))

\* persistObservedWork numbers the events that the transaction finds unknown from
\* the first ordinal that it finds free.
NewRows(p) == Renumber(Merged(p), DOMAIN job[p].pinned, NextOrdinal(job[p].pinned))

\* Mutant: the rows of the Work are deleted and inserted again.
Rewritten(p) == Renumber(Merged(p), {}, 0)

ImportedRows(p) == InsertOrIgnore(rows[job[p].work], NewRows(p))

\* persistDerivedClaims replaces every stored claim of the Work.
ImportClaims(p) == Derive(Merged(p))

CommitImport(p) ==
    LET w == job[p].work
    IN /\ pc[p] = "commit" /\ job[p].cmd = "import"
       /\ works' = works \cup {w}
       /\ execs' = [execs EXCEPT ![w] = AppendAll(@, [x \in {job[p].session} |-> 0])]
       /\ rows' = [rows EXCEPT ![w] = ImportedRows(p)]
       /\ claims' = [claims EXCEPT ![w] = ImportClaims(p)]
       /\ UNCHANGED <<ckpts, origin>>
       /\ Committed(p)

\* createCheckpoint: its own loadWork only tells whether the Work exists.
LoadForCheckpoint(p) ==
    /\ pc[p] = "ckptLoad"
    /\ writer = None
    /\ job[p].work \in works
    /\ UNCHANGED job
    /\ Continue(p, "ckptBegin")

RejectUnknownCheckpoint(p) ==
    Reject(p, "ckptLoad", writer = None /\ job[p].work \notin works)

\* Mutant: a checkpoint freezes the stored claims.
FreezeStored(p) == [mark   |-> NextOrdinal(job[p].pinned),
                    count  |-> Cardinality(DOMAIN job[p].pinned),
                    exec   |-> LatestExec(job[p].work),
                    claims |-> claims[job[p].work]]

\* The watermark and the count are those of the pinned rows, the claims derive
\* from the rows that the watermark covers when they are read again.
CheckpointRow(p) ==
    LET bound == NextOrdinal(job[p].pinned)
    IN  [mark   |-> bound,
         count  |-> Cardinality(DOMAIN job[p].pinned),
         exec   |-> LatestExec(job[p].work),
         claims |-> Derive(Below(rows[job[p].work], bound))]

\* A fork goes on with the checkpoint it has just created.
CommitCheckpoint(p) ==
    LET w == job[p].work
    IN /\ pc[p] = "ckptCommit"
       /\ ckpts' = [ckpts EXCEPT ![w] = Append(@, CheckpointRow(p))]
       /\ UNCHANGED <<works, rows, execs, claims, origin, lines, started>>
       /\ writer' = None
       /\ IF job[p].cmd = "fork"
            THEN /\ pc' = [pc EXCEPT ![p] = "seed"]
                 /\ job' = [job EXCEPT ![p].ckpt = Len(ckpts[w]) + 1, ![p].pinned = Empty]
            ELSE /\ pc' = [pc EXCEPT ![p] = "idle"]
                 /\ job' = [job EXCEPT ![p] = NoJob]

\* createFork: the named checkpoint, else the last one, else a new one.
SelectCheckpoint(p) ==
    LET k == IF job[p].named # 0 THEN job[p].named ELSE Len(ckpts[job[p].work])
    IN /\ pc[p] = "select"
       /\ job' = [job EXCEPT ![p].ckpt = k]
       /\ Continue(p, IF k = 0 THEN "ckptLoad" ELSE "seed")

\* The rows at or below the watermark of the fork's checkpoint.
Covered(p) == Below(rows[job[p].work], Mark(job[p].work, job[p].ckpt))

\* Mutant: the whole parent.
SeedWithParent(p) == job[p].seen

\* childSeed: of the parent loaded at the start, the events that are covered now.
SeedEvents(p) == Only(job[p].seen, DOMAIN Covered(p))

\* An unused child id is drawn, and the child's claims derived.
Seed(p, c) ==
    /\ pc[p] = "seed"
    /\ c \notin works
    /\ job' = [job EXCEPT ![p].child = c, ![p].seen = SeedEvents(p)]
    /\ Continue(p, "begin")

\* Mutant: the events of the child that was built in memory.
CopySeed(p) == Only(rows[job[p].work], DOMAIN job[p].seen)

\* INSERT INTO events ... SELECT: rows of the store, not of the loaded parent.
CopiedRows(p) == Covered(p)

\* Mutant: the executions of the child that was built in memory.
SeedSessions(p) == {e[1] : e \in DOMAIN job[p].seen}

\* INSERT INTO executions ... SELECT.
CopiedSessions(p) == {e[1] : e \in DOMAIN Covered(p)} \cap DOMAIN execs[job[p].work]

\* Mutant: a fork takes over its parent's stored claims.
ParentClaims(p) == claims[job[p].work]

ForkClaims(p) == Derive(job[p].seen)

\* INSERT ... SELECT without ORDER BY leaves the executions in any order.
CommitFork(p) ==
    LET c == job[p].child
        sessions == CopiedSessions(p)
    IN /\ pc[p] = "commit" /\ job[p].cmd = "fork"
       /\ c \notin works
       /\ works' = works \cup {c}
       /\ \E order \in [sessions -> 0..(Cardinality(sessions) - 1)] :
            /\ Distinct(order)
            /\ execs' = [execs EXCEPT ![c] = order]
       /\ rows' = [rows EXCEPT ![c] = CopiedRows(p)]
       /\ claims' = [claims EXCEPT ![c] = ForkClaims(p)]
       /\ origin' = [origin EXCEPT ![c] = [work |-> job[p].work, ckpt |-> job[p].ckpt]]
       /\ UNCHANGED ckpts
       /\ Committed(p)

\* Another process has inserted the same child id: PRIMARY KEY violation.
RejectTakenChild(p) ==
    Reject(p, "commit", job[p].cmd = "fork" /\ job[p].child \in works)
-----------------------------------------------------------------------------
\* A step of a running command.
Step(p) == \/ LoadRow(p) \/ LoadAbsent(p) \/ LoadEvents(p) \/ LoadClaims(p)
           \/ RejectUnknownWork(p) \/ RejectEmptyFork(p)
           \/ Pin(p) \/ Finish(p)
           \/ BeginWrite(p) \/ CommitImport(p)
           \/ LoadForCheckpoint(p) \/ RejectUnknownCheckpoint(p)
           \/ BeginCheckpoint(p) \/ CommitCheckpoint(p)
           \/ SelectCheckpoint(p) \/ (\E c \in ForkIds : Seed(p, c))
           \/ CommitFork(p) \/ RejectTakenChild(p)
           \/ Busy(p)

Invoke(p) == \/ \E s \in Sessions, w \in WorkIds, attach \in BOOLEAN :
                  StartImport(p, s, w, attach)
             \/ \E w \in WorkIds : StartCheckpoint(p, w)
             \/ \E w \in WorkIds, k \in 0..MaxCommands :
                  StartFork(p, w, k) \/ StartHandoff(p, w, k)

Next == \/ \E s \in Sessions : Record(s)
        \/ \E p \in Procs : Invoke(p) \/ Step(p) \/ Fail(p)

Spec == Init /\ [][Next]_vars
-----------------------------------------------------------------------------
(* Properties. *)


Checkpoint == [mark : Nat, count : Nat, exec : SUBSET Sessions, claims : ClaimsType]

IsJob(j) ==
    /\ j \in [cmd : Commands \cup {None}, work : WorkIds \cup {None},
              session : Sessions \cup {None}, input : 0..MaxLines, attach : BOOLEAN,
              named : Nat, ckpt : Nat, child : ForkIds \cup {None},
              seen : {j.seen}, pinned : {j.pinned}, claims : ClaimsType]
    /\ IsListing(j.seen, EventIds)
    /\ IsListing(j.pinned, EventIds)

DbTypeOK == /\ works \subseteq WorkIds
            /\ rows = [w \in WorkIds |-> rows[w]]
            /\ execs = [w \in WorkIds |-> execs[w]]
            /\ \A w \in WorkIds : IsListing(rows[w], EventIds) /\ IsListing(execs[w], Sessions)
            /\ claims \in [WorkIds -> ClaimsType]
            /\ ckpts \in [WorkIds -> Seq(Checkpoint)]
            /\ origin \in [WorkIds -> {None} \cup [work : WorkIds, ckpt : Nat]]

ProcTypeOK == /\ pc \in [Procs -> Steps]
              /\ job = [p \in Procs |-> job[p]]
              /\ \A p \in Procs : IsJob(job[p])

\* The write lock is held exactly inside a transaction, by one process.
LockOK == /\ writer \in Procs \cup {None}
          /\ \A p \in Procs : writer = p <=> pc[p] \in InTransaction

TypeOK == /\ lines \in [Sessions -> 0..MaxLines]
          /\ started \in 0..MaxCommands
          /\ DbTypeOK
          /\ ProcTypeOK
          /\ LockOK

\* The order of a Work's events and executions is determined (ORDER BY ordinal,
\* ORDER BY rowid), although imports number events they loaded before they held
\* the write lock.
OrdinalsUnique == \A w \in WorkIds : Distinct(rows[w]) /\ Distinct(execs[w])

\* With a line of a session, l lists the lines before it, and lists them before it.
InOrder(l) ==
    \A e \in DOMAIN l : \A n \in 1..(e[2] - 1) :
      <<e[1], n>> \in DOMAIN l /\ l[<<e[1], n>>] < l[e]

\* In every Work, a fork included, the events of one session are the first lines
\* of its file, in the order of the file.
SessionOrder == \A w \in WorkIds : InOrder(rows[w])

\* A checkpoint goes on saying, whatever is imported later, exactly what its
\* watermark pins: so many events, and the claims derived from them.
CheckpointPinned ==
    \A w \in WorkIds : \A k \in DOMAIN ckpts[w] :
      LET pinned == Below(rows[w], Mark(w, k)) IN
      /\ ckpts[w][k].count = Cardinality(DOMAIN pinned)
      /\ ckpts[w][k].claims = Derive(pinned)

\* A fork and its parent hold the same events, at the same ordinals, up to the
\* watermark the fork was made at, whatever either of them imports later.
ForkPrefix ==
    \A c \in WorkIds : origin[c] # None =>
      /\ c \in works /\ origin[c].work \in works
      /\ origin[c].ckpt \in DOMAIN ckpts[origin[c].work]
      /\ LET bound == Mark(origin[c].work, origin[c].ckpt)
         IN  Below(rows[c], bound) = Below(rows[origin[c].work], bound)

\* Every event of a Work belongs to an execution of that Work (the foreign key
\* of events, which a fork's two INSERT ... SELECT statements must agree on).
ExecutionsCover ==
    \A w \in WorkIds : {e[1] : e \in DOMAIN rows[w]} \subseteq DOMAIN execs[w]

\* Whatever commands overlap, a stored claim cites only events that its own Work
\* holds, and so does a claim frozen in a checkpoint.
ClaimsGrounded ==
    \A w \in WorkIds :
      /\ Evidence(claims[w]) \subseteq DOMAIN rows[w]
      /\ \A k \in DOMAIN ckpts[w] :
           Evidence(ckpts[w][k].claims) \subseteq DOMAIN Below(rows[w], Mark(w, k))

\* No step of any command takes a Work, an event or a checkpoint back, moves an
\* event, or puts a new event where a checkpoint already taken would cover it.
Grows ==
    /\ works \subseteq works'
    /\ \A w \in WorkIds :
         /\ \A e \in DOMAIN rows[w] : e \in DOMAIN rows'[w] /\ rows'[w][e] = rows[w][e]
         /\ Len(ckpts[w]) <= Len(ckpts'[w])
         /\ \A k \in DOMAIN ckpts[w] :
              /\ ckpts'[w][k] = ckpts[w][k]
              /\ Below(rows'[w], Mark(w, k)) = Below(rows[w], Mark(w, k))

HistoryKept == [][Grows]_vars

\* handoff --checkpoint shows the events the checkpoint pins and the claims that
\* derive from just these events, although it reads them one after the other.
PinnedView(p) ==
    LET j == job[p] IN
    pc[p] = "shown" /\ j.named # 0 =>
      /\ j.seen = Below(rows[j.work], Mark(j.work, j.named))
      /\ j.claims = Derive(j.seen)

PinnedViewExact == \A p \in Procs : PinnedView(p)

\* c is a fork that this step makes.
Forked(c) == c \notin works /\ c \in works' /\ origin'[c] # None

\* A fork of a checkpoint the user names starts with the claims of its events.
NamedForkExact ==
    [][\A p \in Procs : job[p].named # 0 =>
         \A c \in ForkIds : Forked(c) /\ job[p].child = c /\ writer = p =>
           claims'[c] = Derive(rows'[c])]_vars
-----------------------------------------------------------------------------
(* What the repository says of forks, and two commands at a time break. *)

\* fork.ts: "The child's derived state is computed from exactly the events the
\* fork copies (ordinal <= checkpoint watermark), so both halves share one
\* pinned event set".
ForkHalvesAgree == [][\A c \in ForkIds : Forked(c) => claims'[c] = Derive(rows'[c])]_vars
-----------------------------------------------------------------------------
(* Properties of commands that run one at a time. *)

\* The stored claims of a Work are those of its stored events.
ClaimsCurrent == \A w \in WorkIds : claims[w] = Derive(rows[w])

\* A fork starts as the checkpoint left its parent: its claims are the frozen
\* ones, although they are derived anew from copied rows.
ForkIsCheckpoint ==
    [][\A c \in ForkIds : Forked(c) =>
         claims'[c] = ckpts[origin'[c].work][origin'[c].ckpt].claims]_vars

\* Importing a session again that has no new lines changes nothing, in its own
\* Work, in one it was attached to and in a fork that holds it already.
ReimportIdempotent ==
    [][\A p \in Procs :
         /\ writer = p /\ job[p].cmd = "import" /\ job[p].work \in works
         /\ job[p].session \in DOMAIN execs[job[p].work]
         /\ DOMAIN Observed(job[p].session, job[p].input) \subseteq DOMAIN rows[job[p].work]
         => UNCHANGED <<rows, execs, claims>>]_vars
=============================================================================
