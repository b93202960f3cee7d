--------------------------- MODULE StoreMigration ---------------------------
(***************************************************************************)
(* How commands bring the tables of an older store to the current shape.   *)
(*                                                                         *)
(* Every command runs ensureDerivedSchema before it reads or writes a      *)
(* Work: it looks at the CREATE statements in sqlite_master, rebuilds in   *)
(* one transaction the tables that it found to be legacy, and stamps the   *)
(* schema versions.  The look is not part of the transaction, so another   *)
(* process may have migrated, and used, the store by the time the lock is  *)
(* taken.                                                                  *)
(***************************************************************************)
EXTENDS Naturals, FiniteSets, FiniteSetsExt

CONSTANTS Works,        \* Work ids, as numbers: MIN(work_id) orders them
          Executions,   \* execution ids; one source session and one event each
          Procs,        \* slots for commands that run at the same time
          MaxCommands,  \* bound: commands started in a behaviour
          None

Core == {"executions", "source_sessions", "events"}
Tables == Core \cup {"checkpoints"}
Versions == {1, 2}

ASSUME MigrationAssumption ==
    /\ Works \subseteq Nat
    /\ MaxCommands \in Nat
    /\ None \notin Works /\ None \notin Procs

VARIABLES
  shape,     \* shape[t]: the CREATE statement of table t
  odd,       \* legacy tables that lack a column the rebuild selects
  works,     \* rows of works
  execs,     \* rows <<work_id, id>> of executions
  sessions,  \* rows <<work_id, execution_id>> of source_sessions; the legacy
             \* table has no column work_id: <<None, execution_id>>
  events,    \* rows <<work_id, execution_id>> of events
  ckpts,     \* work_id of the rows of checkpoints
  stamps,    \* rows of schema_migrations
  writer,    \* the process that holds the write lock, or None
  pc,        \* each process: its next statement
  saw,       \* saw[p][t]: the CREATE statement of t that p has read
  started    \* commands started so far

tables == <<shape, odd, works, execs, sessions, events, ckpts, stamps>>
vars == <<tables, writer, pc, saw, started>>

WorksOf(e) == {w \in works : <<w, e>> \in execs}
-----------------------------------------------------------------------------
(* The stores that earlier versions have left. *)

All(s) == [t \in Core |-> s]

CoreShapes == {All("absent"), All("legacy"), All("current"),
               [All("legacy") EXCEPT !["executions"] = "current"]}

CkptShape(core) == IF core["executions"] = "absent" THEN {"absent"}
                   ELSE {"absent", "legacy", "current"}

\* In the legacy shape an execution id is a primary key of its own.
OneWork(e) == Cardinality(WorksOf(e)) <= 1

\* What a stamp says: version 1 that the core tables, version 2 that all tables
\* have been rebuilt.
StampsHonest ==
    /\ stamps # {} => \A t \in Core : shape[t] = "current"
    /\ 2 \in stamps => shape["checkpoints"] # "legacy"

Init ==
    /\ \E core \in CoreShapes : \E k \in CkptShape(core) :
         shape = [t \in Tables |-> IF t \in Core THEN core[t] ELSE k]
    /\ odd \in {{}, {"events"}, {"checkpoints"}}
    /\ \A t \in odd : shape[t] = "legacy"
    /\ works \in SUBSET Works
    /\ shape["executions"] = "absent" => works = {}
    /\ execs \in SUBSET (works \X Executions)
    /\ \A w \in works : \E e \in Executions : <<w, e>> \in execs
    /\ shape["executions"] = "legacy" => \A e \in Executions : OneWork(e)
    /\ sessions = IF shape["source_sessions"] = "legacy"
                    THEN {<<None, ex[2]>> : ex \in execs}
                    ELSE execs
    /\ shape["events"] = "legacy" => \A e \in Executions : OneWork(e)
    /\ events = execs
    /\ ckpts \in IF shape["checkpoints"] = "absent" THEN {{}} ELSE SUBSET works
    /\ stamps \in {{}, {1}, {1, 2}}
    /\ StampsHonest
    /\ writer = None
    /\ pc = [p \in Procs |-> "idle"]
    /\ saw = [p \in Procs |-> [t \in Tables |-> "absent"]]
    /\ started = 0
-----------------------------------------------------------------------------
(* openStore. *)

Start(p) == /\ pc[p] = "idle"
            /\ started < MaxCommands
            /\ started' = started + 1
            /\ pc' = [pc EXCEPT ![p] = "open"]
            /\ UNCHANGED <<tables, writer, saw>>

Goto(p, step) == pc' = [pc EXCEPT ![p] = step]

\* CREATE TABLE IF NOT EXISTS writes only where a table is missing.
Created(ts) == [t \in Tables |-> IF t \in ts /\ shape[t] = "absent" THEN "current" ELSE shape[t]]

Open(p) ==
    /\ pc[p] = "open"
    /\ shape' = Created(Core)
    /\ shape' # shape => writer = None
    /\ Goto(p, "look")
    /\ UNCHANGED <<odd, works, execs, sessions, events, ckpts, stamps, writer, saw, started>>
-----------------------------------------------------------------------------
(* migratePerWorkIdentity. *)

Look(p) ==
    /\ pc[p] = "look"
    /\ saw' = [saw EXCEPT ![p] = [t \in Tables |-> IF t \in Core THEN shape[t] ELSE "absent"]]
    /\ Goto(p, "lookCkpt")
    /\ UNCHANGED <<tables, writer, started>>

\* Mutant: only the core tables are looked at.
NeedsCore(p) == {t \in Core : saw'[p][t] = "legacy"}

\* The tables that p is going to rebuild.
Needs(p) == {t \in Tables : saw'[p][t] = "legacy"}

LookCheckpoints(p) ==
    /\ pc[p] = "lookCkpt"
    /\ saw' = [saw EXCEPT ![p]["checkpoints"] = shape["checkpoints"]]
    /\ Needs(p) \cap odd = {}
    /\ Goto(p, IF Needs(p) = {} THEN "derive" ELSE "begin")
    /\ UNCHANGED <<tables, writer, started>>

\* The process exits.
Leave(p) == /\ Goto(p, "idle")
            /\ saw' = [saw EXCEPT ![p] = [t \in Tables |-> "absent"]]
            /\ writer' = IF writer = p THEN None ELSE writer
            /\ UNCHANGED <<tables, started>>

\* "Unsupported legacy store shape": a column is missing, nothing is touched.
RejectShape(p) ==
    /\ pc[p] = "lookCkpt"
    /\ \/ shape["checkpoints"] = "legacy" /\ "checkpoints" \in odd
       \/ \E t \in Core \cap odd : saw[p][t] = "legacy"
    /\ Leave(p)

\* Mutant: the versions are stamped before the tables are rebuilt.
StampFirst(p) ==
    /\ pc[p] = "begin"
    /\ writer = None
    /\ writer' = p
    /\ stamps' = Versions
    /\ Goto(p, "rebuild")
    /\ UNCHANGED <<shape, odd, works, execs, sessions, events, ckpts, saw, started>>

\* Mutant: BEGIN, which takes no lock before the first write.
BeginDeferred(p) == /\ pc[p] = "begin"
                    /\ writer' = p
                    /\ Goto(p, "rebuild")
                    /\ UNCHANGED <<tables, saw, started>>

BeginMigration(p) ==
    /\ pc[p] = "begin"
    /\ writer = None
    /\ writer' = p
    /\ Goto(p, "rebuild")
    /\ UNCHANGED <<tables, saw, started>>

\* Mutant: executions are grouped like sessions.
FirstExecutions == {<<Min(WorksOf(e)), e>> : e \in {x \in Executions : WorksOf(x) # {}}}

\* INSERT INTO executions_new ... SELECT: every row.
RebuiltExecutions == execs

\* Mutant: the session of every execution goes to the first Work.
FirstWork(e) == Min(works)

\* MIN(executions.work_id)
Owner(e) == Min(WorksOf(e))

\* INSERT INTO source_sessions_new ... JOIN executions ... GROUP BY execution_id.
RebuiltSessions ==
    LET ids == {s[2] : s \in sessions}
    IN  {<<Owner(e), e>> : e \in {x \in ids : WorksOf(x) # {}}}

\* The tables found to be legacy are rebuilt from what they hold by now, and the
\* stamps are part of the transaction.
Rebuild(p) ==
    LET found == {t \in Tables : saw[p][t] = "legacy"} IN
    /\ pc[p] = "rebuild"
    /\ shape' = [t \in Tables |-> IF t \in found THEN "current" ELSE shape[t]]
    /\ execs' = IF "executions" \in found THEN RebuiltExecutions ELSE execs
    /\ sessions' = IF "source_sessions" \in found THEN RebuiltSessions ELSE sessions
    /\ stamps' = stamps \cup (IF found \cap Core # {} THEN {1} ELSE {})
                        \cup (IF "checkpoints" \in found THEN {2} ELSE {})
    /\ writer' = None
    /\ Goto(p, "derive")
    /\ UNCHANGED <<odd, works, events, ckpts, saw, started>>
-----------------------------------------------------------------------------
(* The rest of ensureDerivedSchema, and the command itself.                  *)

\* CHECKPOINTS_SCHEMA_SQL.
CreateCheckpoints(p) ==
    /\ pc[p] = "derive"
    /\ shape' = Created({"checkpoints"})
    /\ shape' # shape => writer = None
    /\ Goto(p, "stamp")
    /\ UNCHANGED <<odd, works, execs, sessions, events, ckpts, stamps, writer, saw, started>>

\* stampSchemaVersions(db, allSchemaVersions()).
StampAll(p) ==
    /\ pc[p] = "stamp"
    /\ writer = None
    /\ stamps' = Versions
    /\ Goto(p, "ready")
    /\ UNCHANGED <<shape, odd, works, execs, sessions, events, ckpts, writer, saw, started>>

\* persistObservedWork: execution e of a session, into its own Work or another.
Import(p, w, e) ==
    /\ pc[p] = "ready" /\ writer = None
    /\ works' = works \cup {w}
    /\ execs' = execs \cup {<<w, e>>}
    /\ sessions' = sessions \cup {<<w, e>>}
    /\ events' = events \cup {<<w, e>>}
    /\ Goto(p, "idle")
    /\ UNCHANGED <<shape, odd, ckpts, stamps, writer, saw, started>>

\* createFork of the whole of w.
Fork(p, w, c) ==
    /\ pc[p] = "ready" /\ writer = None
    /\ w \in works /\ c \notin works
    /\ works' = works \cup {c}
    /\ execs' = execs \cup {<<c, e>> : e \in {x \in Executions : <<w, x>> \in execs}}
    /\ sessions' = sessions \cup {<<c, e>> : e \in {x \in Executions : <<w, x>> \in sessions}}
    /\ events' = events \cup {<<c, e>> : e \in {x \in Executions : <<w, x>> \in events}}
    /\ Goto(p, "idle")
    /\ UNCHANGED <<shape, odd, ckpts, stamps, writer, saw, started>>

Checkpoint(p, w) ==
    /\ pc[p] = "ready" /\ writer = None
    /\ w \in works
    /\ ckpts' = ckpts \cup {w}
    /\ Goto(p, "idle")
    /\ UNCHANGED <<shape, odd, works, execs, sessions, events, stamps, writer, saw, started>>

\* A statement meets a lock or fails, or the process dies: an open transaction is
\* rolled back.
Fail(p) == pc[p] # "idle" /\ Leave(p)

Next == \E p \in Procs :
          \/ Start(p) \/ Open(p) \/ Look(p) \/ LookCheckpoints(p) \/ RejectShape(p)
          \/ BeginMigration(p) \/ Rebuild(p) \/ CreateCheckpoints(p) \/ StampAll(p)
          \/ (\E w \in Works, e \in Executions : Import(p, w, e))
          \/ (\E w, c \in Works : Fork(p, w, c))
          \/ (\E w \in Works : Checkpoint(p, w))
          \/ Fail(p)

Spec == Init /\ [][Next]_vars
-----------------------------------------------------------------------------
(* Properties. *)

Steps == {"idle", "open", "look", "lookCkpt", "begin", "rebuild", "derive", "stamp", "ready"}

TypeOK ==
    /\ shape \in [Tables -> {"absent", "legacy", "current"}]
    /\ odd \subseteq Tables
    /\ works \subseteq Works
    /\ execs \subseteq Works \X Executions
    /\ sessions \subseteq (Works \cup {None}) \X Executions
    /\ events \subseteq Works \X Executions
    /\ ckpts \subseteq Works
    /\ stamps \subseteq Versions
    /\ pc \in [Procs -> Steps]
    /\ saw \in [Procs -> [Tables -> {"absent", "legacy", "current"}]]
    /\ started \in 0..MaxCommands
    /\ writer \in Procs \cup {None}
    /\ \A p \in Procs : writer = p <=> pc[p] = "rebuild"

\* A command that goes on to read and write Works finds every table in the
\* current shape, which its upserts on (work_id, id) need, although it looked at
\* the tables long before and other processes migrate as well.
ReadyCurrent == \A p \in Procs : pc[p] = "ready" => \A t \in Tables : shape[t] = "current"

\* PRAGMA foreign_key_check finds nothing, although the migration runs with
\* foreign_keys = OFF.
KeysHold ==
    /\ \A ex \in execs \cup events : ex[1] \in works
    /\ ckpts \subseteq works
    /\ events \subseteq execs
    /\ shape["source_sessions"] = "current" => sessions \subseteq execs
    /\ shape["source_sessions"] = "legacy" => \A s \in sessions : WorksOf(s[2]) # {}

\* No command, however stale what it saw, loses a Work, an execution, an event or
\* a checkpoint, or every row of a source session.
RowsKept ==
    [][/\ works \subseteq works' /\ execs \subseteq execs'
       /\ events \subseteq events' /\ ckpts \subseteq ckpts'
       /\ {s[2] : s \in sessions} \subseteq {s[2] : s \in sessions'}]_vars

-----------------------------------------------------------------------------
(* The inductive invariant. *)

\* What p has seen, or done, tells of the tables by now: they only move on.
Known(p) ==
    /\ pc[p] \notin {"idle", "open"} => \A t \in Core : shape[t] # "absent"
    /\ pc[p] \in {"lookCkpt", "begin", "rebuild"} =>
         \A t \in Core : saw[p][t] # "legacy" => shape[t] = "current"
    /\ pc[p] \in {"begin", "rebuild"} /\ saw[p]["checkpoints"] # "legacy" =>
         shape["checkpoints"] # "legacy"
    /\ pc[p] = "derive" => /\ \A t \in Core : shape[t] = "current"
                           /\ shape["checkpoints"] # "legacy"
    /\ pc[p] \in {"stamp", "ready"} => \A t \in Tables : shape[t] = "current"

Inv == /\ TypeOK
       /\ StampsHonest
       /\ KeysHold
       /\ shape["source_sessions"] = "absent" => sessions = {}
       /\ \A p \in Procs : Known(p)
-----------------------------------------------------------------------------
(* What the comments say of the rebuild, and a stale look breaks. *)

\* persist.ts, on the rebuild of source_sessions: "so the backfill inserts exactly
\* one row per source session": a Work that has the source session of an execution
\* keeps it.
SessionsKept ==
    [][\A s \in sessions : s[1] # None => s \in sessions']_vars
=============================================================================
