# Harnie: specifications, checks and proofs

Harnie (TypeScript, `src/src`, about 9300 lines) is a local-first command-line
tool. It reads the session files that coding harnesses write (Pi, Codex, Grok,
OpenCode), keeps what it observed as *Works* in one SQLite file
(`$HARNIE_HOME/harnie.db`), freezes Works in *checkpoints*, *forks* them, and
renders *handoffs* from which another harness can continue.

There is no server. **Every `harnie <command>` is an operating-system process of
its own**, all of them share the one SQLite file (`node:sqlite`, busy timeout 0,
rollback journal), and a user, a hook and a harness may start several at once.
A process reads with autocommit `SELECT`s, one after the other, and writes in one
`BEGIN IMMEDIATE` transaction. What happens between two of those statements is
what this project is mostly about.

## 1. Inventory

| Component (source under `src/src`) | State | Operations | Modelled in |
| --- | --- | --- | --- |
| Work store: writes (`store/persist.ts`, `engine/import.ts`) | tables works, executions, source_sessions, events, and the claims of a Work | `loadWork`, `persistObservedWork`, `persistDerivedClaims`, `importPiSessionFile` | `HarnieStore` |
| Observation (`work/observe.ts`) | none (lists in memory) | `reconstructObservedWork`, `attachObservedWork`, `reconcileToolDiagnostics` | `Listings`, `HarnieStore`, `ToolDiagnostics`, `Ingestion` |
| Derived claims (`work/derive.ts`, `work/operations.ts`) | none (pure) | goal, decisions, findings, next steps, operations | `Derivation` |
| Checkpoints (`store/checkpoints.ts`) | table checkpoints | `createCheckpoint` | `HarnieStore` |
| Forks (`store/fork.ts`) | forked_from_* columns | `createFork`, `loadWorkAtCheckpoint` | `HarnieStore` |
| Schema and migration (`store/persist.ts`, `store/schema.ts`) | shape of the tables, schema_migrations | `ensureDerivedSchema`, `migratePerWorkIdentity` | `StoreMigration` |
| Backup and restore (`store/backup.ts`, `cli/backup.ts`) | the file, its journal, temp files, the backup | `backupHarnieStore`, `restoreHarnieStore` | `StoreFile` |
| Opening the store (`store/database.ts`, `store/paths.ts`) | connection | `openStore` | first step of every command above (partly) |
| Commands that write (`cli.ts`, `cli/import.ts`, ...) | none | which store operations, in which order | `HarnieStore` (partly) |
| Handoff projection and budget (`work/handoff.ts`, `work/context.ts`) | none (pure) | `applyHandoffBudget`, `extractObservedContext`, `resolveCurrentState` | `HandoffBudget`, `ObservedContext`, `WorkView` (partly) |
| Pi adapter (`pi/*.ts`) | none (pure) | `readPiJsonlText`, `validatePiGraph`, `correlatePiTools`, `normalizePiRecords` | `Transcripts`, `PiGraph`, `ToolDiagnostics`, `Ingestion` |
| Codex and Grok adapters (`codex/*.ts`, `grok/*.ts`) | none (pure, after two reads) | `readCodexJsonlText`, `readGrokSessionPath`, `normalizeCodexRollout`, `normalizeGrokSession` | `Transcripts`, `Ingestion` |
| OpenCode adapter (`opencode/*.ts`) | none (two `SELECT`s of another program's database) | `readOpenCodeSqliteFile`, `readOpenCodeSnapshotText`, `normalizeOpenCodeSnapshot`, `importOpenCodeSessionFromDb` | `OpenCodeSnapshot`, `Ingestion` |
| Work diff (`work/diff.ts`) | none (pure) | comparison of two Works | not modelled (section 8) |
| Handoff renderers, redaction, session discovery, read-only commands, flags and envelope, packaging | none, or text only | | not modelled (section 8) |

How they interact: `cli.ts` parses the arguments and calls one command. `import`
awaits the session file, normalizes and correlates its records, reconstructs
events, loads the target Work, merges, derives claims, and persists both in one
transaction. `checkpoint` loads, then in a transaction pins a watermark, a count
and the claims. `fork` loads the parent, chooses (or creates) a checkpoint,
derives the child's claims, draws an unused id, and copies rows in a transaction.
`handoff` loads, pins to a checkpoint if one is named, projects, and applies the
budget. Every `loadWork` runs the migration first. `restore` replaces the file
under everybody.

What is hard, and what makes each component correct:

* *Store.* Imports merge into a Work they loaded before they held the lock. The
  order of events must nevertheless be determined, follow each session's file, and
  never change; stored claims may become stale but must never cite what the Work
  does not hold.
* *Checkpoints and forks.* A checkpoint is a number (a watermark) and must go on
  meaning the same events for ever, in the Work and in forks, which number their
  own later events from the same watermark on.
* *Migration.* Which tables are legacy is looked up outside the transaction that
  rebuilds them, by processes that race; foreign keys are off meanwhile.
* *Backup and restore.* A rename and the removal of a journal are two calls, and a
  process may be killed between them, or in the middle of a commit.
* *Diagnostics.* A tool call imported before its result is stored with a
  diagnostic that nothing rewrites; every view must see through it, but a view at
  a checkpoint only as far as its own events go.
* *Sessions.* A harness writes while Harnie reads: the last line is torn, a summary is
  missing, the result of a call comes late, a part belongs to a message that was read
  too early, a revert removes what is stored. Event ids are made of line numbers and
  part ids, and the identity of the session of its first line or, for Grok, of its
  summary or its directory; each should mean the same at every later import.
* *Budget.* A running total, decremented with separators and markers whose length
  depends on what they count, decides what a handoff still says.

`PROJECT.json` lists these hazards one by one, with the line where each bites.

## 2. Modules

```
Listings            ordered tables: NextOrdinal, Renumber, InsertOrIgnore, Below ...
  Derivation        which events become which claim, with which evidence
    HarnieStore     commands of several processes, statement by statement
      StoreInvariant          the inductive invariants
        HarnieStore_proofs    (uses ListingLemmas)
      StoreImplementsWorkLog  refinement mapping to WorkLog
        StoreImplementsWorkLog_proofs  (extends HarnieStore_proofs)
        MCHarnieStore         (extends StoreInvariant as well)
WorkLog             abstract specification: append-only logs, snapshots, forks
StoreMigration      MCStoreMigration, StoreMigration_proofs
StoreFile           MCStoreFile, StoreFile_proofs
HandoffBudget       MCHandoffBudget, HandoffBudget_proofs (uses ListingLemmas)
ToolDiagnostics, ObservedContext -> WorkView -> MCWorkView
                                             -> WorkView_proofs (uses ListingLemmas)
PiGraph             the tree of a Pi session
  Transcripts       Codex, Grok and Pi: lines accepted, session, events, diagnostics
OpenCodeSnapshot    OpenCode: messages and parts
Transcripts, OpenCodeSnapshot, Listings -> Ingestion -> MCIngestion
                                                     -> Ingestion_proofs
```

Definitions that begin with the comment "Mutant:" are deliberate mistakes. They
are not part of any specification; each one shows that a property can fail.

### 2.1 HarnieStore (with Listings and Derivation)

An event is a pair `<<session, line>>`; `Script` says what each line is (prompt,
decision, statement, tool call, tool result, other) and which call a result
answers. A table with an order is a *listing*, a function from ids to ordinals.

| Variable | Code |
| --- | --- |
| `lines` | what the harness has written so far; environment action `Record`. A torn last line of a JSONL file is skipped by the reader, so it is a shorter prefix |
| `works`, `rows`, `execs`, `ckpts`, `origin` | tables works, events (ordinal), executions (rowid), checkpoints, and forked_from_* |
| `claims` | goal_json and the claim tables of a Work: sets of event ids (their evidence) |
| `writer` | who holds SQLite's RESERVED lock |
| `pc`, `job` | each process: its next statement, its local variables (`seen` = the Work it loaded, `pinned` = what its transaction reads first) |

| Action | Code |
| --- | --- |
| `StartImport`, `StartCheckpoint`, `StartFork`, `StartHandoff` | arguments; the store is opened (cli/import.ts:120), then the session file is read, before the Work is loaded |
| `LoadRow`/`LoadAbsent`/`RejectUnknownWork`, `LoadEvents`, `LoadClaims` | `loadWork` (persist.ts:230-311): separate autocommit `SELECT`s. The first needs the write lock, because `stampSchemaVersions` executes `INSERT OR IGNORE` on every load |
| `BeginWrite`, `CommitImport` | `persistObservedWork` and `persistDerivedClaims` |
| `LoadForCheckpoint`, `BeginCheckpoint`, `CommitCheckpoint` | `createCheckpoint` |
| `SelectCheckpoint`, `Seed`, `CommitFork`, `RejectTakenChild`, `RejectEmptyFork` | `createFork` |
| `Pin`, `Finish` | `handoff [--checkpoint k]` |
| `Busy` | `SQLITE_BUSY`; nothing retries |
| `Fail` | any statement throws (COMMIT and reads can be busy too), or the process is killed: the journal undoes an open transaction |

Statements are merged only where nobody can see the difference: the executions
with the row of the Work, and the look-up of a checkpoint with the `SELECT` by its
watermark (checkpoints are immutable and rows below a mark never change, both of
which are proved). Wording, redaction and diagnostics are abstracted here.

`WorkLog` is what the store promises: a Work is an append-only log of distinct
events, a checkpoint summarises the whole log at the moment it is taken, a fork is
born in one step as the prefix one checkpoint covers. `StoreImplementsWorkLog`
maps `log[w]` to the rows ordered by ordinal; the property `ImplementsWorkLog`
says that every command, however it is interleaved, acts as one such step or none.
The i-th entry of a log is the event with i - 1 others before it, so that the mapping
is defined whether or not ordinals have gaps; that they have none is proved.

### 2.2 StoreMigration

State: for each table its shape (absent, legacy, current), `stamps` (rows of
schema_migrations), the rows that the rebuild moves (`works`, `execs` as pairs of
Work and execution, source sessions, events, checkpoints), `odd` (a table whose
columns `validateMigrationShapes` rejects), the lock, and what each process *saw* when
it looked. `Init` has every combination of shapes that a released version could
have left, stamped honestly. Actions follow a command: `Open` (creates missing
tables), `Look` and `LookCheckpoints` (sqlite_master, outside the transaction),
`RejectShape`, `BeginMigration`, `Rebuild` (one transaction, stamps included),
`CreateCheckpoints`, `StampAll`, then `Import`, `Fork` or `Checkpoint` on the ready
store, and `Fail` anywhere. `odd` never changes, so the read of the columns is folded
into `LookCheckpoints`; `DERIVED_SCHEMA_SQL` and the `ALTER TABLE`s are folded into
`CreateCheckpoints`.

### 2.3 StoreFile

State: `content` of each file (inode), which one is `live`, the backup `bak`, the one
`journal` beside the store (whose it is, what it restores, and whether it is hot),
each process's connection. A commit is `Begin`, `Flush` (journal synced, pages
written) and `Commit` (journal removed). Backup is `VacuumInto`, `VacuumEnd`,
`Publish`; restore is `InspectSource`, `Guard`, `CopySource`, `Replace` (rename),
`Sweep` (removal of journal files, which may fail and is then ignored), `Reopen`;
`GiveUp` is the error path and `Crash` a kill. What SQLite does (locks, hot journals, `SQLITE_READONLY_DBMOVED`)
is modelled from its documented behaviour and marked external. `careful` is a
history variable: so far restores ran alone, and none was killed between rename and
sweep or failed to remove a journal. Nothing in the code ensures it; the violation runs show what happens without.

Simplifications, each named in the module or here: the store exists (a restore
into an empty home is not modelled); the source of a restore is the path of
backups; pages of one file in another count as torn; two writers that share an
unsynced journal, and playback in the middle of a command, are simplified.
A COMMIT that fails after the pages are written counts as a kill: the next reader
plays the journal back, as the `ROLLBACK` of the error path would.

### 2.4 HandoffBudget

`applyHandoffBudget` is a loop over three layers, and the module has one action for
each move: `Truncate` (items of a section), `DropOldest`/`NextSection` (section
limit), `Measure`, `DropSection` (total limit, the least important first), `Finish`.
A text is its length and the place of at most one redaction marker. `omittedChars`
and `truncatedItems` (counts for the report), `trimEnd` at the cut and the cap on
executions are left out. The test `removedSize === 0` never succeeds, since no item
is empty.

That a handoff fits depends on the limits. `LimitsAssumption` says what they must
satisfy: the rooms of all sections together (a marker for a section that may be dropped;
one cut line for a protected section of one line; otherwise a full list and its marker)
are no more than the total. With the code's limits and its fifteen sections, five of
them protected and four of those a line (handoff.ts:123-141, 255-305), that is
4 * 267 + 1225 + 10 * 24 = 2533 of 6000 characters. TLC evaluates the assumption with
the limits of the run.

### 2.5 ToolDiagnostics, ObservedContext, WorkView

`ToolDiagnostics` is the Pi correlation of calls and results (duplicate ids, orphans,
missing results), the events of a line, and `attachObservedWork` and
`reconcileToolDiagnostics` on them. `ObservedContext` is what a handoff says of edits,
tests, pending calls and the verification. `WorkView` is one Work into which
sessions are imported one at a time while their files grow, and of which checkpoints
are taken; `Live` and `AtCheckpoint` are the two views. Stored operations and next
steps are recomputed from the events of the view: equal to the stored ones when
commands run one at a time (`ClaimsCurrent`) and at a checkpoint (`CheckpointPinned`).

### 2.6 Ingestion (with Transcripts, PiGraph and OpenCodeSnapshot)

`HarnieStore` takes the lines of a session as given and lets imports race; `Ingestion`
is the other half: where the lines come from. It has one session of one of the four
harnesses, which goes on writing it, and imports of it, one at a time.

| Variable | Code |
| --- | --- |
| `harness`, `file` | the session file, line by line |
| `names`, `sidecar` | of a Grok session: the name of its directory (`None` for a transcript that was taken out of it and renamed) and the id in its summary, and what a read of `summary.json` gives now: `NoSummary` where there is none that can be parsed, else the id or `None` |
| `messages`, `parts` | the tables of OpenCode's database, in the order of `(time_created, id)` |
| `job` | what the import that runs has read so far |
| `works` | by source id: the rows of the events with their ordinals, what the rows were first written with (`call`, the diagnostics `found`), and the diagnostics of the Work |

| Action | Code |
| --- | --- |
| `AppendLine`, `CompleteLine`, `WriteSummary`, `RewriteSummary` | the harness (external): a line, the rest of a torn line, the summary. The summary holds the time and the counts of the session, so that it is written again, and cannot be parsed meanwhile. A torn line that is followed by another one stays torn: its writer crashed |
| `AddMessage`, `AddPart`, `ChangePart` | OpenCode (external): parts anywhere in the order, since times may tie; text that is streamed, calls that run and end, reverts |
| `ReadFile`, `ReadSummary` | `readPiJsonlFile`, `readCodexJsonlFile`, `readGrokSessionPath`: transcript first, summary second; the two may be of different moments |
| `ReadMessages`, `ReadParts` | the two `SELECT`s of `loadSqliteSnapshot`, which are not in a transaction |
| `ReadSnapshot` | `readOpenCodeSnapshotFile`: both as they were when exported |
| `Store` | reconstruct, load, attach, persist |
| `Refuse` | the reader throws (no record, no `session_meta`, no id, no name of a Grok session), or two operations of one id roll the transaction back |
| `Fail` | anything else that ends an import before it commits |

`Transcripts` is what the readers and normalizers compute: `RejectionCode` (the order of
tests that a line must pass), `SourceId` with `GrokId` (`resolveSessionId`: the summary
first, the directory otherwise), `KindOf` (which record becomes which
event), `EventId` and `CallTag` (what an id is made of), `FileReports`, and, for Pi,
which diagnostics end up on which event (`FoundOn`). `PiGraph` is `validatePiGraph`;
its walk over parents is compared with a definition of its own (`Endless`).
`OpenCodeSnapshot` is `normalizeOpenCodeSnapshot`.

Simplifications: payload text is whether there is any to show; tool arguments, models
and timestamps (`malformed_timestamp`) are left out; every call names a tool, so that
it is an operation; session headers carry a `cwd`, and no other record does, and a
summary that names a Grok session names its `cwd` too; the two versions of the Pi format
are one; a session is always imported from one path, and its id in the summary does not
change; the OpenCode session exists, and JSON in its tables is valid or the import fails. How the diagnostics of Pi tool calls behave is `WorkView`.

## 3. Runs

| Run | Question | Instance | Result |
| --- | --- | --- | --- |
| `concurrent` | Are orders, checkpoints, forks, claims and pinned views right under any interleaving and failure, and is every command one atomic step of `WorkLog`? | 2 processes, 4 commands, 2 sessions of 2 lines, 1 fork | holds, 957 014 states |
| `sequential` | What holds only while commands run one at a time? | 1 process, 5 commands, 2 forks | holds, 778 171 states |
| `fork_halves` | Are a fork's claims those of the events it copies (fork.ts:97-99)? | 2 processes, 3 commands | **violated** |
| `migration` | Does racing, failing migration keep rows, keys and honest stamps? | 2 processes, 3 commands, 2 Works, 2 executions, stores of every age | holds, 95 440 states |
| `migration_sessions` | Does the rebuild keep exactly one row per source session? | the same | **violated** |
| `store_file` | Is what was committed in the store, and a backup one recent whole state? | 2 processes, 4 commands, 2 kills | holds, 2 809 013 states |
| `restore_guard` | Is a newer store overwritten only with `--force` (backup.ts:115)? | 1 process | **violated** |
| `restore_torn` | Does a failed restore never leave a half-written store (BACKUP-RECOVERY.md:51)? | 1 process, kills | **violated** |
| `handoff_budget` | Does the budget drop the right things, count them, and fit? | the code's limits 240/1200/6000, 8 of the 15 sections | holds |
| `work_view` | Do diagnostics, verification and open work agree with the events of each view? | sessions of at most 3 and 2 lines with shared call ids, 1 checkpoint | holds, 151 815 states |
| `ingestion` | Does a session that is read while it is written keep its events, its identity and true reports, and is all of it there in the end? | each harness; files of 3 lines (Grok 2) with up to 2 calls, 2 messages and 2 parts; 4 pairs of names of a Grok session | holds, 503 702 states |
| `grok_names` | Is importing the same file again idempotent (SUPPORT-MATRIX.md:42)? | Grok | **violated** |

The properties, by what they guard against:

* `concurrent`: `OrdinalsUnique`, `SessionOrder` (two imports that merged the same old
  Work), `CheckpointPinned`, `ForkPrefix`, `HistoryKept` (what a watermark covers),
  `ExecutionsCover` (two `INSERT ... SELECT`s must agree), `ClaimsGrounded` (stale
  derivations), `PinnedViewExact` (a handoff read in pieces), `NamedForkExact`,
  `ImplementsWorkLog`.
* `sequential`: `ClaimsCurrent`, `ForkIsCheckpoint`, `ReimportIdempotent`. All three
  fail with two processes, which `concurrent` therefore does not check.
* `migration`: `StampsHonest`, `ReadyCurrent`, `KeysHold`, `RowsKept`.
* `store_file`: `Durable`, `BackupWhole`, `BackupIsRecent`.
* `handoff_budget`: `TotalExact`, `NewestSurvive`, `AllCounted`, `UncertaintyKept`,
  `AlwaysFits`, `MarkersClosed`.
* `work_view`: `MissingExact`, `LiveDiagnosticsCurrent`, `VerifiedMeansTested`,
  `OpenWorkIsNamed`, `CheckpointViewStable`.
* `ingestion`: `HoldsPrefix` (rows are the events of a prefix of the file as it is now:
  what was torn, rejected or completed meanwhile leaves no trace), `OneWork` (the next
  import finds what earlier ones stored: there is one Work, and for a Grok session with two
  names none but the two of these names), `SnapshotHeld` (late results, parts in between
  and messages read too early), `ReportsExact` (everything that is wrong is reported, and
  which reports outlive what they are about), `CyclesExact`,
  `CaughtUp` (`HoldsPrefix` allows any prefix; this says that it becomes the whole file).
* `grok_names`: `ReimportAddsNothing`, which a session with one name satisfies.

`concurrent` and `migration` check a `TypeOK`, which also says that exactly the process
inside a transaction holds the lock, and `work_view` one. The inductive invariants
`Inv` of the proofs contain the first two; they were model-checked before they were proved.

### Bounds, and why they are enough

* *Processes, commands.* Two processes at a time show every pair of overlapping
  commands; four commands are two that set a Work up (an import, a checkpoint) and
  two that race on it, and with three `fork_halves` already appears. The proofs lift
  both bounds for the safety properties.
* *Sessions, lines.* Two sessions of two lines: one with a call and its result, one
  with a prompt and a statement that is a finding only after a result of the other.
  This is the smallest script in which an order of events changes every claim.
* *Fork ids.* The code draws from 2^40 values until one is free. Two ids suffice for
  three commands, of which at most two are forks that finish; with one id `RejectTakenChild`
  happens as well.
* *Migration.* Two Works that share an execution are the case that the per-Work
  identity was introduced for. Three commands are one that migrates, one that has
  looked before it, and one that uses the store in between.
* *StoreFile.* Two kills are one in a commit and one in a restore.
* *Budget.* The limits are those of the code; sections lie below, at and above each of
  them, with items cut at a redaction marker. `MaxDigits` bounds counts at 8 digits.
* *WorkView.* Three lines are a call, its result, and something in between or a
  second one with the same id.

* *Ingestion.* Three lines are a header, a torn line and what comes after it, or the
  smallest cycle that an entry outside leads into; two lines of Grok with two calls
  each are a call without id, one whose id is the number of another's place, and two
  with one id. Two parts and two messages are a result that comes after a later part,
  and a part of a message that was not read. The names of a Grok session agree, differ, or
  are only one: that of the directory or that of the summary.

`MaxCommands`, `MaxLines`, `MaxCrashes`, `MaxDigits`, `MaxCalls`, `MaxMessages` and
`MaxParts` are the only bounds. Runs with `MaxCommands` and the budget run switch deadlock
checking off, since all is quiet when the last command has ended; `work_view` and
the runs of `Ingestion` check it. Symmetry is used over processes only, and in no run with
a liveness property.

### Fairness

No specification assumes any. A command is a chain of steps that cannot wait (the busy
timeout is 0), so that it ends by its shape; what has to happen *eventually* is what
several commands achieve together, and that depends on users and harnesses, which the code
cannot make do anything. `CaughtUp` therefore carries its premises itself: the harness stops
writing (`<>[][UNCHANGED source]_vars`), and imports keep succeeding, though any of them may
fail (`[]<><<Store>>_vars`). A session that is refused for ever is outside of it, and none
of its actions is assumed to be fair.

## 4. What is proved

TLAPS checks eight modules of proofs: `HarnieStore_proofs` and
`StoreImplementsWorkLog_proofs`, `StoreMigration_proofs`, `StoreFile_proofs`,
`HandoffBudget_proofs`, `Ingestion_proofs` and `WorkView_proofs`, and the lemmas they
share, `ListingLemmas`.

### HarnieStore

From `StoreAssumption` (finitely many sessions; names of different kinds are
different, and `None` is no checkpoint; `MaxCommands` is a natural number) and
`ScriptAssumption`, for any set of processes and fork ids and any number of commands:

| Theorem | Property |
| --- | --- |
| `Invariance` | `[]Inv` |
| `TypeCorrect`, `OrdinalsStayUnique`, `CheckpointsStayPinned`, `ForksSharePrefix`, `ClaimsStayGrounded`, `PinnedViewsExact` | the invariants, conjuncts or consequences of `Inv` |
| `HistoryIsKept`, `NamedForksExact` | the action properties, from `Inv` |
| `ExecutionsStayCovering` | `ExecutionsCover`, inductive relative to `Inv` |
| `OrderInvariance`, `SessionsStayInOrder` | `[]OrderInv`, inductive relative to `Inv`, and `SessionOrder` |
| `StoreIsWorkLog` | `ImplementsWorkLog`: the refinement, from `Inv` and `OrderInv` |
| `AloneInvariance`, `ClaimsStayCurrent`, `ForksAreCheckpoints`, `ReimportsChangeNothing` | `[]AloneInv`, `ClaimsCurrent`, `ForkIsCheckpoint`, `ReimportIdempotent`, if commands run one at a time |

None of the properties is inductive alone. `Inv` (module `StoreInvariant`) is
`TypeOK /\ DbInv /\ ProcInv /\ ViewInv`:

* `DbInv`: a Work that does not exist has no rows (`Unborn`); `OrdinalsUnique`,
  `CheckpointPinned`, `ForkPrefix`; and **`MarksExact`**, on which the argument turns:
  a watermark is the ordinal after the last event it covers *of the rows as they are now*.
  A writer numbers from the next free ordinal of the table, so it never numbers below
  any watermark of its Work, and `Below(rows, mark)` is unchanged by an import. For a
  fork, whose rows are those below a mark of its parent, the same holds from the mark on.
* `ProcInv`: which command is at which statement with which local variables
  (`JobOK`), and what a transaction read first is still so (`PinnedOK`), because the
  lock keeps others out.
* `ViewInv`: what a process loaded is still in the table at the same ordinals
  (`SeenOK`), includes all that a named checkpoint covers (`NamedOK`), a fork derives
  only from events it will copy (`SeedOK`), `ClaimsGrounded`, `PinnedView`.

The proof has one lemma per action. Most actions move one process and leave the
database alone (`DbUnchanged`, `Continued`); the three commits each have a lemma for
the database (`ImportStep`, `CheckpointStep`, `ForkStep`), and `OtherKeeps` says that
what *another* process knows survives any step under which the database `Grows`.

*Order.* `OrderInv` says that ordinals have no gaps (`NoGaps`), that the events of a session
are the first lines of it in their order (`SessionOrder`), and that this is so of the list
an import has loaded, too (`SeenInOrder`). The last conjunct is what makes it inductive: an
import appends the lines that *the table* lacks from a list that merged the file with what
it *loaded*, so events that another import has stored meanwhile drop out of the middle
of that list, and what is left still continues each session.

*Refinement.* With no gaps, the event of ordinal i is entry i + 1 of the log, so that rows
that are only appended to are a log that is only extended (`LogGrows`), and the rows
below a watermark are the first `count` entries (`LogUpTo`, `CountIsMark`). `StepMaps`
then goes through `Next`: an import's commit is `Extend`, a checkpoint's `Snapshot`,
a fork's `Fork`, and every other step, failures and kills included, is a stutter. The
summary of a snapshot is a function of the log alone, since `Derive` depends on the rows
only, and the rows can be had back from the log (`RowsOfLog`).

*One at a time.* `OneAtATime` says that there is one process. It is a hypothesis because
the properties are false without it (section 3), and what `SeenCurrent` says of that process
is the whole argument: between its load and its commit the tables are what it has seen.

### StoreMigration

For any number of processes, Works and executions: `Invariance`,
`MigrationTypeCorrect`, `StampsStayHonest`, `ReadyMeansCurrent`, `KeysAlwaysHold`,
`RowsAreKept`. `Inv` adds to the properties that a store without tables has no
sessions, and `Known(p)`: what a process saw may be old, but tables only move on
(absent to current, legacy to current), so acting on it can repeat a rebuild and
cannot undo one. `RowsKept` then follows from what a rebuild of *current* tables does.

### StoreFile

From `FileAssumption` (`None` is no process, no file and no journal; the bounds are natural
numbers), for any set of processes and any numbers of commands and kills: `Invariance`,
`StoreIsDurable` (`Durable`), `BackupsAreWhole` (`BackupWhole`), `BackupsAreRecent`
(`BackupIsRecent`). `Inv` adds, as long as `careful` holds: a file without a name is its
command's alone (`Names`, which holds in any case), everybody has the live file open and a
restore is alone (`Alone`), whoever is in a transaction is so alone and the journal
undoes exactly what was written (`Undone`: a cold journal before the flush, a hot one
with the content of before after it), and what a backup or a restore has copied is whole
and as recent as it must be (`Copied`). A kill needs no case of its own for `Durable`:
`Undone` says that playing the journal back gives what was acknowledged.

### HandoffBudget

For any sections, priorities, limits, items and inputs that `BudgetAssumption` allows
(sections with one priority are protected; a finding is kept): `Invariance`, `TotalIsExact`,
`NewestAreKept`, `AllAreCounted`, `UncertaintyIsKept`, `MarkersAreClosed`, and, with
`LimitsAssumption` (2.4), `HandoffsFit`. The invariant says of each layer what it leaves to
the next: what is left of a section is its newest items as they were truncated
(`Newest`), the counters of sections that have been cut say what is missing (`Counted`),
and sections go in the order of their priorities (`Ordered`). `TotalExact` is about sums
over all sections; the lemmas `Sum...` prove, by induction on the size of the set, that the
fold of the library does not depend on the order it takes elements in, so that a sum changes by
what one section changes. `HandoffsFit` bounds each section of a finished handoff by its
room: if the total is above the limit and the queue is empty, all that can go has gone.

### Ingestion

For any lines that a harness may write, files of any length and any number of imports,
from `IngestionAssumption` (no line makes more than `MaxCalls` calls), any names of a Grok
session and, for OpenCode, any numbers of messages and parts, which is every property of
the run `ingestion` but `CaughtUp`:

* `SessionHasOneWork` (`OneWork`). It is not inductive: an import that has
  read the file may store it much later. `Inv` adds what makes that harmless: what an
  import has read is what the file was (`Grown`: no line but a torn last one has changed
  since) and what the summary is or was, and a file with rows in a Work has a record. Of a
  Grok session it says no more than is true: beside the Work of its directory's name there
  may be that of its summary (`Homed` has the summary that names each as a witness). The argument is `HeaderKept`: a file
  that goes on keeps its records and gains none before them, so its first record, and
  with it the source id, stays.
* `RowsArePrefixes` (`HoldsPrefix`). Beside `Inv`, the rows of every Work are those of
  *something that the file was* (`PrefixInv`). Of two such things one has become the other
  (`Comparable`), the longer one keeps the events of the other and gains only later ones under
  ids of their own (`EventsKept`, `ListingKept`), and so merging either into the other
  gives what the longer one lists (`AppendToBeginning`, `AppendKnown`). Without its torn line,
  what the file was is a prefix of what it is (`GrownFromPrefix`).
* `SnapshotsAreHeld` (`SnapshotHeld`). `SnapInv`: a part that has ended in what was read, or
  whose result is stored, has ended in the database too (it can only be removed since), and a
  stored result follows its stored call. `SnapshotTidy` says what is listed of a snapshot, and
  appending keeps both what is stored and the order of what is new.
* `CyclesAreExact` (`CyclesExact`). A walk exists by induction on its length (`WalkExists`).
  What it saw when it comes back is closed under `parent` (`ComesBackIsEndless`), and a walk
  in a closed set has one step more than the set has entries (`EndlessComesBack`, by the
  pigeonhole principle).
* `ReportsAreExact` (`ReportsExact`). When a file goes on, only a torn line, a missing parent and
  what is in `Lasting` can cease to be reported (`ReportsKept`). `ReportInv` says that
  every report of a Work was said of something that the file was, for the same source id, and
  that a missing parent is also on a row of its line, however old that row is: a parent
  that is missing later was missing when the row was written (`OrphanFound`). The
  next import observes that event again and gives the report up (`KeptReports`). This needs
  that `None` is no kind of event (`KindsAssumption`): otherwise an entry could go without
  one. `ReportInv` was checked with TLC on the instance of `ingestion`, with what the file
  was taken from the prefixes of the file, before it was proved.

### WorkView

From `ViewAssumption` (a line is an assistant message whose calls have ids, or a tool result
with an id; the bounds are natural numbers), for any sessions, any lines, files of any
length and any number of imports and checkpoints: `Invariance`, `TypeCorrect` (`TypeOK`),
`MissingIsExact`, `DiagnosticsAreCurrent`, `VerifiedWasTested`, `OpenIsNamed` and
`CheckpointsAreStable`, which is every property of the run.

No property is inductive, since what is reported depends on diagnostics that were stored by
different imports. `Inv` says, line by line, how old they are: a list `Holds` the first
`g[s]` lines of each session, and the events of line n are those that the code makes of
it with what it finds in the first b lines, for some b between n and `g[s]`: *one* import
wrote the line. The rows hold the whole files and what a checkpoint pins holds a
beginning of each. The Work reports what is wrong with the files as they are.

* *Missing results.* What is missing in the first b lines is missing in them all, or was
  answered later, and then the view holds the answer (`HeldCall`, `AnsweredBy`). It is
  also found on the message that made the call, but nowhere else (`HeldMissing`). So
  reconciling a list that `Holds` something leaves exactly what is missing in it (`ViewMissing`).
* *Attaching.* Only a missing result and an orphan can be put right by further lines
  (`FoundStays`), and each was there as soon as its line was (`FoundEarlier`), so that an
  event of the line carries it. The import observes that event again, and the Work gives it up
  (`ImportedDiagnostics`). Nothing of another session goes, as a diagnostic names its own.
* *Handoffs.* `VerifiedList` and `NamedList` are about any list of events without repeated ids.
  They need of the view only that its codes say a result is missing when one is.
* *Lists.* The events of a file are concatenated with `FlattenSeq`, a recursive function of
  the library; `JoinedExists` and `FlattenIsJoined` show by induction that it is the last of
  the partial concatenations, and `FlattenFacts` what its elements are. `Unseen`, the loop that
  skips known events, is such a concatenation too.

Before it was proved, `Inv` was checked with TLC on the instance of `work_view`, with `g` in
a bounded set.

### Only model-checked

Every safety and action property of the runs that pass is proved. What is not:

* The liveness property `CaughtUp`, which is beyond the prover.
* What the violation runs show.

## 5. Disagreements between the code and what the repository says

1. `fork_halves` (store/fork.ts:67). A fork without `--checkpoint` loads the parent,
   then takes the last checkpoint. An import and a checkpoint between the two give a
   child with events that its claims do not know. fork.ts:97-99 says both halves
   share one event set. With `--checkpoint` it is true, and proved (`NamedForksExact`).
2. `migration_sessions` (store/persist.ts:421). A process that looked before another
   migrated rebuilds current tables, grouped by the legacy key, and so takes the
   source-session row of a fork made in between.
3. `restore_guard` (store/backup.ts:130). A destination that cannot be inspected,
   being newer than this CLI supports among other reasons, counts as nothing to protect.
4. `restore_torn` (store/backup.ts:142). Killed between the rename and the sweep, or
   unable to remove the file, a restore leaves the old store's hot journal beside the new store.

5. `grok_names` (grok/reader.ts:146). SUPPORT-MATRIX.md:42 says that importing the same
   file again is idempotent. A Grok session is named by its summary, and by its directory
   as long as there is none that can be parsed. Where the two names differ, as in the fixture
   `tests/fixtures/grok/unfinished-demo` (id `01grokdemo000000000000000001`), imports
   with and without it make two Works of one session, each with all of its events.

Smaller observations, without a run.

* Of forks and handoffs. FIRST-RUN.md:405-406 and SUPPORT-MATRIX.md:44 say that a fork
  without `--checkpoint` takes a snapshot first; the code does so only when there is no
  checkpoint yet (fork.ts:79), and so leaves out what was imported after the last one. A
  cut that falls inside the ten characters of `[REDACTED:` splits the marker, which
  handoff.ts:90-91 rules out (`MarkersClosed` states what holds). Dropping a very short
  section can make a handoff longer. `deriveFindings` lets a result of one execution
  make a statement of another a finding.
* Of the store. A second import refreshes the diagnostics of known events in memory
  (observe.ts:131), but `INSERT OR IGNORE` does not store them. BACKUP-RECOVERY.md:55 says
  that opening a restored store migrates it, which neither `openStore` nor `list` does.
  Imports of one session that overlap can bring back reports that another import had
  settled (persist.ts:124).
* Of ids. Grok calls are told apart by `toolCallId ?? String(index)` (grok/normalize.ts:206),
  so two calls of one line can share an id. A first import of such a session is refused
  by the primary key of `operations` and rolled back; when an earlier import stored the Work
  from a prefix without that line, the same session is imported with the first of the
  two. A Pi file whose first line was torn when it was imported becomes
  `work:pi:unknown-session`, without rows of a header that appears later; `OneWork`
  says that such a Work never holds rows of a session that is known later.
* Of reports that stay. Of what was wrong once and was put right, `ReportsExact` names
  what no event can settle: `malformed_jsonl` of a line that was completed,
  `missing_summary`, `missing_workspace`, `empty_session`, and a `parent_cycle` that a
  repeated id hides later. Diagnostics of Pi without an entry id match every record
  without one (`undefined === undefined`, pi/normalize.ts:156).
* Of OpenCode. docs/research/opencode-session-ground-truth.md:180 and 306 order by `id`; the
  code sorts by `(time_created, id)`. A call that is imported while it is pending
  keeps the arguments it had then, text keeps what had been streamed, and a call that is
  reverted stays pending.

## 6. Plan

Done, in this order, by importance: the store under concurrency with its proof; the
migration with its proof; backup and restore; the budget; diagnostics and views; the
adapters and the ingestion of sessions that grow; then the order of events and the
refinement of `WorkLog`, and the proofs of backup and restore, of the budget, of what
imports of a session hold and report, and of diagnostics and views. Next:

* Diagnostics under overlapping imports (compose `HarnieStore` with `Ingestion`): a slower
  import of a shorter file can store a missing result that no event carries.

The runs stay few: a new question replaces one that it subsumes.

## 7. Running it

In this directory, `tlc -config HarnieStore_concurrent.cfg MCHarnieStore` checks a run
(the pairs are in `PROJECT.json`), and `tlapm HarnieStore_proofs.tla` a proof. The
longest run takes two minutes on two cores.

## 8. Not modelled

* Work diff (`work/diff.ts`): a pure comparison, by ids, of two Works that were loaded;
  it keeps no state and awaits nothing.
* Renderers (`handoff/*.ts`): wording and layout of Markdown.
* Redaction (`work/redact.ts`): regular expressions over text. The budget knows only
  where a marker lies.
* Session discovery, read-only commands (`list`, `show`, `executions`, `history`), `query.ts`:
  they keep no state. A reader that sees the store between two statements is
  `handoff` in `HarnieStore`.
* Flags and the JSON envelope (`contract/*.ts`), packaging, evaluation, installers.
* The name of a handoff file, file modes (best effort in the code), restore into a
  home without a store.
* In `Ingestion`: what its simplifications (2.6) name, and imports of one session that
  overlap, which are in `HarnieStore`.
* In `ObservedContext`: the goal-proposal clause, revisions, how much of a file was
  read, paths.
