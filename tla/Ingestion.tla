----------------------------- MODULE Ingestion -----------------------------
(***************************************************************************)
(* One session of a harness that is being written while it is imported,    *)
(* again and again, and the Works that the imports make of it.             *)
(*                                                                         *)
(* Codex, Grok and Pi append lines to a file; a line may be torn when it   *)
(* is read, and completed later or, if the harness crashed, never.  Grok   *)
(* writes a summary beside the file, which is read after it and may give   *)
(* the session another name than its directory does.  OpenCode adds,       *)
(* changes and removes parts in a database, of which the importer reads    *)
(* the messages and then the parts.                                        *)
(*                                                                         *)
(* Imports run one at a time here: what they do to each other is           *)
(* HarnieStore, which takes the lines of a session as given.               *)
(***************************************************************************)
EXTENDS Transcripts, OpenCodeSnapshot, Listings

CONSTANTS Harnesses,     \* those whose sessions are looked at
          Lines,         \* Lines[h]: the lines that a session file may have
          MaxLines,      \* bound: MaxLines[h] lines of a file
          Names,         \* the names that a Grok session may have
          MaxMessages    \* bound: the places of messages

Transcript == {"codex", "grok", "pi"}

ASSUME IngestionAssumption ==
    /\ Harnesses \subseteq Transcript \cup {"opencode"}
    /\ \A h \in Harnesses \cap Transcript :
         /\ MaxLines[h] \in Nat
         /\ \A l \in Lines[h] : \E n \in 0..MaxCalls : DOMAIN l.calls = 1..n
    /\ MaxMessages \in Nat

VARIABLES harness,    \* of the session
          file,       \* its lines; <<>> for OpenCode
          names,      \* of a Grok session: by its directory and in its summary
          sidecar,    \* what a read of the summary gives
          messages,   \* of OpenCode
          parts,      \* of OpenCode, those it removed included
          job,        \* what the import that runs has read
          works       \* works[w] for the Works there are, by source id

source == <<file, sidecar, messages, parts>>
vars == <<harness, names, file, sidecar, messages, parts, job, works>>

Torn == [form |-> "torn", type |-> None, id |-> None, parent |-> None,
         text |-> FALSE, calls |-> <<>>]

\* The parts that a SELECT finds.
Live(all) == [p \in {q \in DOMAIN all : all[q].status # "removed"} |-> all[p]]

Idle == [pc |-> "idle", file |-> <<>>, sidecar |-> NoSummary,
         messages |-> <<>>, parts |-> <<>>]

-----------------------------------------------------------------------------
(* What an import makes of what it has read *)

OpenCodeSession == "session"

\* The name that an import which read the summary after the file finds.
SessionName(j) == GrokId(names.directory, j.sidecar)

ObservedId(j) ==
    IF harness \in Transcript THEN SourceId(harness, j.file, SessionName(j))
                              ELSE OpenCodeSession

Observed(j) ==
    IF harness \in Transcript THEN TranscriptListing(harness, j.file)
                              ELSE SnapshotListing(j.messages, j.parts)

ObservedReports(j) ==
    IF harness \in Transcript THEN TranscriptReports(harness, j.file, j.sidecar) ELSE {}

\* What the rows of its events are written with.
ObservedRows(j) ==
    IF harness \in Transcript
      THEN TranscriptRows(harness, j.file)
      ELSE [id \in DOMAIN Observed(j) |->
              [call |-> IF id[2] \in {"tool_call", "tool_result"} THEN id[1] ELSE None,
               found |-> {}]]

\* A Work: the ordinals of its events, their rows, and its own diagnostics.
NoWork == [rows |-> Empty, data |-> Empty, reports |-> {}]

Loaded(w) == IF w \in DOMAIN works THEN works[w] ELSE NoWork

\* Mutant: nothing that was once found is ever settled.
AllKept(work, listing) == work.reports

\* The diagnostics of the Work that no event which is observed again was stored
\* with.
Kept(work, listing) ==
    work.reports \ UNION {work.data[e].found : e \in DOMAIN work.rows \cap DOMAIN listing}

\* Mutant: of a file that was imported before only the diagnostics are taken.
OnlyRefreshed(work, j) ==
    LET known == harness \in Transcript /\ DOMAIN work.rows # {}
        listing == Observed(j)
    IN  [rows    |-> IF known THEN work.rows ELSE AppendAll(work.rows, listing),
         data    |-> IF known THEN work.data ELSE InsertOrIgnore(work.data, ObservedRows(j)),
         reports |-> (IF known THEN {} ELSE Kept(work, listing)) \cup ObservedReports(j)]

\* attachObservedWork of what is stored, and INSERT OR IGNORE of the events: a
\* row stays as it was first written, its diagnostics included.
Attached(work, j) ==
    LET listing == Observed(j)
    IN  [rows    |-> AppendAll(work.rows, listing),
         data    |-> InsertOrIgnore(work.data, ObservedRows(j)),
         reports |-> Kept(work, listing) \cup ObservedReports(j)]
-----------------------------------------------------------------------------
Nameless == [directory |-> None, summary |-> None]

Init ==
    /\ harness \in Harnesses
    /\ names \in IF harness = "grok" THEN Names ELSE {Nameless}
    /\ file = <<>> /\ sidecar = NoSummary
    /\ messages = <<>> /\ parts = <<>>
    /\ job = Idle
    /\ works = <<>>

(* The harness *)

Unbroken == file = <<>> \/ file[Len(file)] # Torn

\* A line is added.  A torn one before it stays torn: the harness that wrote it
\* has crashed, and the next line break ends it.
AppendLine ==
    /\ harness \in Transcript /\ Len(file) < MaxLines[harness]
    /\ \E l \in Lines[harness] \cup {Torn} : file' = Append(file, l)
    /\ UNCHANGED <<harness, names, sidecar, messages, parts, job, works>>

\* The rest of a torn line is written.
CompleteLine ==
    /\ ~ Unbroken
    /\ \E l \in {k \in Lines[harness] : k.form = "record"} :
         file' = [file EXCEPT ![Len(file)] = l]
    /\ UNCHANGED <<harness, names, sidecar, messages, parts, job, works>>

WriteSummary ==
    /\ harness = "grok" /\ sidecar = NoSummary
    /\ sidecar' = names.summary
    /\ UNCHANGED <<harness, names, file, messages, parts, job, works>>

\* The summary has a time and counts of messages in it: it is written again as
\* the session goes on, and cannot be parsed until it is whole.
RewriteSummary ==
    /\ harness = "grok" /\ sidecar # NoSummary
    /\ sidecar' = NoSummary
    /\ UNCHANGED <<harness, names, file, messages, parts, job, works>>

\* A row more.
Added(table, key, row) ==
    [k \in DOMAIN table \cup {key} |-> IF k = key THEN row ELSE table[k]]

AddMessage ==
    /\ harness = "opencode"
    /\ \E m \in (1..MaxMessages) \ DOMAIN messages, speaking \in BOOLEAN :
         messages' = Added(messages, m, speaking)
    /\ UNCHANGED <<harness, names, file, sidecar, parts, job, works>>

NewParts(m) ==
    {[message |-> m, type |-> "text",  status |-> s] : s \in {"blank", "written"}}
      \cup {[message |-> m, type |-> "tool", status |-> "pending"],
            [message |-> m, type |-> "other", status |-> "plain"]}

\* A part is added to a message, and sorts anywhere: times may tie.
AddPart ==
    /\ harness = "opencode"
    /\ \E p \in (1..MaxParts) \ DOMAIN parts, m \in DOMAIN messages :
         \E part \in NewParts(m) : parts' = Added(parts, p, part)
    /\ UNCHANGED <<harness, names, file, sidecar, messages, job, works>>

\* The next states of a part: text is streamed, a call runs and ends, and what
\* is reverted is removed.
NextStatus ==
    [blank |-> {"written", "removed"}, written |-> {"removed"}, plain |-> {"removed"},
     pending |-> {"running", "error", "removed"},
     running |-> {"completed", "error", "removed"},
     completed |-> {"removed"}, error |-> {"removed"}, removed |-> {}]

ChangePart ==
    /\ harness = "opencode"
    /\ \E p \in DOMAIN parts : \E s \in NextStatus[parts[p].status] :
         parts' = [parts EXCEPT ![p].status = s]
    /\ UNCHANGED <<harness, names, file, sidecar, messages, job, works>>

Harness == \/ AppendLine \/ CompleteLine \/ WriteSummary \/ RewriteSummary
           \/ AddMessage \/ AddPart \/ ChangePart
-----------------------------------------------------------------------------
(* An import *)

Unread == UNCHANGED <<harness, names, source, works>>

\* readFile; Grok has yet to read the summary.
ReadFile ==
    /\ job.pc = "idle" /\ harness \in Transcript
    /\ job' = [job EXCEPT !.pc = IF harness = "grok" THEN "summary" ELSE "store",
                          !.file = file]
    /\ Unread

ReadSummary ==
    /\ job.pc = "summary"
    /\ job' = [job EXCEPT !.pc = "store", !.sidecar = sidecar]
    /\ Unread

\* The two SELECTs of loadSqliteSnapshot are not in a transaction.
ReadMessages ==
    /\ job.pc = "idle" /\ harness = "opencode"
    /\ job' = [job EXCEPT !.pc = "parts", !.messages = messages]
    /\ Unread

ReadParts ==
    /\ job.pc = "parts"
    /\ job' = [job EXCEPT !.pc = "store", !.parts = Live(parts)]
    /\ Unread

\* A snapshot file holds both, as they were when it was exported.
ReadSnapshot ==
    /\ job.pc = "idle" /\ harness = "opencode"
    /\ job' = [job EXCEPT !.pc = "store", !.messages = messages, !.parts = Live(parts)]
    /\ Unread

\* Two operations of a new Work would have one id: what is already stored is
\* merged by its ids, but what is imported for the first time is not.
Ambiguous(j) ==
    /\ harness \in Transcript /\ HasTwins(harness, j.file)
    /\ ObservedId(j) \notin DOMAIN works

Importable(j) ==
    harness \in Transcript => Readable(harness, j.file, SessionName(j))

Store ==
    /\ job.pc = "store"
    /\ Importable(job) /\ ~ Ambiguous(job)
    /\ LET w == ObservedId(job)
       IN  works' = [v \in DOMAIN works \cup {w} |->
                       IF v = w THEN Attached(Loaded(w), job) ELSE works[v]]
    /\ job' = Idle
    /\ UNCHANGED <<harness, names, source>>

\* The reader throws, or the transaction is rolled back.
Refuse ==
    /\ job.pc = "store"
    /\ Importable(job) => Ambiguous(job)
    /\ job' = Idle
    /\ Unread

\* Anything else that ends an import before it commits.
Fail ==
    /\ job.pc # "idle"
    /\ job' = Idle
    /\ Unread

Import == \/ ReadFile \/ ReadSummary \/ ReadMessages \/ ReadParts \/ ReadSnapshot
          \/ Store \/ Refuse \/ Fail

Next == Harness \/ Import

Spec == Init /\ [][Next]_vars
-----------------------------------------------------------------------------
(* Properties *)

\* What an import would read if it read everything now.
Now == [Idle EXCEPT !.file = file, !.sidecar = sidecar,
                    !.messages = messages, !.parts = Live(parts)]

\* The rows of a Work that was made of a transcript are the events of a prefix of
\* the file as it is now, in the order of the file, each with the call it has
\* there: a line that was torn, rejected or completed while it was imported
\* leaves no trace among them.  HarnieStore and WorkView take this for granted
\* (codex/reader.ts:16-72, grok/reader.ts:50-87, pi/reader.ts:26-62).
HoldsPrefix ==
    harness \in Transcript =>
      \A w \in DOMAIN works :
        \E k \in 0..Len(file) :
          LET prefix == SubSeq(file, 1, k)
          IN  /\ works[w].rows = Renumber(TranscriptListing(harness, prefix), {}, 0)
              /\ \A e \in Foremost(Events(harness, prefix)) :
                   works[w].data[e.id].call = e.call

\* All that was ever stored of a session is in the Work that the next import of
\* it finds, however little of the file there was at the first import.  Only
\* Grok's summary, which comes and goes beside the file, chooses between two: a
\* Codex, Pi or OpenCode session has one Work, as has one of Grok whose directory
\* and summary agree, and any other of Grok has no Work beside those two
\* (codex/reader.ts:74-104, pi/reader.ts:64-67, grok/reader.ts:141-160).
OneWork ==
    \A w \in DOMAIN works :
      DOMAIN works[w].rows # {} =>
        \E s \in {NoSummary, names.summary} :
          LET next == [Now EXCEPT !.sidecar = s]
          IN  Importable(next) /\ ObservedId(next) = w

\* What docs/SUPPORT-MATRIX.md:42 says of every harness: "Re-importing the same
\* file without --work is idempotent (0 new events)".  Where a Work has all the
\* events of the file already, an import adds none to any Work.
ReimportAddsNothing ==
    [][Store /\ DOMAIN Observed(job) # {}
             /\ (\E w \in DOMAIN works : DOMAIN Observed(job) \subseteq DOMAIN works[w].rows) =>
         \A w \in DOMAIN works' : works'[w].rows = Loaded(w).rows]_vars

\* The Work that an import would find now has all it would read.
UpToDate ==
    /\ Importable(Now)
    /\ LET w == ObservedId(Now)
       IN  /\ w \in DOMAIN works
           /\ DOMAIN Observed(Now) \subseteq DOMAIN works[w].rows
           /\ ObservedReports(Now) \subseteq works[w].reports

\* Once a harness has stopped writing, and as long as imports of the session go
\* on succeeding now and then, its Work comes to hold and to report all of it for
\* good, whatever was torn, half read, reordered, refused or failed before.  The
\* premises are of this property: nothing in the code makes a harness stop or a
\* user import again (engine/import.ts:56-70, work/observe.ts:118-157).
CaughtUp ==
    <>[][UNCHANGED source]_vars /\ []<><<Store>>_vars => <>[]UpToDate

\* After an import that read an OpenCode session as it is, the Work has every
\* event of it, and answers exactly the calls that have ended, whatever earlier
\* imports saw: late results, parts that sort between others, parts of messages
\* that an earlier import did not read.  However late a result came, it follows
\* its call (opencode/reader.ts:121-133, opencode/normalize.ts:49-102).
SnapshotHeld ==
    [][Store /\ harness = "opencode" /\ job = [Now EXCEPT !.pc = "store"] =>
         LET rows == works'[OpenCodeSession].rows
             Has(p, kind) == PartEventId(p, kind) \in DOMAIN rows
             Ended(part) == part.status \in {"completed", "error"}
         IN  /\ \A p \in DOMAIN Live(parts) :
                  /\ parts[p].type = "tool" =>
                       Has(p, "tool_call") /\ (Has(p, "tool_result") <=> Ended(parts[p]))
                  /\ parts[p].status = "written" /\ messages[parts[p].message] =>
                       Has(p, "message")
                  /\ parts[p].type = "other" => Has(p, "unknown")
             /\ \A p \in DOMAIN parts :
                  Has(p, "tool_result") =>
                    /\ Has(p, "tool_call")
                    /\ rows[PartEventId(p, "tool_call")] < rows[PartEventId(p, "tool_result")]
      ]_vars

\* After an import a Work reports everything that is wrong with the session, and
\* of what was wrong once only what no event can tell that it was put right:
\* lines that were torn, what the file lacked, and cycles that a repeated id has
\* hidden (work/observe.ts:124-145, pi/normalize.ts:152-168).
ReportsExact ==
    [][Store =>
         LET reports == works'[ObservedId(job)].reports
             lasting == {"missing_summary", "missing_workspace", "empty_session", "parent_cycle"}
         IN  /\ ObservedReports(job) \subseteq reports
             /\ \A d \in reports \ ObservedReports(job) :
                  \/ d.code = "malformed_jsonl" /\ d.line \in Records(harness, job.file)
                  \/ d.code \in lasting
      ]_vars

\* The walks find every entry of a Pi session whose branch never ends, and no
\* other, also where ids repeat, are missing or name no entry (pi/graph.ts:67-96).
CyclesExact ==
    harness = "pi" =>
      LET parent == Parent(file, PiEntries(file))
      IN  CycleEntries(parent) = Endless(parent)
=============================================================================
