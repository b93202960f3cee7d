---------------------------- MODULE Transcripts ----------------------------
(***************************************************************************)
(* What the Codex, Grok and Pi adapters make of a session file: which of   *)
(* its lines they accept, which session it is, which events its lines      *)
(* become and under which ids, and what is found wrong with it.            *)
(*                                                                         *)
(* A session file is JSONL: a sequence of lines                            *)
(*   [form, type, id, parent, text, calls]                                 *)
(* form    "blank", "torn" (not valid JSON), "scalar" (not an object),     *)
(*         "untyped" (an object without a type), "bare" (without a         *)
(*         payload) or "record";                                           *)
(* type    what the record is, in the harness's own words;                 *)
(* id      of the session (a header) or of the entry (Pi), or None;        *)
(* parent  of a Pi entry, see PiGraph;                                     *)
(* text    whether the record has anything to say that Harnie shows: the   *)
(*         visible blocks of a Codex message of a speaking role, the query *)
(*         of a Grok user outside the context wrappers;                    *)
(* calls   the ids of the tool calls it makes, in order, or of the one it  *)
(*         makes or answers; None where the harness gave none.             *)
(* What the payloads say is left out: no event id depends on it.           *)
(***************************************************************************)
EXTENDS PiGraph, TLC

CONSTANT MaxCalls   \* bound: no record makes more tool calls

ASSUME CallsAssumption == MaxCalls \in Nat

-----------------------------------------------------------------------------
(* Readers *)

\* Mutant: a line that cannot be parsed is kept as a record of no known type.
TornKept(harness) == [blank |-> "empty_line", scalar |-> "non_object_jsonl"]

\* The code of a rejected line; a Pi record needs no type, and only a Codex
\* record has a payload of its own.
RejectionCode(harness) ==
    LET code == [blank |-> "empty_line", torn |-> "malformed_jsonl",
                 scalar |-> "non_object_jsonl", untyped |-> "missing_type",
                 bare |-> "missing_payload"]
        accepted == [codex |-> {}, grok |-> {"bare"}, pi |-> {"bare", "untyped"}]
    IN  [form \in DOMAIN code \ accepted[harness] |-> code[form]]

\* The lines that are records, by their physical numbers.
Records(harness, file) ==
    {n \in DOMAIN file : file[n].form \notin DOMAIN RejectionCode(harness)}

Rejections(harness, file) ==
    {[code |-> RejectionCode(harness)[file[n].form], line |-> n, entry |-> None] :
       n \in DOMAIN file \ Records(harness, file)}

First(lines) == CHOOSE n \in lines : \A m \in lines : n <= m

\* The header is whatever record comes first.
Header(harness, file) == file[First(Records(harness, file))]

\* What a read of Grok's summary gives: this, where it is absent, unreadable or
\* half written, and the id it names otherwise, which may be None.
NoSummary == "no summary"

\* resolveSessionId: a Grok session is named by its summary and, as long as that
\* names none, by its directory; a renamed transcript has no directory of its own.
GrokId(directory, summary) ==
    IF summary \in {NoSummary, None} THEN directory ELSE summary

\* Codex and Grok refuse a file without a record, Codex one that does not begin
\* with a session_meta that names the session, Grok a session without a name.
Readable(harness, file, named) ==
    \/ harness = "pi"
    \/ /\ Records(harness, file) # {}
       /\ harness = "codex" => /\ Header("codex", file).type = "session_meta"
                               /\ Header("codex", file).id # None
       /\ harness = "grok" => named # None

\* detectPiSourceFamilyFromHeader, for one version of the format.
PiFamilyKnown(file) ==
    Records("pi", file) # {} /\ Header("pi", file).type = "session"

UnknownSession == "unknown-session"

\* Mutant: the id of the last header there is, as of a session that was resumed.
LastSourceId(harness, file, named) ==
    CASE harness = "grok"  -> named
      [] harness = "codex" -> LET metas == {n \in Records("codex", file) :
                                              file[n].type = "session_meta"}
                              IN  file[CHOOSE n \in metas : \A m \in metas : m <= n].id
      [] harness = "pi"    -> UnknownSession

\* The source id of the session, which names its Work and its execution: that of
\* the header or, for Grok, what the names beside the file come to.
SourceId(harness, file, named) ==
    CASE harness = "grok"  -> named
      [] harness = "codex" -> Header("codex", file).id
      [] harness = "pi"    -> IF Records("pi", file) = {} \/ Header("pi", file).id = None
                                THEN UnknownSession
                                ELSE Header("pi", file).id

\* Entries of the tree of a Pi session: every record but its header.
PiEntries(file) ==
    IF PiFamilyKnown(file)
      THEN {n \in Records("pi", file) : file[n].type # "session"}
      ELSE Records("pi", file)
-----------------------------------------------------------------------------
(* Normalizers *)

\* None is no kind of event.
ASSUME KindsAssumption ==
    None \notin {"message", "tool_call", "tool_result", "command", "unknown"}

\* The kind of the event that a record becomes, by its type; a type that is not
\* listed becomes none.  Records that no adapter knows have the type "other".
CodexKind(l) ==
    LET kind == [message |-> "message", function_call |-> "tool_call",
                 function_call_output |-> "tool_result", other |-> "unknown"]
    IN  IF l.type \notin DOMAIN kind \/ (l.type = "message" /\ ~ l.text)
          THEN None ELSE kind[l.type]

GrokKind(l) ==
    CASE l.type = "user"        -> IF l.text THEN "message" ELSE "unknown"
      [] l.type = "assistant"   -> IF l.text THEN "message" ELSE None
      [] l.type = "tool_result" -> "tool_result"
      [] l.type = "system"      -> None
      [] OTHER                  -> "unknown"

PiKind(l) ==
    LET kind == [user |-> "message", assistant |-> "message",
                 toolResult |-> "tool_result", bashExecution |-> "command"]
    IN  IF l.type \in DOMAIN kind THEN kind[l.type] ELSE "unknown"

KindOf(harness, l) ==
    CASE harness = "codex" -> CodexKind(l)
      [] harness = "grok"  -> GrokKind(l)
      [] harness = "pi"    -> PiKind(l)

\* The calls that are events of their own, after the message they came with.
Calls(l) == IF l.type = "assistant" THEN DOMAIN l.calls ELSE {}

\* What tells the calls of one line apart: Grok takes the id of the call, and
\* its index where there is none.
CallTag(harness, l, i) ==
    IF harness = "grok" /\ l.calls[i] # None THEN l.calls[i] ELSE ToString(i - 1)

EventId(n, l, kind, tag) == <<n, l.id, kind, tag>>

\* The events of line n: one of the record itself, at place 0 of the line, and
\* one of its i-th call, at place i.  They rank as they stand in the file.
EventsOfLine(harness, l, n) ==
    LET Event(i, kind, tag, call) ==
          [rank |-> n * (MaxCalls + 1) + i, line |-> n, place |-> i,
           id |-> EventId(n, l, kind, tag), call |-> call]
        kind == KindOf(harness, l)
        own == Event(0, kind, "record",
                     IF kind \in {"tool_call", "tool_result"} THEN l.calls[1] ELSE None)
    IN  (IF kind = None THEN {} ELSE {own})
          \cup {Event(i, "tool_call", CallTag(harness, l, i), l.calls[i]) : i \in Calls(l)}

\* The events of a file; the header of a Pi session is none.
Events(harness, file) ==
    UNION {EventsOfLine(harness, file[n], n) :
             n \in IF harness = "pi" THEN PiEntries(file) ELSE Records(harness, file)}

\* Of several events with one id the first counts.
Foremost(events) == {e \in events : \A d \in events : d.id = e.id => e.rank <= d.rank}

\* The events of a file as a listing.
TranscriptListing(harness, file) ==
    LET events == Foremost(Events(harness, file))
    IN  [id \in {e.id : e \in events} |-> (CHOOSE e \in events : e.id = id).rank]

\* Two calls of one line have one id.
HasTwins(harness, file) ==
    LET events == Events(harness, file) IN Foremost(events) # events
-----------------------------------------------------------------------------
(* What is found wrong *)

\* Diagnostics that are about the file and not about one of its lines.  A summary
\* that names the session names its workspace too.
FileReports(harness, file, sidecar) ==
    LET about(code) == [code |-> code, line |-> 0, entry |-> None]
        records == Records(harness, file)
    IN  CASE harness = "codex" -> {}
          [] harness = "grok"  ->
               UNION {IF sidecar = NoSummary THEN {about("missing_summary")} ELSE {},
                      IF sidecar \in {NoSummary, None}
                        THEN {about("missing_workspace")} ELSE {}}
          [] harness = "pi"    ->
               UNION {IF records = {} THEN {about("empty_session")}
                      ELSE IF PiFamilyKnown(file) THEN {}
                      ELSE {[code |-> "unsupported_source_family", line |-> First(records),
                             entry |-> None]},
                      IF SourceId("pi", file, None) = UnknownSession
                        THEN {about("missing_source_session_id")} ELSE {},
                      IF \E n \in records : file[n].type = "session"
                        THEN {} ELSE {about("missing_workspace")}}

\* What the reader, the graph and the reconstruction have to say of a file, but
\* for tool calls and results, which are ToolDiagnostics.
TranscriptReports(harness, file, sidecar) ==
    UNION {Rejections(harness, file), FileReports(harness, file, sidecar),
           IF harness = "pi" THEN GraphReports(file, PiEntries(file)) ELSE {}}

\* diagnosticsForRecord, diagnosticsForNested: what the reader and the graph say
\* of the line of an event or, if it is the record's own, of its entry.  What names
\* no entry concerns every record without one, for undefined === undefined.
FoundOn(reports, file, e) ==
    {d \in reports : d.line = e.line \/ (e.place = 0 /\ d.entry = file[e.line].id)}

\* What the rows of the events of a file are written with, but for the payload:
\* the call and, for Pi, what the reader and the graph found.
TranscriptRows(harness, file) ==
    LET events == Foremost(Events(harness, file))
        reports == IF harness = "pi"
                     THEN {d \in TranscriptReports("pi", file, NoSummary) : d.line # 0}
                     ELSE {}
    IN  [id \in {e.id : e \in events} |->
           LET e == CHOOSE f \in events : f.id = id
           IN  [call |-> e.call, found |-> FoundOn(reports, file, e)]]
=============================================================================
