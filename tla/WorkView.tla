------------------------------ MODULE WorkView ------------------------------
(***************************************************************************)
(* One Work, the Pi sessions that are imported into it one at a time, and  *)
(* the views that commands have of it: the live one and one for every      *)
(* checkpoint.                                                             *)
(*                                                                         *)
(* The rows of the events keep the diagnostics they were first stored      *)
(* with; the row of the Work is overwritten by every import; and every     *)
(* view reconciles what it reads.                                          *)
(***************************************************************************)
EXTENDS ToolDiagnostics, ObservedContext

CONSTANTS Sessions,   \* the sessions that may be imported into the Work
          Lines,      \* Lines[s]: the lines that session s may have
          MaxLines,   \* bound: MaxLines[s] lines of session s
          MaxCheckpoints   \* bound: checkpoints of the Work

ASSUME ViewAssumption ==
    /\ MaxLines \in [Sessions -> Nat] /\ MaxCheckpoints \in Nat
    /\ \A l \in UNION {Lines[s] : s \in Sessions} :
         \/ /\ l.role = "assistant"
            /\ l.calls \in Seq(ToSet(l.calls))
            /\ \A i \in DOMAIN l.calls : l.calls[i].id # NoId
         \/ l.role = "toolResult" /\ l.call # NoId /\ l.ok \in BOOLEAN

VARIABLES files,        \* files[s]: the lines of session s at its last import
          rows,         \* the events of the Work, by ordinal, as they are stored
          diagnostics,  \* those in the row of the Work
          watermarks    \* of its checkpoints

vars == <<files, rows, diagnostics, watermarks>>

-----------------------------------------------------------------------------
(* Views *)

\* loadWork
Live == Reconcile([events |-> rows, diagnostics |-> diagnostics])

\* loadWorkAtCheckpoint: the diagnostics of the Work itself stay out.
AtCheckpoint(m) == Reconcile([events |-> SubSeq(rows, 1, m), diagnostics |-> {}])

Views == {Live} \cup {AtCheckpoint(m) : m \in watermarks}

\* uniqueDiagnosticCodes
Codes(view) == {d.code : d \in view.diagnostics \cup EventDiagnostics(view.events)}
-----------------------------------------------------------------------------
Init ==
    /\ files = [s \in Sessions |-> <<>>]
    /\ rows = <<>>
    /\ diagnostics = {}
    /\ watermarks = {}

\* Mutants: INSERT OR REPLACE, which takes the new diagnostics; and an INSERT
\* that ids do not stop.
Replaced(events) == events
Repeated(events) == rows \o events

\* INSERT OR IGNORE: a stored event stays as it is.
Stored(events) ==
    LET known == {EventId(e) : e \in ToSet(rows)}
    IN  rows \o Unseen(events, known)

\* A session to which the harness has added some lines is imported, for the
\* first time or again, and attached to what the Work holds.
Import(s) ==
    \E n \in 0..(MaxLines[s] - Len(files[s])) : \E more \in [1..n -> Lines[s]] :
      /\ LET file == files[s] \o more
             observed == [events |-> Normalize(s, file), diagnostics |-> Correlate(s, file)]
             work == Attach(Live, observed)
         IN  /\ files' = [files EXCEPT ![s] = file]
             /\ rows' = Stored(work.events)
             /\ diagnostics' = work.diagnostics
      /\ UNCHANGED watermarks

\* A checkpoint pins the events there are.
Checkpoint ==
    /\ rows # <<>> /\ Cardinality(watermarks) < MaxCheckpoints
    /\ watermarks' = watermarks \cup {Len(rows)}
    /\ UNCHANGED <<files, rows, diagnostics>>

Next == Checkpoint \/ \E s \in Sessions : Import(s)

Spec == Init /\ [][Next]_vars
-----------------------------------------------------------------------------
(* Properties *)

\* The rows are the events of the files, each once, and nothing is found wrong
\* on a line that is not there (persist.ts:183-213).
TypeOK ==
    /\ \A s \in Sessions : files[s] \in Seq(Lines[s])
    /\ {EventId(e) : e \in ToSet(rows)} =
         UNION {{EventId(e) : e \in ToSet(Normalize(s, files[s]))} : s \in Sessions}
    /\ Cardinality({EventId(e) : e \in ToSet(rows)}) = Len(rows)
    /\ \A d \in diagnostics \cup EventDiagnostics(rows) : d.at.line \in DOMAIN files[d.at.session]
    /\ watermarks \subseteq 1..Len(rows)

\* "live work and checkpoints agree with their own evidence": in every view a
\* call is reported as missing its result exactly if the view holds none, however
\* old the diagnostics are that its events were stored with (observe.ts:171-201).
MissingExact ==
    \A view \in Views :
      LET unanswered == {c \in Operations(view.events) : ResultAt(view.events, c) = 0}
          At(c) == Location(view.events[c].exec, view.events[c].line, view.events[c].index,
                            view.events[c].id)
      IN  /\ \A c \in unanswered :
               [code |-> "missing_tool_result", at |-> At(c)] \in view.events[c].diagnostics
          /\ \A d \in EventDiagnostics(view.events) :
               d.code = "missing_tool_result" => \E c \in unanswered : d.at = At(c)

\* "correlation diagnostics reflect the latest snapshot": the Work itself reports
\* what is wrong with its sessions as they were last imported, nothing that has
\* been put right since, and nothing is forgotten (observe.ts:124-145).
LiveDiagnosticsCurrent ==
    Live.diagnostics = UNION {Correlate(s, files[s]) : s \in Sessions}

\* "Verification succeeded after latest edit" is said only if the last test of
\* the view succeeded and started, in the only execution that edited, after every
\* edit had ended (context.ts:49-52, 105-127).
VerifiedMeansTested ==
    \A view \in Views :
      LET ev == view.events
      IN  Verified(ev) =>
            \E t \in Tests(ev) :
              /\ Status(ev, t) = "succeeded"
              /\ \A u \in Tests(ev) : u <= t
              /\ \A c \in Edits(ev) : /\ ev[c].exec = ev[t].exec
                                      /\ c < t /\ ResultAt(ev, c) < t

\* Whoever takes over learns what is open: a pending call and edits that no test
\* has verified show in the state, in what is unresolved, in the next steps and
\* in the diagnostic codes alike, although the four are computed in four places
\* (context.ts:151-191, handoff.ts:530-561, 755-768, observe.ts:173-201).
OpenWorkIsNamed ==
    \A view \in Views :
      LET ev == view.events
          open == Pending(ev) # {} \/ (Edits(ev) # {} /\ ~ Verified(ev))
      IN  /\ (Pending(ev) # {}) = ("missing_tool_result" \in Codes(view))
          /\ (Pending(ev) # {}) = (CurrentState(ev, Codes(view)) = "pending")
          /\ open => Unresolved(ev) # "none"
          /\ Unresolved(ev) # "none" =>
               Continuation(ev) # {} /\ CurrentState(ev, Codes(view)) # "none"
          /\ \A c \in Pending(ev) : <<"complete", c>> \in Continuation(ev)

\* What a checkpoint shows never changes, whatever is imported later, although
\* later imports know better what became of its calls (fork.ts:26-59).
CheckpointViewStable ==
    [][\A m \in watermarks : AtCheckpoint(m)' = AtCheckpoint(m)]_vars
=============================================================================
