--------------------------- MODULE ToolDiagnostics ---------------------------
(***************************************************************************)
(* What Harnie makes of the tool calls of a Pi session: which result       *)
(* answers which call, what it finds wrong with them, the events that the  *)
(* lines normalize to, and how a view of a Work brings the findings that   *)
(* were stored with its events up to date.                                 *)
(*                                                                         *)
(* A session file is a sequence of lines.  A line is a message of the      *)
(* assistant with its tool calls, or one tool result:                      *)
(*   [role |-> "assistant", calls |-> <<[id |-> ..., tool |-> ...], ...>>] *)
(*   [role |-> "toolResult", call |-> ..., ok |-> TRUE or FALSE]           *)
(* Every line has an entry id of its own, so that the number of the line   *)
(* stands for both.                                                        *)
(***************************************************************************)
EXTENDS Naturals, Sequences, FiniteSets, SequencesExt

NoId == "none"   \* toolCallId: undefined

-----------------------------------------------------------------------------
(* pi/correlate.ts *)

\* Where a call or a result is: contentIndex is 0 where there is none.
Location(s, n, index, id) == [session |-> s, line |-> n, index |-> index, id |-> id]

CallLocations(s, file) ==
    UNION {{Location(s, n, i, file[n].calls[i].id) : i \in DOMAIN file[n].calls} :
             n \in {m \in DOMAIN file : file[m].role = "assistant"}}

ResultLocations(s, file) ==
    {Location(s, n, 0, file[n].call) :
       n \in {m \in DOMAIN file : file[m].role = "toolResult"}}

Diagnostics(code, locations) == {[code |-> code, at |-> l] : l \in locations}

\* correlatePiTools: what is wrong with the calls and the results of a file.
Correlate(s, file) ==
    LET calls == CallLocations(s, file)
        results == ResultLocations(s, file)
        CallsOf(l) == {c \in calls : c.id = l.id}
        ResultsOf(l) == {r \in results : r.id = l.id}
        Several(S) == Cardinality(S) > 1
    IN  Diagnostics("duplicate_tool_call_id", {c \in calls : Several(CallsOf(c))})
          \cup Diagnostics("missing_tool_result", {c \in calls : ResultsOf(c) = {}})
          \cup Diagnostics("duplicate_tool_result",
                           {l \in calls \cup results : Several(ResultsOf(l))})
          \cup Diagnostics("orphan_tool_result", {r \in results : CallsOf(r) = {}})
          \cup Diagnostics("ambiguous_tool_result", {r \in results : Several(CallsOf(r))})
-----------------------------------------------------------------------------
(* pi/normalize.ts *)

Event(s, n, kind, index, id, tool, ok, diagnostics) ==
    [exec |-> s, line |-> n, kind |-> kind, index |-> index, id |-> id,
     tool |-> tool, ok |-> ok, diagnostics |-> diagnostics]

\* diagnosticsForNested: those of the line that are about the call, or about
\* the whole line.
Nested(found, n, i, id) ==
    {d \in found : d.at.line = n /\ d.at.index \in {0, i} /\ d.at.id \in {NoId, id}}

\* A message carries everything found on its line; each of its calls is one
\* more event.
EventsOfLine(s, n, line, found) ==
    LET here == {d \in found : d.at.line = n}
    IN  IF line.role = "toolResult"
        THEN <<Event(s, n, "tool_result", 0, line.call, NoId, line.ok, here)>>
        ELSE <<Event(s, n, "message", 0, NoId, NoId, TRUE, here)>>
               \o [i \in DOMAIN line.calls |->
                     Event(s, n, "tool_call", i, line.calls[i].id, line.calls[i].tool, TRUE,
                           Nested(here, n, i, line.calls[i].id))]

Normalize(s, file) ==
    LET found == Correlate(s, file)
    IN  FlattenSeq([n \in DOMAIN file |-> EventsOfLine(s, n, file[n], found)])

\* The id of an event: session, line, entry, kind and content index.
EventId(e) == <<e.exec, e.line, e.kind, e.index>>
-----------------------------------------------------------------------------
(* work/observe.ts *)

\* The events whose ids are not known, in their order.
Unseen(events, known) ==
    FlattenSeq([n \in DOMAIN events |->
                  IF EventId(events[n]) \in known THEN <<>> ELSE <<events[n]>>])

\* Mutant: the results of all executions alike.
AnsweredAnywhere(events) ==
    {<<events[m].exec, events[n].id>> :
       m \in DOMAIN events, n \in {r \in DOMAIN events : events[r].kind = "tool_result"}}

Answered(events) ==
    {<<events[n].exec, events[n].id>> :
       n \in {m \in DOMAIN events : events[m].kind = "tool_result"}}

\* reconcileToolDiagnostics: a missing result that the view holds is missing no
\* more, neither at the call nor wherever else the same diagnostic is kept.
Resolved(events) ==
    UNION {{<<events[n].exec, d>> : d \in {x \in events[n].diagnostics :
                                             x.code = "missing_tool_result"}} :
             n \in {m \in DOMAIN events : /\ events[m].kind = "tool_call"
                                          /\ <<events[m].exec, events[m].id>> \in Answered(events)}}

ReconcileEvents(events) ==
    LET resolved == Resolved(events)
    IN  [n \in DOMAIN events |->
           [events[n] EXCEPT !.diagnostics = {d \in @ : <<events[n].exec, d>> \notin resolved}]]

EventDiagnostics(events) == UNION {events[n].diagnostics : n \in DOMAIN events}

Reconcile(work) ==
    LET resolved == Resolved(work.events)
        events == ReconcileEvents(work.events)
        removed == UNION {{d \in e.diagnostics : <<e.exec, d>> \in resolved} : e \in ToSet(work.events)}
    IN  [events |-> events,
         diagnostics |-> {d \in work.diagnostics :
                            d \notin removed \/ d \in EventDiagnostics(events)}]

\* Mutant: the Work keeps whatever it once reported.
AttachKeeping(existing, incoming) ==
    LET known == {EventId(e) : e \in ToSet(existing.events)}
    IN  [events |-> existing.events
                      \o Unseen(incoming.events, known),
         diagnostics |-> existing.diagnostics \cup incoming.diagnostics]

\* attachObservedWork: an event that is observed again takes its new
\* diagnostics, and the Work gives up those it had from it.
Attach(existing, incoming) ==
    LET Again(e) == {i \in ToSet(incoming.events) : EventId(i) = EventId(e)}
        refreshed == UNION {e.diagnostics : e \in {x \in ToSet(existing.events) : Again(x) # {}}}
        known == {EventId(e) : e \in ToSet(existing.events)}
        Refreshed(e) == IF Again(e) = {} THEN e
                        ELSE [e EXCEPT !.diagnostics = (CHOOSE i \in Again(e) : TRUE).diagnostics]
    IN  [events |-> [n \in DOMAIN existing.events |-> Refreshed(existing.events[n])]
                      \o Unseen(incoming.events, known),
         diagnostics |-> (existing.diagnostics \ refreshed) \cup incoming.diagnostics]
=============================================================================
