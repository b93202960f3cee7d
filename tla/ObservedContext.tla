--------------------------- MODULE ObservedContext ---------------------------
(***************************************************************************)
(* What a handoff says about the work at hand: extractToolOperations,      *)
(* extractObservedContext and resolveCurrentState over the events of one   *)
(* view of a Work.  An operation is the tool call at a place in the list;  *)
(* every call names its tool, and every edit a path.                       *)
(***************************************************************************)
EXTENDS Naturals, Sequences, FiniteSets, FiniteSetsExt

\* The first listed result of a call, or 0.
ResultAt(events, c) ==
    LET results == {n \in DOMAIN events : /\ events[n].kind = "tool_result"
                                          /\ events[n].exec = events[c].exec
                                          /\ events[n].id = events[c].id}
    IN  IF results = {} THEN 0 ELSE Min(results)

\* The operations of a view, by the place of their call.
Operations(events) == {n \in DOMAIN events : events[n].kind = "tool_call"}

Status(events, c) ==
    IF ResultAt(events, c) = 0 THEN "pending"
    ELSE IF events[ResultAt(events, c)].ok THEN "succeeded" ELSE "failed"

Pending(events) == {c \in Operations(events) : Status(events, c) = "pending"}

\* deriveNextSteps: the calls without a result.
NextSteps(events) == {c \in Operations(events) : ResultAt(events, c) = 0}

\* An operation starts with its call and ends with the later of its evidence.
Start(c) == c
\* Mutant: an operation ends with its call.
EndAtCall(events, c) == c

End(events, c) == Max({c, ResultAt(events, c)})

Edits(events) == {c \in Operations(events) : /\ events[c].tool = "edit"
                                             /\ Status(events, c) = "succeeded"}
Tests(events) == {c \in Operations(events) : events[c].tool = "test"}

\* The edit that ends last, and of two that end alike the later one.
LatestEdit(events) ==
    LET edits == Edits(events)
        ending == Max({End(events, c) : c \in edits})
    IN  Max({c \in edits : End(events, c) = ending})

LatestTest(events) == Max({Start(c) : c \in Tests(events)})

\* The latest test says something about the latest edit: it started after that
\* had ended, in the one execution that edited.
CurrentTest(events) ==
    LET edit == LatestEdit(events)
        test == LatestTest(events)
    IN  /\ {events[c].exec : c \in Edits(events)} = {events[test].exec}
        /\ events[edit].exec = events[test].exec
        /\ Start(test) > End(events, edit)

\* What is known about the edits, or, without any, about a test that failed: the
\* outcome of a test that is current, or why there is none.
Verification(events) ==
    IF Edits(events) = {}
    THEN IF Tests(events) # {} /\ Status(events, LatestTest(events)) = "failed"
         THEN "failed" ELSE "none"
    ELSE IF Tests(events) = {} THEN "not recorded"
    ELSE IF ~ CurrentTest(events) THEN "not recorded after latest edit"
    ELSE Status(events, LatestTest(events))

Verified(events) == Edits(events) # {} /\ Verification(events) = "succeeded"

\* The line "unresolved" of a handoff, or "none".
Unresolved(events) ==
    IF Pending(events) # {} THEN "pending"
    ELSE IF Verified(events) THEN "none"
    ELSE Verification(events)

\* The list "nextSteps" of a handoff: the calls that have no result, and what is
\* to be done about edits or tests once nothing is pending.
Continuation(events) ==
    {<<"complete", c>> : c \in IF NextSteps(events) # {} THEN NextSteps(events)
                                                        ELSE Pending(events)}
      \cup {<<"verify", c>> : c \in IF Pending(events) = {} /\ ~ Verified(events)
                                    THEN Edits(events) ELSE {}}
      \cup {<<"investigate", c>> : c \in IF /\ Pending(events) = {}
                                             /\ Edits(events) = {}
                                             /\ Verification(events) = "failed"
                                          THEN {LatestTest(events)} ELSE {}}

\* Mutant: edits are named before what is pending.
EditsFirst(events, codes) ==
    IF Edits(events) # {} THEN "edits"
    ELSE IF Pending(events) # {} THEN "pending"
    ELSE IF Verification(events) # "none" THEN "verification"
    ELSE "none"

\* resolveCurrentState: the line "currentState" of a handoff, or "none".
CurrentState(events, codes) ==
    IF Pending(events) # {} THEN "pending"
    ELSE IF Edits(events) # {} THEN "edits"
    ELSE IF Verification(events) # "none" THEN "verification"
    ELSE IF Continuation(events) # {} THEN "next steps"
    ELSE IF Operations(events) = {} /\ "missing_tool_result" \in codes THEN "pending"
    ELSE "none"
=============================================================================
