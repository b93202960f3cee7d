----------------------------- MODULE Derivation -----------------------------
(***************************************************************************)
(* What deriveObservedWork computes from an event list.                    *)
(*                                                                         *)
(* An event is <<s, n>>: the event that line n of session s normalizes to. *)
(* Its text is abstracted to the role it plays in the derivation:          *)
(*   "prompt"       a user message with text                               *)
(*   "decision"     an assistant sentence that says "I will"               *)
(*   "statement"    an assistant sentence of substance without it          *)
(*   "tool_call", "tool_result"   with the id of the call                  *)
(*   "other"        anything no rule looks at                              *)
(* Every claim is represented by the events in its evidence.               *)
(***************************************************************************)
EXTENDS Listings

CONSTANTS Sessions,  \* source sessions, each one execution of its harness
          MaxLines,  \* bound: lines of a session file
          Script     \* Script[s][n]: what line n of session s is

Roles == {"prompt", "decision", "statement", "tool_call", "tool_result", "other"}

EventIds == Sessions \X (1..MaxLines)

ASSUME ScriptAssumption ==
    /\ MaxLines \in Nat
    /\ \A s \in Sessions : \A n \in 1..MaxLines : Script[s][n].role \in Roles

Role(e) == Script[e[1]][e[2]].role
CallId(e) == Script[e[1]][e[2]].call

OfRole(l, role) == {e \in DOMAIN l : Role(e) = role}

\* The result indexToolResults keeps for a call: the first listed one of the
\* same execution and call id (none: the empty set).
ResultOf(l, c) ==
    LET results == {r \in OfRole(l, "tool_result") :
                      r[1] = c[1] /\ CallId(r) = CallId(c)}
    IN  {r \in results : \A q \in results : l[r] <= l[q]}

\* deriveGoal: the first user message.
Goal(l) ==
    LET prompts == OfRole(l, "prompt")
    IN  {e \in prompts : \A d \in prompts : l[e] <= l[d]}

\* deriveFindings: assistant statements listed after some tool result, of
\* whatever execution.
Findings(l) ==
    {e \in OfRole(l, "statement") : \E r \in OfRole(l, "tool_result") : l[r] < l[e]}

\* deriveNextSteps: tool calls without a result.
NextSteps(l) == {c \in OfRole(l, "tool_call") : ResultOf(l, c) = {}}

\* extractToolOperations: every tool call, with its result as second evidence.
Operations(l) == {<<c, ResultOf(l, c)>> : c \in OfRole(l, "tool_call")}

Derive(l) == [goal       |-> Goal(l),
              decisions  |-> OfRole(l, "decision"),
              findings   |-> Findings(l),
              nextSteps  |-> NextSteps(l),
              operations |-> Operations(l)]

\* A Work persisted without any derived claim.
NoClaims == [goal |-> {}, decisions |-> {}, findings |-> {}, nextSteps |-> {},
             operations |-> {}]

ClaimsType == [goal       : SUBSET EventIds,
               decisions  : SUBSET EventIds,
               findings   : SUBSET EventIds,
               nextSteps  : SUBSET EventIds,
               operations : SUBSET (EventIds \X SUBSET EventIds)]

\* The events a set of claims cites.
Evidence(claims) ==
    claims.goal \cup claims.decisions \cup claims.findings \cup claims.nextSteps
      \cup UNION {{op[1]} \cup op[2] : op \in claims.operations}
=============================================================================
