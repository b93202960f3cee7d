--------------------------- MODULE MCHarnieStore ---------------------------
(* Small instances of HarnieStore for TLC. *)
EXTENDS StoreInvariant, StoreImplementsWorkLog, TLC

CONSTANTS a, b

\* Session a calls a tool and gets its result, session b prompts and makes a
\* statement, which is a finding only after the tool result of a.
MCScript == (a :> << [role |-> "tool_call", call |-> 1], [role |-> "tool_result", call |-> 1] >>)
         @@ (b :> << [role |-> "prompt", call |-> 0], [role |-> "statement", call |-> 0] >>)

ProcSymmetry == Permutations(Procs)
=============================================================================
