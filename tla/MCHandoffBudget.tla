--------------------------- MODULE MCHandoffBudget ---------------------------
(* Eight of the fifteen sections, with the priorities of the code.          *)
EXTENDS HandoffBudget

MCOrder == <<"goal", "unresolved", "decisions", "findings", "nextSteps",
             "operations", "filesTouched", "evidence">>

MCPriority == [goal |-> 2, unresolved |-> 1, decisions |-> 4, findings |-> 5,
               nextSteps |-> 1, operations |-> 6, filesTouched |-> 7, evidence |-> 12]

Text(chars) == [chars |-> chars, open |-> 0, close |-> 0]
Marked(open, close) == [chars |-> 300, open |-> open, close |-> close]

\* A list shorter than its own marker, one of exactly SectionChars, and longer
\* ones: eight items, some cut at a redaction marker, and twelve short ones.
Tiny == <<Text(5)>>
Exact == <<Text(240), Text(239), Text(239), Text(239), Text(239)>>
Eight == [n \in 1..8 |-> IF n % 3 = 0 THEN Marked(225, 250)
                         ELSE IF n % 3 = 1 THEN Marked(236, 260)
                         ELSE Text(240 + n)]
Twelve == [n \in 1..12 |-> Text(130)]

MCInputs == [goal         : {<<>>, <<Text(1)>>, <<Text(400)>>},
             unresolved   : {<<>>, <<Text(400)>>},
             decisions    : {<<>>, Exact, Eight},
             findings     : {Tiny, Exact, Eight},
             nextSteps    : {<<>>, Exact, Twelve},
             operations   : {<<>>, Exact, Twelve},
             filesTouched : {<<>>, Tiny, Twelve},
             evidence     : {<<>>, Tiny, Exact, Twelve}]
=============================================================================
