----------------------------- MODULE MCWorkView -----------------------------
(* Two sessions that use the same call ids: the first edits and tests, some   *)
(* calls or results twice, the second edits.                                *)
EXTENDS WorkView

Call(id, tool) == [id |-> id, tool |-> tool]
Says(calls) == [role |-> "assistant", calls |-> calls]
Result(id, ok) == [role |-> "toolResult", call |-> id, ok |-> ok]

MCSessions == {"first", "second"}

MCLines == [first  |-> {Says(<<Call("a", "edit")>>),
                        Says(<<Call("b", "test")>>),
                        Says(<<Call("a", "edit"), Call("b", "test")>>),
                        Result("a", TRUE), Result("b", TRUE), Result("b", FALSE)},
            second |-> {Says(<<Call("a", "edit")>>), Result("a", TRUE)}]

MCMaxLines == [first |-> 3, second |-> 2]
=============================================================================
