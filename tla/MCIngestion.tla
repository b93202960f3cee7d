---------------------------- MODULE MCIngestion ----------------------------
(* Lines that make the adapters differ: sessions that are resumed or have no *)
(* header, calls with the id of another call or the number of its place,     *)
(* entries without ids, branches that close.                                 *)
EXTENDS Ingestion

Line(type, id, parent, text, calls) ==
    [form |-> "record", type |-> type, id |-> id, parent |-> parent,
     text |-> text, calls |-> calls]
Rejected(form) == [Torn EXCEPT !.form = form]

CodexLines ==
    {Line("session_meta", id, None, FALSE, <<>>) : id \in {"s1", "s2"}}
      \cup {Line("message", None, None, text, <<>>) : text \in BOOLEAN}
      \cup {Line("function_call", None, None, FALSE, <<"a">>),
            Line("function_call_output", None, None, FALSE, <<"a">>),
            Line("other", None, None, FALSE, <<>>),
            Rejected("blank"), Rejected("untyped"), Rejected("bare")}

GrokLines ==
    {Line("user", None, None, text, <<>>) : text \in BOOLEAN}
      \cup {Line("assistant", None, None, text, calls) :
              text \in BOOLEAN, calls \in {<<>>, <<"a">>, <<"1", None>>, <<"a", "a">>}}
      \cup {Line("tool_result", None, None, FALSE, <<"a">>),
            Line("system", None, None, FALSE, <<>>),
            Line("other", None, None, FALSE, <<>>),
            Rejected("blank"), Rejected("untyped")}

PiLines ==
    {Line("session", "s1", None, FALSE, <<>>),
     Line("assistant", "1", "2", TRUE, <<"a", "a">>),
     Line("toolResult", "2", "1", FALSE, <<"a">>),
     Line("bashExecution", "2", "3", FALSE, <<>>),
     Line("user", "3", "1", TRUE, <<>>),
     Line("user", "3", "3", TRUE, <<>>),
     Line("other", None, "2", FALSE, <<>>),
     Line("user", "1", None, TRUE, <<>>),
     Rejected("scalar")}

MCLines == [codex |-> CodexLines, grok |-> GrokLines, pi |-> PiLines]
\* The two names of a Grok session agree or differ, the summary names none, or the
\* transcript was taken out of its directory and renamed.
MCNames ==
    {[directory |-> "d", summary |-> "d"], [directory |-> "d", summary |-> "s"],
     [directory |-> "d", summary |-> None], [directory |-> None, summary |-> "s"]}
MCMaxLines == [codex |-> 3, grok |-> 2, pi |-> 3]
=============================================================================
