---------------------------- MODULE MCSessionView ----------------------------
(***************************************************************************)
(* One tool call with a name and some content, which runs, gets a title    *)
(* and ends without its name; two modes; one compaction whose summary is   *)
(* streamed or given at the end; clients that can show notices,            *)
(* compactions, both or none.                                              *)
(***************************************************************************)
EXTENDS AcpSessionViewInv, AcpCodec, AcpMethods

\* The codecs again, for their members.  (The LET keeps TLC's statistics from
\* unfolding the cycle.)
MCToJson(t, v) == LET j == Encode(t, v) IN j
MCFromJson(t, j) == LET v == Decode(t, j) IN v

MCMethod == {"session/set_mode", "session/request_permission"}

MCNotice == {"session/update"}

MCOn == [p \in Peer |-> IF p = "agent" THEN {"session/set_mode"}
                        ELSE {"session/request_permission"}]

NothingDeferred == [p \in Peer |-> {}]

Requests == [p \in Peer |-> 1]

Updates == [p \in Peer |-> IF p = "agent" THEN 3 ELSE 0]

Renders(compaction, notices) ==
    [compaction |-> compaction, notices |-> notices, booleanConfig |-> FALSE,
     _meta |-> EmptyObj]

MCCaps == {Renders(c, n) : c, n \in BOOLEAN}

Text(x) == <<"TextContent", [text |-> x, annotations |-> Nothing, _meta |-> EmptyObj]>>

MCCall ==
    [toolCallId |-> "t-1", title |-> "Read", name |-> Just("read"), kind |-> "read",
     status |-> "in_progress", content |-> << >>, locations |-> << >>,
     rawInput |-> Nothing, rawOutput |-> Nothing, _meta |-> EmptyObj]

MCContent == <<<<"TCC_Content", [content |-> Text("out"), _meta |-> EmptyObj]>>>>

\* Everything that becomes of it.
MCCalls ==
    {[MCCall EXCEPT !.title = title, !.rawInput = raw, !.name = name, !.status = status,
                    !.content = content] :
        title \in {"Read", "Read it"}, raw \in {Nothing, Just(JNum(1))},
        name \in {Nothing, Just("read")}, status \in {"in_progress", "completed"},
        content \in {<< >>, MCContent}}

\* It gets another title and raw input, or ends with some content and loses
\* its name.
MCChanges(c) ==
    {[c EXCEPT !.title = "Read it", !.rawInput = Just(JNum(1))],
     [c EXCEPT !.status = "completed", !.content = MCContent, !.name = Nothing]}
    \ {c}

MCModes == {"ask", "code"}

MCFinal == {Nothing, Just(<<Text("whole")>>)}

MCBlock(n) == Text(ToString(n))
=============================================================================
