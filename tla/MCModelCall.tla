----------------------------- MODULE MCModelCall -----------------------------
EXTENDS ModelCall

E(k, i, x) == [k |-> k, i |-> i, x |-> x, r |-> "none"]
Reason(k, r) == [E(k, 0, <<>>) EXCEPT !.r = r]
OpenAiItems == {E("done", i, <<t>>) : i \in {1, 2}, t \in {"text", "call"}} \union
    {E("done", 1, <<"badcall">>), E("completed", 0, <<"absent">>), E("completed", 0, <<"refusal">>),
     E("completed", 0, <<"call", "call">>), E("DONE", 0, <<>>), E("garbage", 0, <<>>)}
OpenAiDeltas == {E("added", 1, <<>>), E("args", 1, <<>>), E("args", 2, <<>>), E("failed", 0, <<>>),
     E("completed", 0, <<"text">>), [E("incomplete", 0, <<"call">>) EXCEPT !.r = "MaxOutputTokens"],
     E("incomplete", 0, <<"absent">>), E("done", 1, <<"call">>)}
Blocks == {E("start", 1, <<"call">>), E("start", 2, <<"text">>), E("delta", 1, <<"call">>),
     E("delta", 2, <<"text">>), E("stop", 1, <<>>), E("stop", 2, <<>>),
     Reason("message_delta", "ToolUse"), E("message_stop", 0, <<>>)}
Messages == {E("message_start", 0, <<>>), E("ping", 0, <<>>), E("start", 1, <<"unknown">>),
     E("start", 1, <<"text">>), E("stop", 1, <<>>), Reason("message_delta", "none"),
     Reason("message_delta", "EndTurn"), E("message_stop", 0, <<>>), E("garbage", 0, <<>>)}

Plain == [proto |-> "openai", retries |-> 0, transport |-> 0, window |-> 0, serverDelay |-> 0,
          wire |-> 4, chunk |-> 1, events |-> OpenAiItems, framing |-> FALSE,
          recorder |-> FALSE, schema |-> FALSE]
Retrying == [Plain EXCEPT !.retries = 2, !.transport = 1, !.window = 1000, !.serverDelay = 600,
                          !.wire = 1, !.events = {E("completed", 0, <<"text">>), E("message_stop", 0, <<>>)}]
MCConfigs == {
    Plain,
    [Plain EXCEPT !.wire = 3, !.chunk = 2, !.framing = TRUE, !.recorder = TRUE, !.schema = TRUE,
                  !.events = OpenAiDeltas],
    [Plain EXCEPT !.proto = "anthropic", !.events = Blocks, !.wire = 7],
    [Plain EXCEPT !.proto = "anthropic", !.events = Messages, !.wire = 4, !.chunk = 2, !.schema = TRUE],
    Retrying, [Retrying EXCEPT !.proto = "anthropic"], [Retrying EXCEPT !.transport = 3]}

A(status, code, should, ms, s) == [status |-> status, code |-> code, should |-> should, ms |-> ms, s |-> s]
MCAnswers == {A(503, "none", "none", 0, 0), A(429, "rate_limit", "none", 400, 1),
              A(429, "rate_limit", "none", 700, 0), A(503, "none", "none", 0, 1),
              A(429, "none", "none", 0, 0), A(429, "quota", "none", 0, 0), A(400, "none", "none", 0, 0),
              A(400, "none", "true", 0, 0), A(500, "none", "false", 0, 0)}
=============================================================================
