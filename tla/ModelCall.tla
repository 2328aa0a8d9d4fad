------------------------------ MODULE ModelCall ------------------------------
(***************************************************************************)
(* One model call: the HTTP opening and its retries (kolyan-protocol-http, *)
(* the OpenAI and Anthropic clients), the response stream over SSE         *)
(* (kolyan-protocol-sse, responses/stream.rs, messages/stream.rs), the     *)
(* provider's mapping to neutral events (kolyan-provider-openai,           *)
(* kolyan-provider-anthropic) and the Step that consumes it (kolyan-core). *)
(*                                                                         *)
(* The stack is pulled: a poll of the Step asks the provider, which asks   *)
(* the response stream, which reads the body only when nothing is pending. *)
(* What the server sends is free; `sent` keeps it for the properties.      *)
(***************************************************************************)
EXTENDS Integers, Sequences, FiniteSets, SequencesExt, TLC

CONSTANTS Configs,   \* client settings and how much of the server is explored
          Answers,   \* the error statuses a server may answer with
          Quantum    \* milliseconds that pass at a time while waiting (a bound)
\* what HttpRetryPolicy accepts
ValidPolicy(c) == /\ {c.retries, c.transport, c.window, c.serverDelay} \subseteq Nat
                  /\ c.retries <= 16 /\ c.window <= 86400000 /\ c.serverDelay <= c.window
                  /\ c.retries > 0 => c.window > 0 /\ c.serverDelay > 0
ASSUME CallAssumption == Quantum \in Nat \ {0} /\ \A c \in Configs : ValidPolicy(c)

VARIABLES cfg,     \* the settings of this call
          net,     \* the opening loop
          body,    \* ResponseStream / MessageStream
          prov,    \* provider mapping state
          step,    \* ControlledStepStream and what it yielded
          result,  \* what aggregate_step_stream returned
          stop,    \* "none", "Cancelled" or "TimedOut": the Step's boundary
          sent     \* every complete event the server put on the wire
vars == <<cfg, net, body, prov, step, result, stop, sent>>

Init == /\ cfg \in Configs
        /\ net = [phase |-> "open", sends |-> 0, retries |-> 0, elapsed |-> 0, delay |-> 0,
                  report |-> 0, answer |-> "none", end |-> "none", sentAt |-> 0]
        /\ body = [pending |-> <<>>, done |-> FALSE, deferred |-> FALSE]
        /\ prov = [known |-> {}, items |-> <<>>, active |-> <<>>, reason |-> "none",
                   mapped |-> <<>>, finished |-> FALSE]
        /\ step = [started |-> FALSE, completed |-> FALSE, calls |-> <<>>, content |-> <<>>, outcome |-> "none"]
        /\ result = "none" /\ stop = "none" /\ sent = <<>>

----------------------------------------------------------------------------
(* HttpRetryPolicy *)

Bounded == cfg.retries > 0
\* remaining_ms; zero stands for none
Remaining == IF cfg.window > net.elapsed THEN cfg.window - net.elapsed ELSE 0

Known429 == {"rate_limit"}
Backoff(n, jitter) ==
    LET base == 500 * 2 ^ (IF n < 4 THEN n ELSE 4)
        capped == IF base < 8000 THEN base ELSE 8000
    IN (capped * jitter + 99) \div 100

\* server_hint: retry-after-ms before retry-after in seconds; zero stands for none
Hint(a) == IF a.ms > 0 THEN a.ms ELSE 1000 * a.s
\* decide: the first reason to stop, or the delay before the next send
Decide(a, jitter) ==
    LET Stopped(why) == [stop |-> why, delay |-> 0]
        delay == IF Hint(a) > 0 THEN Hint(a) ELSE Backoff(net.retries, jitter)
    IN CASE a.code = "quota" -> Stopped("PermanentQuota")
         [] a.code # "quota" /\ ~Bounded -> Stopped("Disabled")
         [] a.code # "quota" /\ Bounded ->
            IF net.retries >= cfg.retries THEN Stopped("Exhausted")
            ELSE IF a.status = 429 /\ a.code \notin Known429 THEN Stopped("UnknownRateLimit")
            ELSE IF a.should = "false" THEN Stopped("HeaderDenied")
            ELSE IF a.should # "true" /\ ~(a.status \in {408, 409, 429} \/ a.status >= 500)
                 THEN Stopped("Ineligible")
            ELSE IF \/ cfg.proto = "openai" /\ Hint(a) > 120000
                    \/ Hint(a) > cfg.serverDelay THEN Stopped("ServerDelayLimit")
            ELSE IF Remaining = 0 \/ delay >= Remaining THEN Stopped("ElapsedLimit")
            ELSE [stop |-> "none", delay |-> delay]

\* an eligible transport failure is retried at once, on the same counter
DecideTransport(eligible) ==
    [stop |-> IF ~eligible THEN "Ineligible"
              ELSE IF net.retries < cfg.transport THEN "none" ELSE "Exhausted",
     delay |-> 0]

----------------------------------------------------------------------------
(* open: the loop around send *)

Rest == UNCHANGED <<cfg, body, prov, step, sent>>
Failed(n, why) == /\ net' = [n EXCEPT !.phase = "failed", !.end = why]
                  /\ result' = "Provider" /\ UNCHANGED stop
\* the Step's boundary covers the opening future: a stop drops it
Opening == net.phase \in {"open", "sent", "body", "sleep"} /\ result = "none"

\* mutant: the window is not looked at again before a request
SendUnchecked ==
    /\ Opening /\ net.phase = "open" /\ Rest
    /\ net' = [net EXCEPT !.phase = "sent", !.sends = @ + 1, !.sentAt = net.elapsed]
    /\ UNCHANGED <<result, stop>>
Send ==
    /\ Opening /\ net.phase = "open" /\ Rest
    /\ IF Bounded /\ Remaining = 0 THEN Failed(net, "ElapsedLimit")
       ELSE /\ net' = [net EXCEPT !.phase = "sent", !.sends = @ + 1, !.sentAt = net.elapsed]
            /\ UNCHANGED <<result, stop>>

\* one observation per send
Observe(n) == [n EXCEPT !.report = @ + 1]
\* the opening budget ran out while waiting for headers or for an error body
BudgetStop ==
    /\ Opening /\ net.phase \in {"sent", "body"} /\ Bounded /\ Remaining = 0 /\ Rest
    /\ Failed(Observe(net), "ElapsedLimit")

Success ==
    /\ Opening /\ net.phase = "sent" /\ Rest
    /\ net' = [Observe(net) EXCEPT !.phase = "stream"] /\ UNCHANGED <<result, stop>>

ErrorStatus ==
    /\ Opening /\ net.phase = "sent" /\ Rest
    /\ \E a \in Answers : net' = [net EXCEPT !.phase = "body", !.answer = a]
    /\ UNCHANGED <<result, stop>>

\* the observation is kept, then the loop stops or sleeps; the Anthropic client
\* looks at the clock once more before sleeping
Retry(n, d) ==
    IF d.stop # "none" THEN Failed(Observe(n), d.stop)
    ELSE IF cfg.proto = "anthropic" /\ Bounded /\ (Remaining = 0 \/ d.delay >= Remaining)
    THEN Failed(Observe(n), "ElapsedLimit")
    ELSE /\ net' = [Observe(n) EXCEPT !.phase = "sleep", !.delay = d.delay]
         /\ UNCHANGED <<result, stop>>

\* the bounded error body is read (or not readable) and the policy decides
DecideStatus ==
    /\ Opening /\ net.phase = "body" /\ Rest
    /\ \E jitter \in {75, 100} : Retry([net EXCEPT !.answer = "none"], Decide(net.answer, jitter))

TransportError ==
    /\ Opening /\ net.phase = "sent" /\ Rest
    /\ \E eligible \in BOOLEAN : Retry(net, DecideTransport(eligible))

Wake ==
    /\ Opening /\ net.phase = "sleep" /\ Rest
    /\ LET n == [net EXCEPT !.elapsed = @ + net.delay, !.delay = 0] IN
       IF cfg.proto = "anthropic" /\ Bounded /\ n.elapsed >= cfg.window
       THEN Failed(n, "ElapsedLimit")
       ELSE /\ net' = [n EXCEPT !.phase = "open", !.retries = @ + 1] /\ UNCHANGED <<result, stop>>

Tick ==
    /\ Opening /\ net.phase \in {"sent", "body", "sleep"} /\ Bounded /\ net.elapsed < cfg.window
    /\ net' = [net EXCEPT !.elapsed = @ + Quantum] /\ Rest /\ UNCHANGED <<result, stop>>

----------------------------------------------------------------------------
(* The Step's boundary *)

\* cancellation or the deadline; the boundary reports cancellation first
Fire(s) == /\ result = "none" /\ stop # "Cancelled" /\ stop # s
           /\ stop' = s /\ UNCHANGED <<cfg, net, body, prov, step, result, sent>>

\* select!: the opening future is dropped and the Step only reports the stop
StopOpening ==
    /\ Opening /\ stop # "none"
    /\ net' = [net EXCEPT !.phase = "stopped"]
    /\ UNCHANGED <<cfg, body, prov, step, result, stop, sent>>

----------------------------------------------------------------------------
(* What a provider makes of one wire event: its new state and neutral events *)

Ev(k) == [k |-> k, c |-> <<>>, r |-> "none"]
Values(f) == LET order == SetToSortSeq(DOMAIN f, LAMBDA a, b : a < b)
             IN [j \in 1..Len(order) |-> f[order[j]]]
Block(t) == [t |-> t, n |-> 0]
Calls(content) == SelectSeq(content, LAMBDA b : b.t = "call")
Mapped(p, out) == [p |-> p, out |-> out]
Refused(p) == Mapped(p, <<Ev("Err")>>)

\* OpenAI: recover_finalized_output keeps the done items, the last one per index
Finalized(e) == IF e.k = "done" THEN (e.i :> Block(e.x[1])) @@ prov.items ELSE prov.items
\* mutant: an output that came with the terminal is completed with the finalised items
OutputMerged(e) ==
    IF e.x = <<"absent">> \/ Len(e.x) < Cardinality(DOMAIN prov.items) THEN Values(prov.items)
    ELSE [j \in 1..Len(e.x) |-> Block(e.x[j])]
Output(e) == IF e.x = <<"absent">> THEN Values(prov.items)
             ELSE [j \in 1..Len(e.x) |-> Block(e.x[j])]
\* map_output fails on a malformed function call
MapOutput(xs) == \A j \in DOMAIN xs : xs[j].t # "badcall"
StopReason(xs) == IF \E j \in DOMAIN xs : xs[j].t = "refusal" THEN "Refusal"
                  ELSE IF Calls(xs) # <<>> THEN "ToolUse" ELSE "EndTurn"
\* finalized_call_events: the calls of the final response, then the response
FinalizedCalls(xs, reason) ==
    [j \in 1..Len(Calls(xs)) |-> [Ev("Call") EXCEPT !.c = <<Calls(xs)[j]>>]]
      \o << [k |-> "Completed", c |-> xs, r |-> reason] >>

MapEvent(e) ==
    LET p == [prov EXCEPT !.items = Finalized(e)]
        xs == Output(e)
    IN CASE e.k = "added" -> Mapped([p EXCEPT !.known = @ \union {e.i}], <<Ev("Meta")>>)
         [] e.k = "args" -> IF e.i \in prov.known THEN Mapped(p, <<Ev("Meta")>>) ELSE Refused(p)
         [] e.k = "completed" -> IF MapOutput(xs) THEN Mapped(p, FinalizedCalls(xs, StopReason(xs)))
                                 ELSE Refused(p)
         [] e.k = "incomplete" -> IF e.x # <<"absent">> /\ MapOutput(xs)
                                  THEN Mapped(p, FinalizedCalls(xs, e.r)) ELSE Refused(p)
         [] e.k = "failed" -> Refused(p)
         [] OTHER -> Mapped(p, <<Ev("Meta")>>)

\* Anthropic: Blocks::event, one active block per index
BlockStart(e) ==
    IF e.i \in DOMAIN prov.active THEN Refused(prov)
    ELSE Mapped([prov EXCEPT !.active = (e.i :> Block(e.x[1])) @@ @], <<Ev("Meta")>>)
BlockDelta(e) ==
    IF e.i \notin DOMAIN prov.active \/ prov.active[e.i].t # e.x[1] THEN Refused(prov)
    ELSE Mapped([prov EXCEPT !.active[e.i].n = @ + 1], <<Ev("Meta")>>)
\* mutant: unfinished tool arguments are accepted
ArgumentsLoose(b) == TRUE
\* a piece is half of the arguments: none means the block's own input
Arguments(b) == b.t = "call" => b.n \in {0, 2}
BlockStop(e) ==
    IF e.i \notin DOMAIN prov.active THEN Refused(prov)
    ELSE LET b == prov.active[e.i]
             p == [prov EXCEPT !.active = [j \in DOMAIN @ \ {e.i} |-> @[j]],
                               !.items = IF b.t = "unknown" THEN @ ELSE (e.i :> b) @@ @]
         IN IF ~Arguments(b) \/ (b.t # "unknown" /\ e.i \in DOMAIN prov.items) THEN Refused(p)
            ELSE Mapped(p, << IF b.t = "call" THEN [Ev("Call") EXCEPT !.c = <<b>>] ELSE Ev("Meta") >>)
MessageStop(e) ==
    IF DOMAIN prov.active # {} \/ prov.reason = "none" THEN Refused(prov)
    ELSE Mapped(prov, << [k |-> "Completed", c |-> Values(prov.items), r |-> prov.reason] >>)
AnthropicEvent(e) ==
    CASE e.k = "start" -> BlockStart(e)
      [] e.k = "delta" -> BlockDelta(e)
      [] e.k = "stop" -> BlockStop(e)
      [] e.k = "message_delta" -> Mapped([prov EXCEPT !.reason = e.r], <<Ev("Meta")>>)
      [] e.k = "message_stop" -> MessageStop(e)
      [] OTHER -> Mapped(prov, <<>>)   \* message_start: Started is not passed on

----------------------------------------------------------------------------
(* ResponseStream, MessageStream: read the body only when nothing is pending *)

Streaming == net.phase = "stream" /\ result = "none" /\ step.started
\* the Step polls the provider and the provider has nothing left of the last event
Pulls == Streaming /\ stop = "none" /\ prov.mapped = <<>> /\ ~prov.finished
Reads == Pulls /\ body.pending = <<>> /\ ~body.done /\ ~body.deferred

\* the recorder, asked before the Step advances, may refuse
Recorded(then) == \/ then /\ UNCHANGED <<cfg, net, stop, sent>>
                  \/ /\ cfg.recorder /\ result' = "Recording"
                     /\ UNCHANGED <<cfg, net, body, prov, step, stop, sent>>
\* an error of the stream reaches the Step, which releases everything
StreamError == result' = "Provider" /\ UNCHANGED <<cfg, net, prov, step, stop, sent>>

\* Decoder::push: whole events, and a bad line after them is reported later
Chunk ==
    /\ Reads /\ Len(sent) < cfg.wire
    /\ \E n \in 1..cfg.chunk : \E es \in [1..n -> cfg.events], bad \in {FALSE, cfg.framing} :
         /\ Len(sent) + n <= cfg.wire
         /\ body' = [body EXCEPT !.pending = es, !.deferred = bad]
         /\ sent' = sent \o es
    /\ UNCHANGED <<cfg, net, prov, step, result, stop>>

\* a bad first line, or a transport error in the body
BodyError == Reads /\ body' = [body EXCEPT !.done = TRUE] /\ StreamError
\* end of the body: finish fails on a bad rest, otherwise the stream just ends
Eof == /\ Reads /\ body' = [body EXCEPT !.done = TRUE]
       /\ \/ cfg.framing /\ StreamError
          \/ UNCHANGED <<cfg, net, prov, step, result, stop, sent>>
Deferred == /\ Pulls /\ body.pending = <<>> /\ ~body.done /\ body.deferred
            /\ body' = [body EXCEPT !.done = TRUE, !.deferred = FALSE] /\ StreamError

\* require_terminal, map_stream: EOF is not completion
Unfinished ==
    /\ Pulls /\ body.pending = <<>> /\ body.done
    /\ body' = body /\ StreamError

\* [DONE] ends the stream whatever is still pending; an event no client knows is skipped
Skip ==
    /\ Pulls /\ body.pending # <<>> /\ Head(body.pending).k \in {"DONE", "ping"}
    /\ body' = IF Head(body.pending).k = "ping" THEN [body EXCEPT !.pending = Tail(@)]
               ELSE [body EXCEPT !.pending = <<>>, !.done = TRUE]
    /\ UNCHANGED <<cfg, net, prov, step, result, stop, sent>>
\* undecodable data, an error payload or an error event: the rest is dropped
Garbage ==
    /\ Pulls /\ body.pending # <<>> /\ Head(body.pending).k = "garbage"
    /\ body' = [body EXCEPT !.pending = <<>>, !.done = TRUE] /\ StreamError

MapWire(e) == IF cfg.proto = "openai" THEN MapEvent(e) ELSE AnthropicEvent(e)
Map ==
    /\ Pulls /\ body.pending # <<>> /\ Head(body.pending).k \notin {"DONE", "ping", "garbage"}
    /\ LET m == MapWire(Head(body.pending)) IN
       /\ prov' = [m.p EXCEPT !.mapped = m.out]
       /\ body' = [body EXCEPT !.pending = Tail(@)]
    /\ UNCHANGED <<cfg, net, step, result, stop, sent>>

----------------------------------------------------------------------------
(* ControlledStepStream inside RecordingStepStream, consumed to the end *)

PollStart ==
    /\ net.phase \in {"stream", "stopped"} /\ result = "none" /\ ~step.started
    /\ Recorded(step' = [step EXCEPT !.started = TRUE] /\ UNCHANGED <<body, prov, result>>)

\* the stop is read before the provider is polled, after Completed too
PollStop ==
    /\ net.phase \in {"stream", "stopped"} /\ result = "none" /\ step.started /\ stop # "none"
    /\ result' = stop
    /\ UNCHANGED <<cfg, net, body, prov, step, stop, sent>>

Deliver == prov' = [prov EXCEPT !.mapped = Tail(@)] /\ UNCHANGED body
PollEvent ==
    /\ Streaming /\ stop = "none" /\ prov.mapped # <<>> /\ Head(prov.mapped).k \in {"Meta", "Call"}
    /\ Recorded(/\ Deliver /\ UNCHANGED result
                /\ step' = [step EXCEPT !.calls = @ \o Head(prov.mapped).c])
PollError ==
    /\ Streaming /\ stop = "none" /\ prov.mapped # <<>> /\ Head(prov.mapped).k = "Err"
    /\ body' = body /\ StreamError
\* OutputValidator: only a final answer has to satisfy the schema
InvalidOutput ==
    /\ Streaming /\ stop = "none" /\ prov.mapped # <<>> /\ Head(prov.mapped).k = "Completed"
    /\ cfg.schema /\ Head(prov.mapped).r = "EndTurn"
    /\ body' = body /\ StreamError
InvalidStep ==
    /\ Streaming /\ stop = "none" /\ prov.mapped # <<>> /\ Head(prov.mapped).k = "Completed"
    /\ cfg.schema /\ result' = "Validation"
    /\ UNCHANGED <<cfg, net, body, prov, step, stop, sent>>
Outcome(reason) == CASE reason = "EndTurn" -> "FinalAnswer" [] reason = "ToolUse" -> "ToolCalls"
                     [] reason = "Refusal" -> "Refused" [] OTHER -> "Incomplete"
PollCompleted ==
    /\ Streaming /\ stop = "none" /\ prov.mapped # <<>> /\ Head(prov.mapped).k = "Completed"
    /\ Recorded(/\ prov' = [prov EXCEPT !.mapped = Tail(@), !.finished = TRUE]
                /\ step' = [step EXCEPT !.completed = TRUE, !.content = Head(prov.mapped).c,
                                        !.outcome = Outcome(Head(prov.mapped).r)]
                /\ UNCHANGED <<body, result>>)
\* mutant: a completed answer is no longer stopped
PollEndUnstopped ==
    /\ Streaming /\ prov.finished
    /\ result' = IF step.completed THEN "ok" ELSE "Protocol"
    /\ UNCHANGED <<cfg, net, body, prov, step, stop, sent>>
\* aggregate_step_stream: the completed result, once the stream has ended
PollEnd ==
    /\ Streaming /\ stop = "none" /\ prov.finished
    /\ result' = IF step.completed THEN "ok" ELSE "Protocol"
    /\ UNCHANGED <<cfg, net, body, prov, step, stop, sent>>

Http == Send \/ BudgetStop \/ Success \/ ErrorStatus \/ DecideStatus \/ TransportError \/ Wake \/ Tick
Wire == Chunk \/ BodyError \/ Eof \/ Deferred \/ Unfinished \/ Skip \/ Garbage \/ Map
Poll == \/ PollStart \/ PollStop \/ PollEvent \/ PollError \/ InvalidOutput
        \/ InvalidStep \/ PollCompleted \/ PollEnd
Next == \/ Http \/ Wire \/ Poll \/ StopOpening
        \/ \E s \in {"Cancelled", "TimedOut"} : Fire(s)
Spec == Init /\ [][Next]_vars

----------------------------------------------------------------------------
(* Properties *)

\* The answer as the protocol defines it, from everything the server sent
Terminals == {j \in 1..Len(sent) : sent[j].k \in {"completed", "incomplete", "message_stop"}}
Terminal == CHOOSE j \in Terminals : \A k \in Terminals : j <= k
Earlier(k, i) == {j \in 1..(Terminal - 1) : sent[j].k = k /\ sent[j].i = i}
Indexes(k) == {i \in {sent[j].i : j \in 1..(Terminal - 1)} : Earlier(k, i) # {}}
Latest(S) == CHOOSE j \in S : \A k \in S : k <= j
OpenAiAnswer ==
    IF sent[Terminal].x # <<"absent">> THEN [j \in 1..Len(sent[Terminal].x) |-> Block(sent[Terminal].x[j])]
    ELSE Values([i \in Indexes("done") |-> Block(sent[Latest(Earlier("done", i))].x[1])])
AnthropicAnswer ==
    Values([i \in {h \in Indexes("start") : sent[Latest(Earlier("start", h))].x # <<"unknown">>} |->
              [t |-> sent[Latest(Earlier("start", i))].x[1], n |-> Cardinality(Earlier("delta", i))]])

\* A Step answers only after the protocol's own terminal event, with nothing the
\* protocol calls an error before it, and its content is what the server finalised:
\* not what a truncated, reordered or interleaved stream had produced so far.
AnswerFromWire ==
    result = "ok" =>
      /\ Terminals # {}
      /\ \A j \in 1..(Terminal - 1) : sent[j].k \notin {"garbage", "failed", "DONE"}
      /\ step.content = IF cfg.proto = "openai" THEN OpenAiAnswer ELSE AnthropicAnswer
      /\ cfg.proto = "anthropic" => Indexes("stop") = Indexes("start")

Occurrences(x, s) == Cardinality({j \in DOMAIN s : s[j] = x})
\* The calls the Step announced one by one are the calls of the answer, each with
\* arguments that arrived whole; OpenAI calls are announced only once the final
\* response is there.
CallsOfAnswer ==
    /\ \A j \in DOMAIN step.calls : step.calls[j].n # 1
    /\ step.calls # <<>> /\ cfg.proto = "openai" => Terminals # {}
    /\ step.completed => \A x \in ToSet(step.calls) \union ToSet(Calls(step.content)) :
                           Occurrences(x, step.calls) = Occurrences(x, Calls(step.content))

\* Every request on the wire has exactly one observation in the retry report, and
\* the two kinds of retry together send no more than the larger of their budgets.
SendsAccounted ==
    /\ net.phase \in {"stream", "failed", "sleep"} => net.report = net.sends
    /\ net.sends <= 1 + (IF cfg.retries > cfg.transport THEN cfg.retries ELSE cfg.transport)

\* With retries on, no request leaves once the opening window has elapsed, however
\* long headers, error bodies and waits took.
SendsInsideWindow == Bounded /\ net.sends > 0 => net.sentAt < cfg.window

\* What leaves the machine is bounded and known: sends, report and window agree.
SendsSound == SendsAccounted /\ SendsInsideWindow

\* A Step whose boundary has fired never ends with an answer, whichever part of the
\* call it interrupts.
StopWins == [][result' = "ok" /\ result # "ok" => stop = "none"]_vars
=============================================================================
