----------------------------- MODULE ModelOpening -----------------------------
(***************************************************************************)
(* The one-shot durable permission for a generation: kolyan-runtime's      *)
(* model_opening (attempt, writer, consumer), the proof that reads it back *)
(* (model_opening_proof) and the Step that waits for it (kolyan-core's     *)
(* step.rs and step/control.rs).                                           *)
(*                                                                         *)
(* One execution.  An attempt is one run of the Turn in one process; two   *)
(* attempts never share a registry, only the Ledger and the Fact journal.  *)
(* The storage work of an opening runs on a blocking thread that a stopped *)
(* Step leaves behind.  The recorder that publishes requests and           *)
(* completions is the contract attempt.rs states for its caller.           *)
(***************************************************************************)
EXTENDS Integers, Sequences, FiniteSets, FiniteSetsExt

CONSTANTS MaxAttempts,  \* runs of the Turn, each with a registry of its own (a bound)
          MaxCrashes,   \* processes that die (a bound)
          Names,        \* how the attempts are named for the recorder
          MaxSteps,     \* max_steps of the input admission
          MaxStream,    \* [Step -> Nat]: recorded stream events (a bound)
          MaxEvents     \* ModelOpeningInspectionLimits.max_events
ASSUME OpeningAssumption ==
    /\ MaxSteps \in Nat \ {0} /\ MaxStream \in [0..(MaxSteps - 1) -> Nat] /\ MaxEvents \in Nat
    /\ MaxAttempts \in Nat \ {0} /\ MaxCrashes \in Nat /\ Names \subseteq [1..MaxAttempts -> STRING]

Attempts == 1..MaxAttempts
Steps == 0..(MaxSteps - 1)

VARIABLES ledger,    \* the execution's events; the cursor is the index
          facts,     \* [Steps -> request cursor]: model-preparation streams, 0 is empty
          reg,       \* [Attempts -> [Steps -> Entry]]: the in-process registries
          drv,       \* [Attempts -> the Turn's position]
          wrk,       \* [Attempts -> the blocking storage worker]
          cancelled, \* attempts whose StepControl/TurnControl is cancelled
          expired,   \* the absolute deadline has passed
          rec,       \* [Attempts -> the recorder's attempt name]
          next,      \* [Attempts -> Nat]: the recorder's next event number
          gen        \* [Steps -> Nat]: how often stream_prepared was entered
vars == <<ledger, facts, reg, drv, wrk, cancelled, expired, rec, next, gen>>

Terminals == {"TurnCompleted", "TurnFailed", "TurnCancelled", "TurnTimedOut"}
ModelFacts == {"StepStarted", "ModelRequested", "ModelOpeningAdmitted",
               "ModelStreamEvent", "StepCompleted"}

\* `step` names the Step, `req` and `open` are coordinates of earlier events
Event(kind, id, step, req, open, out) ==
    [kind |-> kind, id |-> id, step |-> step, req |-> req, open |-> open, out |-> out]
Plain(kind) == Event(kind, <<kind, 0>>, 0, 0, 0, "none")

NoEntry == [st |-> "none", req |-> 0, open |-> 0]
Idle == [pc |-> "idle", s |-> 0, req |-> 0, n |-> 0, out |-> "none"]
NoWorker == [pc |-> "none", open |-> 0]

Init == /\ ledger = <<Plain("ExecutionBound"), Plain("ExecutionStarted"),
                      Plain("ExecutionInputAdmitted")>>
        /\ facts = [s \in Steps |-> 0]
        /\ reg = [a \in Attempts |-> [s \in Steps |-> NoEntry]]
        /\ drv = [a \in Attempts |-> Idle]
        /\ wrk = [a \in Attempts |-> NoWorker]
        /\ cancelled = {}
        /\ expired = FALSE
        /\ rec \in Names
        /\ next = [a \in Attempts |-> 0]
        /\ gen = [s \in Steps |-> 0]

----------------------------------------------------------------------------
(* inspect_model_openings: the strict reading of a prefix es *)

Kinds(es, K, lo, hi) == {i \in (lo + 1)..(hi - 1) : es[i].kind \in K}
\* the facts of the Step that is current at position i
StepAt(es, i) == LET B == Kinds(es, {"StepStarted"}, 0, i) IN IF B = {} THEN 0 ELSE Max(B)
OfStep(es, i, kind) == Kinds(es, {kind}, StepAt(es, i), i)
Admission(es) == Min(Kinds(es, {"ExecutionInputAdmitted"}, 0, Len(es) + 1))

\* mutant: an opening that never completed counts as completed
StepStateOptimistic(es, i) ==
    IF OfStep(es, i, "ModelOpeningAdmitted") # {} THEN "Completed" ELSE "NotAdmitted"
\* ModelOpeningState of the Step current at i
StepState(es, i) ==
    IF OfStep(es, i, "StepCompleted") # {} THEN "Completed"
    ELSE IF OfStep(es, i, "ModelOpeningAdmitted") # {} THEN "Uncertain" ELSE "NotAdmitted"

ExecutionPrefix(es) ==
    LET S == Kinds(es, {"ExecutionStarted"}, 0, Len(es) + 1)
        B == Kinds(es, {"ExecutionBound"}, 0, Len(es) + 1)
    IN /\ Cardinality(S) = 1 /\ Min(S) < Admission(es)
       /\ 1..(Min(S) - 1) \subseteq B /\ \A b \in B : b = 1 /\ b < Min(S)

StepStartedOk(es, i) ==
    LET before == Kinds(es, {"StepStarted"}, 0, i)
        done == OfStep(es, i, "StepCompleted")
    IN /\ Cardinality(before) < MaxSteps /\ es[i].step = Cardinality(before)
       /\ before # {} => /\ StepState(es, i) = "Completed"
                         /\ \A j \in done : es[j].out = "ToolCalls"

RequestedOk(es, i) ==
    /\ StepAt(es, i) # 0 /\ OfStep(es, i, "ModelRequested") = {}
    /\ es[i].step = es[StepAt(es, i)].step

\* the preparation record resolves, and binds the request the opening names
FactFor(step) == facts[step] # 0
PreparationBinds(opening) == facts[opening.step] = opening.req

\* the opening names the Step's request and its preparation
OpeningOk(es, i) ==
    /\ Kinds(es, {"ExecutionCancelled", "TurnCancelled"}, 0, i) = {}
    /\ StepAt(es, i) # 0 /\ OfStep(es, i, "ModelRequested") # {}
    /\ OfStep(es, i, "ModelOpeningAdmitted") = {} /\ OfStep(es, i, "StepCompleted") = {}
    /\ es[i].step = es[StepAt(es, i)].step
    /\ OfStep(es, i, "ModelRequested") = {es[i].req}
    /\ FactFor(es[i].step) /\ PreparationBinds(es[i])

StreamOk(es, i) ==
    /\ StepAt(es, i) # 0
    /\ OfStep(es, i, "ModelOpeningAdmitted") # {} /\ OfStep(es, i, "StepCompleted") = {}
    /\ es[i].step = es[StepAt(es, i)].step

CompletedOk(es, i) ==
    /\ StepAt(es, i) # 0 /\ OfStep(es, i, "StepCompleted") = {}
    /\ es[i].step = es[StepAt(es, i)].step
    /\ OfStep(es, i, "ModelRequested") = {es[i].req}
    /\ OfStep(es, i, "ModelOpeningAdmitted") = {es[i].open}

\* a bounded prefix of distinct events
PrefixRead(es) == /\ Len(es) <= MaxEvents
                  /\ \A i, j \in 1..Len(es) : es[i].id = es[j].id => i = j

\* verify: every event in its place
Verified(es) ==
    /\ PrefixRead(es)
    /\ Kinds(es, {"ExecutionInputAdmitted"}, 0, Len(es) + 1) # {} /\ ExecutionPrefix(es)
    /\ \A i \in 1..Len(es) :
        /\ es[i].kind \in ModelFacts \cup Terminals =>
            i > Admission(es) /\ Kinds(es, Terminals, 0, i) = {}
        /\ es[i].kind = "StepStarted" => StepStartedOk(es, i)
        /\ es[i].kind = "ModelRequested" => RequestedOk(es, i)
        /\ es[i].kind = "ModelOpeningAdmitted" => OpeningOk(es, i)
        /\ es[i].kind = "ModelStreamEvent" => StreamOk(es, i)
        /\ es[i].kind = "StepCompleted" => CompletedOk(es, i)

Through(n) == SubSeq(ledger, 1, n)
\* check_live; the Step's own stop, cancellation first
Live(a) == a \notin cancelled /\ ~expired
StopOf(a) == IF a \in cancelled THEN "TurnCancelled" ELSE "TurnTimedOut"

----------------------------------------------------------------------------
(* The Turn: recorder, registry and Step, one process per attempt *)

Recorded(a, kind, s, req, open, out) ==
    Event(kind, <<rec[a], next[a]>>, s, req, open, out)
Conflict(e) == \E i \in 1..Len(ledger) : ledger[i].id = e.id

\* LedgerRecorder.append: a number already taken by the same attempt name is refused
Record(a, e, to) ==
    IF Conflict(e)
    THEN /\ drv' = [drv EXCEPT ![a].pc = "TurnFailed"] /\ UNCHANGED <<ledger, next>>
    ELSE /\ ledger' = Append(ledger, e) /\ next' = [next EXCEPT ![a] = @ + 1]
         /\ drv' = [drv EXCEPT ![a] = to]

\* from_admission: a registry is built from the input admission alone, whatever
\* followed it; a later attempt continues with the Step its caller names
FromAdmission(a, s) ==
    /\ drv[a].pc = "idle" /\ \A b \in 1..(a - 1) : drv[b].pc # "idle"
    /\ s = 0 \/ Kinds(ledger, {"StepStarted"}, 0, Len(ledger) + 1) # {}
    /\ Verified(Through(Admission(ledger)))
    /\ drv' = [drv EXCEPT ![a].pc = "step", ![a].s = s]
    /\ UNCHANGED <<ledger, facts, reg, wrk, cancelled, expired, rec, next, gen>>

RecordStep(a) ==
    /\ drv[a].pc = "step"
    /\ Record(a, Recorded(a, "StepStarted", drv[a].s, 0, 0, "none"),
              [drv[a] EXCEPT !.pc = "request"])
    /\ UNCHANGED <<facts, reg, wrk, cancelled, expired, rec, gen>>

RecordRequest(a) ==
    /\ drv[a].pc = "request"
    /\ Record(a, Recorded(a, "ModelRequested", drv[a].s, 0, 0, "none"),
              [drv[a] EXCEPT !.pc = "publish", !.req = Len(ledger) + 1])
    /\ UNCHANGED <<facts, reg, wrk, cancelled, expired, rec, gen>>

\* record_requested: the request just acknowledged is the unopened last Step
MayPublish(a) ==
    LET es == Through(drv[a].req) IN
    /\ Live(a) /\ Verified(es)
    /\ \A i \in Kinds(es, {"StepStarted"}, 0, Len(es) + 1) :
        StepState(es, i) # "Uncertain"
    /\ StepState(es, Len(es) + 1) = "NotAdmitted"
    /\ reg[a][drv[a].s] = NoEntry
    /\ Cardinality({s \in Steps : reg[a][s] # NoEntry}) < MaxSteps
RecordRequested(a) ==
    /\ drv[a].pc = "publish"
    /\ IF MayPublish(a)
       THEN /\ reg' = [reg EXCEPT ![a][drv[a].s] = [st |-> "Requested", req |-> drv[a].req, open |-> 0]]
            /\ drv' = [drv EXCEPT ![a].pc = "open"]
       ELSE drv' = [drv EXCEPT ![a].pc = "TurnFailed"] /\ UNCHANGED reg
    /\ UNCHANGED <<ledger, facts, wrk, cancelled, expired, rec, next, gen>>

\* start_with_control, then begin: a stop already there is taken before the provider
Begin(a) ==
    /\ drv[a].pc = "open"
    /\ IF ~Live(a) THEN drv' = [drv EXCEPT ![a].pc = StopOf(a)] /\ UNCHANGED reg
       ELSE /\ reg[a][drv[a].s].st = "Requested"
            /\ reg' = [reg EXCEPT ![a][drv[a].s].st = "Preparing"]
            /\ drv' = [drv EXCEPT ![a].pc = "prepare"]
    /\ UNCHANGED <<ledger, facts, wrk, cancelled, expired, rec, next, gen>>

\* prepare_generation and the accounting policy: preparation, identity, byte or
\* token budget, count timeout and check_live refuse; otherwise the worker starts
Prepare(a) ==
    /\ drv[a].pc = "prepare"
    /\ \/ drv' = [drv EXCEPT ![a].pc = "TurnFailed"] /\ UNCHANGED wrk
       \/ /\ Live(a)
          /\ drv' = [drv EXCEPT ![a].pc = "store"] /\ wrk' = [wrk EXCEPT ![a].pc = "inspect"]
    /\ UNCHANGED <<ledger, facts, reg, cancelled, expired, rec, next, gen>>

\* mutant: stream_prepared is called again while the permit is not taken back
GenerateRetried(a) ==
    /\ drv[a].pc = "store" /\ wrk[a].pc = "done" /\ Live(a) /\ gen[drv[a].s] < 2
    /\ gen' = [gen EXCEPT ![drv[a].s] = @ + 1]
    /\ \/ drv' = [drv EXCEPT ![a].pc = "stream", ![a].n = 0] \/ UNCHANGED drv
    /\ UNCHANGED <<ledger, facts, reg, wrk, cancelled, expired, rec, next>>
\* the worker returned: check_live, then the one generation
Generate(a) ==
    /\ drv[a].pc = "store" /\ wrk[a].pc \in {"done", "err"}
    /\ IF wrk[a].pc = "done" /\ Live(a)
       THEN /\ gen' = [gen EXCEPT ![drv[a].s] = @ + 1]
            /\ drv' = [drv EXCEPT ![a].pc = "stream", ![a].n = 0]
       ELSE drv' = [drv EXCEPT ![a].pc = "TurnFailed"] /\ UNCHANGED gen
    /\ wrk' = [wrk EXCEPT ![a] = NoWorker]
    /\ UNCHANGED <<ledger, facts, reg, cancelled, expired, rec, next>>

\* mutant: the boundary guards the opening and not the stream
StopBeforeStream(a) ==
    /\ drv[a].pc \in {"prepare", "store"} /\ ~Live(a)
    /\ drv' = [drv EXCEPT ![a].pc = StopOf(a)]
    /\ UNCHANGED <<ledger, facts, reg, wrk, cancelled, expired, rec, next, gen>>
\* the Step boundary fires while the provider is pending; the opening future is
\* dropped and the blocking worker is not
Stop(a) ==
    /\ drv[a].pc \in {"prepare", "store", "stream"} /\ ~Live(a)
    /\ drv' = [drv EXCEPT ![a].pc = StopOf(a)]
    /\ UNCHANGED <<ledger, facts, reg, wrk, cancelled, expired, rec, next, gen>>

\* RecordingStepStream: an event is recorded before it is yielded
StreamEvent(a) ==
    /\ drv[a].pc = "stream" /\ Live(a) /\ drv[a].n < MaxStream[drv[a].s]
    /\ Record(a, Recorded(a, "ModelStreamEvent", drv[a].s, 0, 0, "none"),
              [drv[a] EXCEPT !.n = @ + 1])
    /\ UNCHANGED <<facts, reg, wrk, cancelled, expired, rec, gen>>

\* Completed and end of stream, or a provider error
StreamEnd(a) ==
    /\ drv[a].pc = "stream" /\ Live(a)
    /\ \/ \E out \in {"ToolCalls", "FinalAnswer"} :
            drv' = [drv EXCEPT ![a].pc = "complete", ![a].out = out]
       \/ drv' = [drv EXCEPT ![a].pc = "TurnFailed"]
    /\ UNCHANGED <<ledger, facts, reg, wrk, cancelled, expired, rec, next, gen>>

\* completion_sources gives the coordinates of a consumed opening only
RecordCompletion(a) ==
    LET entry == reg[a][drv[a].s] IN
    /\ drv[a].pc = "complete"
    /\ IF entry.st = "Consumed"
       THEN Record(a, Recorded(a, "StepCompleted", drv[a].s, entry.req, entry.open, drv[a].out),
                   [drv[a] EXCEPT !.pc = "ack", !.n = Len(ledger) + 1])
       ELSE drv' = [drv EXCEPT ![a].pc = "TurnFailed"] /\ UNCHANGED <<ledger, next>>
    /\ UNCHANGED <<facts, reg, wrk, cancelled, expired, rec, gen>>

\* record_completed, then the Turn's next Step or its end
RecordCompleted(a) ==
    LET es == Through(drv[a].n)
        ok == Verified(es) /\ reg[a][drv[a].s].st = "Consumed"
              /\ es[Len(es)].req = reg[a][drv[a].s].req /\ es[Len(es)].open = reg[a][drv[a].s].open
    IN /\ drv[a].pc = "ack"
       /\ IF ~ok THEN drv' = [drv EXCEPT ![a].pc = "TurnFailed"] /\ UNCHANGED reg
          ELSE /\ reg' = [reg EXCEPT ![a][drv[a].s].st = "Completed"]
               /\ drv' = IF drv[a].out = "ToolCalls" /\ drv[a].s + 1 < MaxSteps
                         THEN [drv EXCEPT ![a] = [Idle EXCEPT !.pc = "step", !.s = drv[a].s + 1]]
                         ELSE [drv EXCEPT ![a].pc = "TurnCompleted"]
       /\ UNCHANGED <<ledger, facts, wrk, cancelled, expired, rec, next, gen>>

\* the Turn's terminal event ends the attempt, recorded or refused
Finish(a) ==
    LET e == Recorded(a, drv[a].pc, 0, 0, 0, "none") IN
    /\ drv[a].pc \in Terminals
    /\ ledger' = IF Conflict(e) THEN ledger ELSE Append(ledger, e)
    /\ drv' = [drv EXCEPT ![a] = [Idle EXCEPT !.pc = "done"]]
    /\ UNCHANGED <<facts, reg, wrk, cancelled, expired, rec, next, gen>>

----------------------------------------------------------------------------
(* prepare_and_admit and consume_permit on the blocking worker *)

WorkerTo(a, ok, to) == wrk' = [wrk EXCEPT ![a].pc = IF ok THEN to ELSE "err"]
Req(a, s) == reg[a][s].req

\* inspect_current(requested) after check_live
WorkerInspect(a) ==
    \E s \in Steps :
    /\ wrk[a].pc = "inspect" /\ reg[a][s].st = "Preparing"
    /\ WorkerTo(a, Live(a) /\ Verified(Through(Req(a, s))), "fact")
    /\ UNCHANGED <<ledger, facts, reg, drv, cancelled, expired, rec, next, gen>>

\* the preparation at position 0 of its stream: the same draft again is the
\* original record, another one a conflict; then Committing and check_live
WorkerFact(a) ==
    \E s \in Steps :
    /\ wrk[a].pc = "fact" /\ reg[a][s].st = "Preparing"
    /\ LET ok == Live(a) /\ facts[s] \in {0, Req(a, s)} IN
       /\ facts' = IF ok THEN [facts EXCEPT ![s] = Req(a, s)] ELSE facts
       /\ reg' = IF ok THEN [reg EXCEPT ![a][s].st = "Committing"] ELSE reg
       /\ WorkerTo(a, ok, "append")
    /\ UNCHANGED <<ledger, drv, cancelled, expired, rec, next, gen>>

\* append_unless_cancelled of the Step's only opening; the acknowledgement may be lost
WorkerAppend(a) ==
    \E s \in Steps, lost \in BOOLEAN :
    LET e == Event("ModelOpeningAdmitted", <<"opening", s>>, s, Req(a, s), 0, "none")
        ok == ~Conflict(e) /\ Kinds(ledger, {"ExecutionCancelled"}, 0, Len(ledger) + 1) = {}
    IN /\ wrk[a].pc = "append" /\ reg[a][s].st = "Committing"
       /\ ledger' = IF ok THEN Append(ledger, e) ELSE ledger
       /\ wrk' = [wrk EXCEPT ![a] = IF ok /\ ~lost THEN [pc |-> "verify", open |-> Len(ledger) + 1]
                                    ELSE [pc |-> "err", open |-> 0]]
       /\ UNCHANGED <<facts, reg, drv, cancelled, expired, rec, next, gen>>

\* mutant: the opening is admitted without reading its chain back
WorkerAdmitUnread(a) ==
    \E s \in Steps :
    /\ wrk[a].pc = "verify" /\ reg[a][s].st = "Committing"
    /\ reg' = [reg EXCEPT ![a][s] = [@ EXCEPT !.st = "Admitted", !.open = wrk[a].open]]
    /\ WorkerTo(a, TRUE, "consume")
    /\ UNCHANGED <<ledger, facts, drv, cancelled, expired, rec, next, gen>>
\* inspect_current(opening), then Admitted
WorkerAdmit(a) ==
    \E s \in Steps :
    LET ok == Verified(Through(wrk[a].open)) IN
    /\ wrk[a].pc = "verify" /\ reg[a][s].st = "Committing"
    /\ reg' = IF ok THEN [reg EXCEPT ![a][s] = [@ EXCEPT !.st = "Admitted", !.open = wrk[a].open]] ELSE reg
    /\ WorkerTo(a, ok, "consume")
    /\ UNCHANGED <<ledger, facts, drv, cancelled, expired, rec, next, gen>>

\* consume_permit: a bounded scan for a cancellation or a terminal
WorkerConsume(a) ==
    \E s \in Steps :
    LET ok == /\ Live(a) /\ Len(ledger) <= MaxEvents
              /\ Kinds(ledger, Terminals \cup {"ExecutionCancelled"}, 0, Len(ledger) + 1) = {}
    IN /\ wrk[a].pc = "consume" /\ reg[a][s].st = "Admitted"
       /\ reg' = IF ok THEN [reg EXCEPT ![a][s].st = "Consumed"] ELSE reg
       /\ WorkerTo(a, ok, "done")
       /\ UNCHANGED <<ledger, facts, drv, cancelled, expired, rec, next, gen>>

Worker(a) == WorkerInspect(a) \/ WorkerFact(a) \/ WorkerAppend(a) \/ WorkerAdmit(a) \/ WorkerConsume(a)

----------------------------------------------------------------------------
(* The surroundings *)

Dead == {a \in Attempts : drv[a].pc = "dead"}
\* a cancellation is durable before any control hears of it (as a bound, none
\* is asked for once a process died or time ran out)
CancelExecution ==
    /\ ~expired /\ Dead = {}
    /\ Kinds(ledger, {"ExecutionCancelled"}, 0, Len(ledger) + 1) = {}
    /\ ledger' = Append(ledger, Plain("ExecutionCancelled"))
    /\ UNCHANGED <<facts, reg, drv, wrk, cancelled, expired, rec, next, gen>>
Cancel(a) ==
    /\ Kinds(ledger, {"ExecutionCancelled"}, 0, Len(ledger) + 1) # {}
    /\ drv[a].pc \notin {"idle", "done", "dead"} /\ a \notin cancelled
    /\ cancelled' = cancelled \cup {a}
    /\ UNCHANGED <<ledger, facts, reg, drv, wrk, expired, rec, next, gen>>
Expire ==
    /\ ~expired /\ expired' = TRUE
    /\ UNCHANGED <<ledger, facts, reg, drv, wrk, cancelled, rec, next, gen>>
\* the process dies: registry, Turn and worker go, the stores stay (as a bound,
\* a process dies before time ran out and without a cancellation)
Crash(a) ==
    /\ ~expired /\ Kinds(ledger, {"ExecutionCancelled"}, 0, Len(ledger) + 1) = {}
    /\ drv[a].pc \notin {"idle", "done", "dead"}
    /\ Cardinality(Dead) < MaxCrashes
    /\ drv' = [drv EXCEPT ![a] = [Idle EXCEPT !.pc = "dead"]]
    /\ reg' = [reg EXCEPT ![a] = [s \in Steps |-> NoEntry]]
    /\ wrk' = [wrk EXCEPT ![a] = NoWorker]
    /\ UNCHANGED <<ledger, facts, cancelled, expired, rec, next, gen>>

Turn(a) ==
    \/ RecordStep(a) \/ RecordRequest(a) \/ RecordRequested(a) \/ Begin(a) \/ Prepare(a)
    \/ Generate(a) \/ RecordCompletion(a) \/ RecordCompleted(a) \/ Finish(a)

Next == \/ \E a \in Attempts :
            \/ \E s \in Steps : FromAdmission(a, s)
            \/ Turn(a) \/ Stop(a) \/ StreamEvent(a) \/ StreamEnd(a)
            \/ Worker(a) \/ Cancel(a) \/ Crash(a)
        \/ CancelExecution \/ Expire

\* A running process keeps polling its Turn and time passes; neither the storage
\* worker nor the provider owes an answer
Fairness == /\ \A a \in Attempts : WF_vars(Turn(a) \/ Stop(a))
            /\ WF_vars(Expire)
Spec == Init /\ [][Next]_vars /\ Fairness

----------------------------------------------------------------------------
(* Properties *)

\* No Step enters a generation twice, over every attempt, process death, duplicate
\* run of the Turn and late storage worker (consumer.rs: the permit is one-shot).
GenerationOnce == \A s \in Steps : gen[s] <= 1

Openings(s) == {i \in 1..Len(ledger) : ledger[i].kind = "ModelOpeningAdmitted" /\ ledger[i].step = s}
\* A generation rests on one durable opening that the strict reader accepts with
\* everything before it: its request, its preparation, no earlier cancellation
\* and no earlier terminal (writer.rs reads the frozen chain back before Admitted).
GenerationAdmitted ==
    \A s \in Steps : gen[s] > 0 => \E i \in Openings(s) : Openings(s) = {i} /\ Verified(Through(i))

\* A generation starts only when every earlier Step of the Ledger is known to have
\* completed: an opening left Uncertain by a crash, a stop or a lost
\* acknowledgement is never passed over by another attempt (record_requested).
NoGenerationPastUncertain ==
    [][\A s \in Steps : gen'[s] > gen[s] =>
        \A t \in Steps : \A i \in Openings(t) :
            t < s => \E j \in 1..Len(ledger) :
                        ledger[j].kind = "StepCompleted" /\ ledger[j].open = i]_vars

\* Every attempt ends although the provider may never answer: the Step boundary
\* covers the opening and the stream (step.rs, step/control.rs).
AttemptEnds == \A a \in Attempts : (drv[a].pc = "step") ~> (drv[a].pc \in {"done", "dead"})
=============================================================================
