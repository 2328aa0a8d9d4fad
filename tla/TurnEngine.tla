----------------------------- MODULE TurnEngine -----------------------------
(***************************************************************************)
(* The Turn loop of kolyan-core: model Steps, tool batches planned into     *)
(* stages, approvals, external waits, suspension and resumption.            *)
(*                                                                         *)
(* One Turn is driven by one run at a time (TurnExecutor::run).  A step of  *)
(* the model is the code between two awaits; what an await may return       *)
(* (model, preparation, tool, admission gate) is chosen with \E.  A call is *)
(* its position in the batch; a preparation stands for the prepared call's  *)
(* claim and digest.  The host keeps the suspension it was handed, merges   *)
(* approvals and results into it, and resumes it, possibly with an executor *)
(* built on another policy.                                                 *)
(***************************************************************************)
EXTENDS Naturals, Sequences, FiniteSets

CONSTANTS
    Configs,        \* configurations and APIs a Turn may be run with
    MaxSteps,       \* bound: the largest max_steps of a configuration
    MaxBatch,       \* bound: calls in one model response
    Preps,          \* what preparing a call may yield
    Policies,       \* policy engines (their revisions)
    Decide,         \* Decide[policy][preparation]: the policy's decision
    Conflict,       \* pairs of preparations whose claims conflict
    ToolOf,         \* ToolOf[call]: its tool's name
    Waits,          \* external wait identities
    Null

Decisions == {"allow", "ask", "deny"}

\* TurnConfig and ToolDispatchPolicy: the limits, dispatch.mode = Parallel,
\* dispatch.on_error = FailTurn; and which API runs the Turn, the resumable one or
\* the one that awaits approvals in process.  The other fields say what the Turn's
\* surroundings may yield: preparations, the host's policies, external waits.
Config == [maxSteps : 1..MaxSteps, maxToolCalls : Nat, parallel : BOOLEAN,
           failTurn : BOOLEAN, resumable : BOOLEAN,
           preps : SUBSET Preps, policies : SUBSET Policies, waits : SUBSET Waits]

VARIABLES
    config,      \* the Turn's configuration
    pc,          \* where the run is
    outcome,     \* how it ended, or Null
    steps,       \* RunState.steps.len()
    used,        \* RunState.tool_calls_used
    history,     \* sizes of the batches whose results are in model_request.messages
    pending,     \* RunState.pending: the TurnCheckpoint in progress, or Null
    flight,      \* dispatched calls of the current stage: "admit", "running" or what was observed
    saved,       \* the checkpoint of the suspension the host holds, or Null
    policy,      \* the running executor's policy
    cancelled,   \* TurnControl.cancelled
    expired,     \* the Turn's deadline has passed
    approved,    \* TurnControl.approved_tools
    asked,       \* approvals ever requested
    confirmed,   \* approvals the operator gave
    entered      \* entered[i][c]: how often call c of Step i was handed to the executor

vars == <<config, pc, outcome, steps, used, history, pending, flight, saved, policy, cancelled,
          expired, approved, asked, confirmed, entered>>

run == <<steps, used, history>>
env == <<cancelled, expired, approved>>
ghosts == <<asked, confirmed, entered>>

Calls == 1..MaxBatch

\* An issued authority: the preparation, the policy revision and whether an
\* approval backs it.
Authority == [prep : Preps, policy : Policies, evidence : BOOLEAN]

Call ==
    [state : {"ready"}, charged : BOOLEAN, prep : Preps \cup {Null}, issued : {Null}, got : {Null}]
    \cup
    [state : {"completed"}, charged : BOOLEAN, prep : Preps \cup {Null},
     issued : Authority \cup {Null}, got : {"ok", "error"}]
    \cup
    [state : {"awaiting"}, charged : BOOLEAN, prep : Preps, issued : Authority, got : Waits]

Approval == [prep : Preps, policy : Policies, evidence : BOOLEAN]

\* TurnCheckpoint: the batch of one Step, its plan and cursor, and the approvals.
Checkpoint ==
    [steps : Nat, history : Seq(Calls), calls : UNION {[1..n -> Call] : n \in Calls},
     stages : Seq(SUBSET Calls), index : Nat,
     approvals : UNION {[1..n -> Approval \cup {Null}] : n \in Calls}, prior : Nat, used : Nat]

Outcomes == {"answered", "max_steps", "cancelled", "timed_out", "failed", "over_budget",
             "uncertain", "rejected", "approval_expired", "invalid", "stuck"}

\* What is known of a dispatched call that awaits no external result.
Seen == {"admit", "running", "ok", "error", "invalid", "timed_out", "uncertain", "cancelled", "refused"}

\* Null stands for every absent value and is none of the values that may be present.
ASSUME EngineAssumption ==
    /\ MaxSteps \in Nat \ {0} /\ MaxBatch \in Nat \ {0}
    /\ Configs \subseteq Config
    /\ Decide \in [Policies -> [Preps -> Decisions]]
    /\ Conflict \subseteq Preps \X Preps
    /\ Null \notin Preps \cup Policies \cup Waits \cup Outcomes
    /\ Null \notin Approval \cup Authority \cup Checkpoint
    /\ Waits \cap Seen = {}

Ready(p) == [state |-> "ready", charged |-> FALSE, prep |-> p, issued |-> Null, got |-> Null]

\* Error feedback without an authority: a failed preparation or a denial.
Feedback(p) == [state |-> "completed", charged |-> TRUE, prep |-> p, issued |-> Null, got |-> "error"]

In(cp, state) == {c \in DOMAIN cp.calls : cp.calls[c].state = state}

\* Calls charged to the budget so far.
Charged(cp) == Cardinality({c \in DOMAIN cp.calls : cp.calls[c].charged})
Recount(cp) == [cp EXCEPT !.used = cp.prior + Charged(cp)]

Total(sizes) ==
    LET sum[i \in 0..Len(sizes)] == IF i = 0 THEN 0 ELSE sum[i - 1] + sizes[i]
    IN  sum[Len(sizes)]

First(S) == CHOOSE c \in S : \A d \in S : c <= d

----------------------------------------------------------------------------
(* TurnCheckpoint::validate *)

CallValid(call) ==
    CASE call.state = "ready"     -> ~call.charged /\ call.prep # Null
      [] call.state = "completed" -> /\ call.charged
                                     /\ call.issued = Null => call.got = "error"
                                     /\ call.issued # Null => call.issued.prep = call.prep
      [] call.state = "awaiting"  -> call.charged /\ call.issued.prep = call.prep

StagesPartition(cp) ==
    /\ \A i \in DOMAIN cp.stages : cp.stages[i] # {}
    /\ \A i, j \in DOMAIN cp.stages : i # j => cp.stages[i] \cap cp.stages[j] = {}
    /\ UNION {cp.stages[i] : i \in DOMAIN cp.stages} = DOMAIN cp.calls

CursorAgrees(cp) ==
    \A i \in DOMAIN cp.stages : \A c \in cp.stages[i] :
        /\ i <= cp.index => cp.calls[c].state = "completed"
        /\ i > cp.index + 1 => cp.calls[c].state = "ready"

BudgetAgrees(cp) ==
    /\ Total(cp.history) = cp.prior
    /\ cp.used = cp.prior + Charged(cp) /\ cp.used <= config.maxToolCalls
    /\ cp.prior + Cardinality(DOMAIN cp.calls) <= config.maxToolCalls

Valid(cp) ==
    /\ cp.steps \in 1..config.maxSteps /\ Len(cp.history) = cp.steps - 1
    /\ cp.calls # <<>> /\ cp.stages # <<>> /\ cp.index <= Len(cp.stages)
    /\ \A c \in DOMAIN cp.calls : CallValid(cp.calls[c])
    /\ \A c, d \in In(cp, "awaiting") : c # d => cp.calls[c].got # cp.calls[d].got
    /\ StagesPartition(cp) /\ CursorAgrees(cp) /\ BudgetAgrees(cp)
    /\ \A c \in DOMAIN cp.calls : cp.approvals[c] # Null => cp.approvals[c].prep = cp.calls[c].prep

\* Approvals still to be given: what the suspension summary lists.
Unconfirmed(cp) ==
    {c \in In(cp, "ready") : cp.approvals[c] # Null /\ ~cp.approvals[c].evidence}

----------------------------------------------------------------------------
Stopped == cancelled \/ expired
StopReason == IF cancelled THEN "cancelled" ELSE "timed_out"

End(reason) ==
    /\ pc' = "ended" /\ outcome' = reason
    /\ pending' = Null /\ flight' = <<>> /\ saved' = Null
    /\ UNCHANGED config

\* Leaves the loop's bookkeeping and the surroundings alone.
Frame == UNCHANGED <<steps, used, history, policy, env, ghosts>>

EndQuietly(reason) == End(reason) /\ Frame

\* Carry on at place with the checkpoint cp.
Proceed(place, cp) ==
    /\ pc' = place /\ pending' = cp
    /\ UNCHANGED <<config, outcome, flight, saved, steps, used, history, policy, env, entered, confirmed>>

\* Carry on at place with cp if it validates.
ProceedIfValid(place, cp) ==
    IF Valid(cp) THEN Proceed(place, cp) /\ UNCHANGED asked ELSE EndQuietly("invalid")

\* Places where the next thing the code does is RunState::check.
Checked == {"resume", "top", "pending", "stage", "approval", "suspend", "complete"}

\* RunState::check, and the biased selects of the awaits at those places.
Stop ==
    /\ pc \in Checked /\ Stopped
    /\ EndQuietly(StopReason)

\* The admission gate or the event recorder refuses, the gate possibly because
\* the execution was cancelled durably.
Refuse ==
    /\ pc \in Checked \cup {"step", "plan"}
    /\ \E reason \in {"failed", "cancelled"} : EndQuietly(reason)

\* run: the first run of a Turn.
Start ==
    /\ pc = "idle" /\ pc' = "top"
    /\ UNCHANGED <<config, outcome, steps, used, history, pending, flight, saved, policy, env, ghosts>>

\* The resumed run is admitted once, before anything else.
AdmitResume ==
    /\ pc = "resume" /\ ~Stopped
    /\ Proceed("top", pending) /\ UNCHANGED asked

\* The head of drive's loop.
Advance ==
    /\ pc = "top" /\ ~Stopped
    /\ Proceed(IF pending # Null THEN "pending" ELSE IF steps >= config.maxSteps THEN "complete" ELSE "step",
               pending)
    /\ UNCHANGED asked

\* The Step ends with an answer, or refused, or incomplete.
StepAnswers ==
    /\ pc = "step" /\ ~cancelled
    /\ pc' = "complete" /\ steps' = steps + 1
    /\ UNCHANGED <<config, outcome, used, history, pending, flight, saved, policy, env, ghosts>>

\* The Step ends with tool calls; initialize_pending follows.
StepCallsTools ==
    /\ pc = "step" /\ ~cancelled
    /\ pc' = "plan" /\ steps' = steps + 1
    /\ UNCHANGED <<config, outcome, used, history, pending, flight, saved, policy, env, ghosts>>

\* The Step fails, is cancelled or runs out of time.
StepFails ==
    /\ pc = "step"
    /\ EndQuietly(IF Stopped THEN StopReason ELSE "failed")

\* complete: the terminal admission and event.
Complete ==
    /\ pc = "complete" /\ ~Stopped
    /\ EndQuietly(IF steps >= config.maxSteps /\ steps = Len(history) THEN "max_steps" ELSE "answered")

----------------------------------------------------------------------------
(* Planning *)

\* What preparing a call may end with besides a preparation: an ordinary tool
\* error, or one that is fatal under every error policy.
PrepFailures == {"error", "invalid", "timed_out", "cancelled", "uncertain"}

\* prepare_failure: the reason a failed preparation ends the Turn, if it does.
PrepFatal(p) ==
    CASE p \in {"timed_out", "cancelled", "uncertain"} -> p
      [] p = "invalid" -> "failed"
      [] p = "error"   -> IF config.failTurn THEN "failed" ELSE Null
      [] OTHER         -> Null

\* The checkpoint of a fresh batch whose calls prepared to preps: one stage, no
\* approvals.
NewCheckpoint(preps) ==
    Recount([steps     |-> steps,
             history   |-> history,
             calls     |-> [c \in DOMAIN preps |->
                              IF preps[c] \in Preps THEN Ready(preps[c]) ELSE Feedback(Null)],
             stages    |-> <<DOMAIN preps>>,
             index     |-> 0,
             approvals |-> [c \in DOMAIN preps |-> Null],
             prior     |-> used,
             used      |-> 0])

\* initialize_pending. An empty or ambiguous batch, a batch over budget and a
\* batch without progress end the Turn before anything is prepared.
initialize_pending ==
    /\ pc = "plan"
    /\ \/ EndQuietly("failed")      \* not a batch, or no progress
       \/ \E n \in Calls :
            IF used + n > config.maxToolCalls
            THEN EndQuietly("over_budget")
            ELSE IF Stopped
            THEN EndQuietly(StopReason)
            ELSE \E preps \in [1..n -> config.preps \cup PrepFailures] :
                    LET fatal == {c \in 1..n : PrepFatal(preps[c]) # Null} IN
                    IF fatal # {}
                    THEN EndQuietly(PrepFatal(preps[First(fatal)]))
                    ELSE ProceedIfValid("top", NewCheckpoint(preps))

\* execution_stages: a call's stage follows that of every earlier call it
\* conflicts with.
StageOf(cp, c) ==
    LET ready == In(cp, "ready")
        before(d) == {b \in ready : b < d /\ <<cp.calls[b].prep, cp.calls[d].prep>> \in Conflict}
        stage[d \in DOMAIN cp.calls] ==
            IF before(d) = {} THEN 1
            ELSE 1 + (CHOOSE m \in {stage[b] : b \in before(d)} : \A b \in before(d) : stage[b] <= m)
    IN  stage[c]

ReadyStages(cp) ==
    LET ready == In(cp, "ready")
        rank(c) == IF config.parallel THEN StageOf(cp, c) ELSE Cardinality({b \in ready : b <= c})
        last == Cardinality({rank(c) : c \in ready})
    IN  [i \in 1..last |-> {c \in ready : rank(c) = i}]

\* Mutant of Restage: completed calls are left out of the new plan.
RestageReadyOnly(cp) ==
    [cp EXCEPT !.stages = ReadyStages(cp), !.index = 0]

\* Completed calls form the first stage, the cursor is at the stage after it.
Restage(cp) ==
    LET done == In(cp, "completed") IN
    [cp EXCEPT !.stages = (IF done = {} THEN <<>> ELSE <<done>>) \o ReadyStages(cp),
               !.index  = IF done = {} THEN 0 ELSE 1]

\* refresh_ready's first loop: every Ready call is prepared again; failures
\* become feedback and drop the call's approval.
Reprepare(cp, preps) ==
    [cp EXCEPT
        !.calls = [c \in DOMAIN @ |->
                     IF c \notin DOMAIN preps THEN @[c]
                     ELSE IF preps[c] \in Preps THEN [@[c] EXCEPT !.prep = preps[c]]
                     ELSE Feedback(Null)],
        !.approvals = [c \in DOMAIN @ |->
                     IF c \in DOMAIN preps /\ preps[c] \notin Preps THEN Null ELSE @[c]]]

\* A confirmed approval is for another preparation than the current one.
PrepChanged(cp, c, p) ==
    p \in Preps /\ cp.approvals[c] # Null /\ cp.approvals[c].evidence /\ cp.approvals[c].prep # p

\* decide_claim: with no call left in the budget everything is denied.
Decision(cp, c) ==
    IF cp.used >= config.maxToolCalls THEN "deny" ELSE Decide[policy][cp.calls[c].prep]

\* A confirmed approval was given under another policy, or is not needed any more.
Stale(cp, c) ==
    /\ cp.approvals[c] # Null /\ cp.approvals[c].evidence
    /\ cp.approvals[c].policy # policy \/ Decision(cp, c) # "ask"

\* A new approval is requested when there is none, or it is for something else.
Request(cp, c) ==
    IF /\ cp.approvals[c] # Null
       /\ cp.approvals[c].prep = cp.calls[c].prep /\ cp.approvals[c].policy = policy
    THEN cp.approvals[c]
    ELSE [prep |-> cp.calls[c].prep, policy |-> policy, evidence |-> FALSE]

\* refresh_ready's second loop: the policy's decisions take effect.
Decided(cp) ==
    [cp EXCEPT
        !.calls = [c \in DOMAIN @ |->
                     IF c \in In(cp, "ready") /\ Decision(cp, c) = "deny"
                     THEN Feedback(@[c].prep) ELSE @[c]],
        !.approvals = [c \in DOMAIN @ |->
                     IF c \notin In(cp, "ready") THEN @[c]
                     ELSE IF Decision(cp, c) = "ask" THEN Request(cp, c) ELSE Null]]

\* The identity of an approval: host_identity over scope, call, digest, revision.
ApprovalId(cp, c) == <<cp.steps, c, cp.approvals[c].prep, cp.approvals[c].policy>>

\* refresh_ready
refresh_ready ==
    /\ pc = "pending" /\ ~Stopped
    /\ In(pending, "awaiting") = {} /\ In(pending, "ready") # {}
    /\ \E preps \in [In(pending, "ready") -> config.preps \cup PrepFailures] :
        LET offending == {c \in DOMAIN preps :
                             PrepFatal(preps[c]) # Null \/ PrepChanged(pending, c, preps[c])}
            prepared == Recount(Reprepare(pending, preps))
            ready == In(prepared, "ready")
            decided == Recount(Restage(Decided(prepared)))
        IN
        IF offending # {}
        THEN EndQuietly(IF PrepFatal(preps[First(offending)]) # Null
                        THEN PrepFatal(preps[First(offending)]) ELSE "failed")
        ELSE IF \E c \in ready : \/ Stale(prepared, c)
                                 \/ config.failTurn /\ Decision(prepared, c) = "deny"
        THEN EndQuietly("failed")
        ELSE IF ~Valid(decided)
        THEN EndQuietly("invalid")
        ELSE /\ Proceed("stage", decided)
             /\ asked' = asked \cup {ApprovalId(decided, c) : c \in Unconfirmed(decided)}

\* handle_pending with every call completed: the results join the messages.
finish_batch ==
    /\ pc = "pending" /\ ~Stopped
    /\ In(pending, "completed") = DOMAIN pending.calls
    /\ used' = pending.used
    /\ history' = Append(history, Cardinality(DOMAIN pending.calls))
    /\ pending' = Null /\ pc' = "top"
    /\ UNCHANGED <<config, outcome, steps, flight, saved, policy, env, ghosts>>

\* handle_pending with a call awaiting an external result.
await_external ==
    /\ pc = "pending" /\ ~Stopped
    /\ In(pending, "awaiting") # {}
    /\ Proceed("suspend", pending) /\ UNCHANGED asked

\* suspend_pending. Only the resumable API hands the suspension out.
suspend_pending ==
    /\ pc = "suspend" /\ ~Stopped
    /\ IF ~Valid(pending) THEN EndQuietly("invalid")
       ELSE IF Unconfirmed(pending) \cup In(pending, "awaiting") = {} THEN EndQuietly("stuck")
       ELSE IF ~config.resumable THEN EndQuietly("failed")
       ELSE /\ pc' = "suspended" /\ saved' = pending /\ pending' = Null
            /\ UNCHANGED <<config, outcome, steps, used, history, flight, policy, env, ghosts>>

----------------------------------------------------------------------------
(* Approvals awaited in process *)

\* handle_pending between refresh and dispatch: the run waits for a tool name.
await_approval ==
    /\ pc = "stage" /\ ~Stopped
    /\ ~config.resumable /\ Unconfirmed(pending) # {}
    /\ Proceed("approval", pending) /\ UNCHANGED asked

\* The approval of the tool's name is consumed and becomes evidence for the
\* approval that was waited for.
receive_approval ==
    /\ pc = "approval" /\ ~Stopped
    /\ \E c \in Unconfirmed(pending) :
        /\ ToolOf[c] \in approved
        /\ approved' = approved \ {ToolOf[c]}
        /\ pending' = [pending EXCEPT !.approvals[c].evidence = TRUE]
        /\ confirmed' = confirmed \cup {ApprovalId(pending, c)}
    /\ pc' = "pending"
    /\ UNCHANGED <<config, outcome, run, flight, saved, policy, cancelled, expired, asked, entered>>

----------------------------------------------------------------------------
(* Dispatch *)

\* Calls of the current stage that may run now: while any approval is missing,
\* none that needs one.
Runnable(cp) ==
    LET missing == \E c \in DOMAIN cp.calls : cp.approvals[c] # Null /\ ~cp.approvals[c].evidence IN
    {c \in cp.stages[cp.index + 1] :
        cp.calls[c].state = "ready" /\ ~(Decision(cp, c) = "ask" /\ missing)}

\* PreparedGrant::issue accepts the approval saved for the call.
Grantable(cp, c) ==
    Decision(cp, c) = "ask" =>
        /\ cp.approvals[c] # Null /\ cp.approvals[c].evidence
        /\ cp.approvals[c].prep = cp.calls[c].prep /\ cp.approvals[c].policy = policy

Issued(c) ==
    [prep     |-> pending.calls[c].prep,
     policy   |-> policy,
     evidence |-> Decision(pending, c) = "ask"]

\* Mutant of dispatch_current_stage: a stage without a runnable call counts as
\* progress.
dispatch_stage_again ==
    /\ pc = "stage"
    /\ config.resumable \/ Unconfirmed(pending) = {}
    /\ IF pending.index >= Len(pending.stages) \/ Runnable(pending) = {}
       THEN Proceed("pending", pending) /\ UNCHANGED asked
       ELSE /\ pc' = "tools" /\ flight' = [c \in Runnable(pending) |-> "admit"]
            /\ UNCHANGED <<config, outcome, run, pending, saved, policy, env, ghosts>>

\* dispatch_current_stage up to the first await. Serial stages hold one call.
dispatch_current_stage ==
    /\ pc = "stage"
    /\ config.resumable \/ Unconfirmed(pending) = {}
    /\ IF pending.index >= Len(pending.stages)
       THEN Proceed("pending", pending) /\ UNCHANGED asked
       ELSE LET runnable == Runnable(pending) IN
            IF runnable = {}
            THEN Proceed("suspend", pending) /\ UNCHANGED asked
            ELSE IF \E c \in runnable : ~Grantable(pending, c)
            THEN EndQuietly("failed")
            ELSE /\ pc' = "tools" /\ flight' = [c \in runnable |-> "admit"]
                 /\ UNCHANGED <<config, outcome, run, pending, saved, policy, env, ghosts>>

Observe(c, o) ==
    /\ flight' = [flight EXCEPT ![c] = o]
    /\ UNCHANGED <<config, pc, outcome, run, pending, saved, policy, env>>

\* dispatch_call: the Tool boundary admits the call and the executor is entered.
admit_tool(c) ==
    /\ pc = "tools" /\ flight[c] = "admit" /\ ~Stopped
    /\ Observe(c, "running")
    /\ entered' = [entered EXCEPT ![pending.steps][c] = @ + 1]
    /\ UNCHANGED <<asked, confirmed>>

\* The call is refused before it is entered.
refuse_tool(c) ==
    /\ pc = "tools" /\ flight[c] = "admit"
    /\ \E o \in IF Stopped THEN {StopReason} ELSE {"refused", "cancelled"} : Observe(c, o)
    /\ UNCHANGED ghosts

\* execute_invocation returns; its window ends it with timed_out at the latest.
return_tool(c) ==
    /\ pc = "tools" /\ flight[c] = "running" /\ ~cancelled
    /\ \E o \in {"ok", "error", "invalid", "timed_out", "uncertain", "cancelled"} \cup config.waits :
          Observe(c, o)
    /\ UNCHANGED ghosts

\* A cancelled Turn drops the running call.
cancel_tool(c) ==
    /\ pc = "tools" /\ flight[c] = "running" /\ cancelled
    /\ Observe(c, "cancelled")
    /\ UNCHANGED ghosts

\* apply_observation: the reason an observation ends the Turn, if it does.
Fatal(o) ==
    CASE o = "uncertain"                      -> "uncertain"
      [] o \in {"cancelled", "timed_out"}     -> o
      [] o \in {"refused", "invalid"}         -> "failed"
      [] o = "error"                          -> IF config.failTurn THEN "failed" ELSE Null
      [] OTHER                                -> Null

\* Mutant of Observed: a failed call is left to be tried again.
ObservedForRetry(c) ==
    LET o == flight[c] IN
    IF o = "error" THEN pending.calls[c]
    ELSE [state   |-> IF o \in Waits THEN "awaiting" ELSE "completed",
          charged |-> TRUE,
          prep    |-> pending.calls[c].prep,
          issued  |-> Issued(c),
          got     |-> o]

\* apply_observation: the call's new state.
Observed(c) ==
    LET o == flight[c] IN
    [state   |-> IF o \in Waits THEN "awaiting" ELSE "completed",
     charged |-> TRUE,
     prep    |-> pending.calls[c].prep,
     issued  |-> Issued(c),
     got     |-> o]

\* Mutant of Dominant: the first error is reported, whatever it is.
DominantFirst(bad) ==
    IF Fatal(flight[First(bad)]) # Null THEN Fatal(flight[First(bad)]) ELSE "failed"

\* The error that ends the Turn when the calls in bad failed: an uncertain one
\* if there is one, else the first.
Dominant(bad) ==
    IF \E c \in bad : flight[c] = "uncertain" THEN "uncertain"
    ELSE IF Fatal(flight[First(bad)]) # Null THEN Fatal(flight[First(bad)])
    ELSE "failed"

\* The end of dispatch_current_stage: every observation is applied, unrecorded
\* ones being those the recorder refused.
collect ==
    /\ pc = "tools" /\ \A c \in DOMAIN flight : flight[c] \notin {"admit", "running"}
    /\ \E unrecorded \in SUBSET DOMAIN flight :
        LET bad == unrecorded \cup {c \in DOMAIN flight : Fatal(flight[c]) # Null}
            cp == Recount([pending EXCEPT
                    !.calls = [c \in DOMAIN @ |-> IF c \in DOMAIN flight THEN Observed(c) ELSE @[c]]])
        IN
        IF bad # {} THEN EndQuietly(Dominant(bad))
        ELSE IF Stopped THEN EndQuietly(StopReason)
        ELSE IF ~Valid(cp) THEN EndQuietly("invalid")
        ELSE /\ pc' = "pending" /\ pending' = cp /\ flight' = <<>>
             /\ UNCHANGED <<config, outcome, run, saved, policy, env, ghosts>>

----------------------------------------------------------------------------
(* The host: merging into a suspension, resuming it, ending it *)

\* Mutant of merge_approval: the confirmation's binding is not compared.
merge_any_approval ==
    /\ pc = "suspended" /\ ~expired
    /\ \E id \in asked :
        /\ id[1] = saved.steps /\ id[2] \in Unconfirmed(saved)
        /\ saved' = [saved EXCEPT !.approvals[id[2]].evidence = TRUE]
        /\ confirmed' = confirmed \cup {id}
    /\ UNCHANGED <<config, pc, outcome, run, pending, flight, policy, env, asked, entered>>

\* merge_resume_with_control with ApprovalConfirmed, for any approval that was
\* ever requested.
merge_approval ==
    /\ pc = "suspended" /\ ~expired
    /\ \E id \in asked :
        LET c == id[2] IN
        /\ id[1] = saved.steps /\ c \in Unconfirmed(saved) /\ ApprovalId(saved, c) = id
        /\ saved' = [saved EXCEPT !.approvals[c].evidence = TRUE]
        /\ confirmed' = confirmed \cup {id}
    /\ UNCHANGED <<config, pc, outcome, run, pending, flight, policy, env, asked, entered>>

\* merge_resume_with_control with ExternalResolved.
merge_external ==
    /\ pc = "suspended" /\ ~expired
    /\ \E S \in (SUBSET In(saved, "awaiting")) \ {{}} : \E got \in [S -> {"ok", "error"}] :
        saved' = [saved EXCEPT
            !.calls = [c \in DOMAIN @ |->
                IF c \in S THEN [@[c] EXCEPT !.state = "completed", !.got = got[c]] ELSE @[c]]]
    /\ UNCHANGED <<config, pc, outcome, run, pending, flight, policy, env, ghosts>>

\* The usage a resumed run starts from: that of the finished batches.
RestoredUsage == saved.prior

\* resume_checkpoint: the RunState is restored from the checkpoint, under a new
\* control and possibly another policy.
resume_checkpoint ==
    /\ pc = "suspended"
    /\ \E p \in config.policies : policy' = p
    /\ IF ~Valid(saved)
       THEN End("invalid") /\ UNCHANGED <<run, env, ghosts>>
       ELSE /\ pc' = "resume" /\ pending' = saved /\ saved' = Null
            /\ steps' = saved.steps /\ history' = saved.history /\ used' = RestoredUsage
            /\ cancelled' = FALSE
            /\ UNCHANGED <<config, outcome, flight, expired, approved, ghosts>>

\* reject_approval, expire_approval
reject_approval ==
    /\ pc = "suspended" /\ Unconfirmed(saved) # {}
    /\ \E reason \in {"rejected", "approval_expired"} : EndQuietly(reason)

----------------------------------------------------------------------------
Cancel ==
    /\ ~cancelled /\ pc \notin {"suspended", "ended"} /\ cancelled' = TRUE
    /\ UNCHANGED <<config, pc, outcome, run, pending, flight, saved, policy, expired, approved, ghosts>>

DeadlinePasses ==
    /\ ~expired /\ pc # "ended" /\ expired' = TRUE
    /\ UNCHANGED <<config, pc, outcome, run, pending, flight, saved, policy, cancelled, approved, ghosts>>

approve_tool ==
    /\ ~config.resumable /\ pc # "ended"
    /\ \E c \in Calls : ToolOf[c] \notin approved /\ approved' = approved \cup {ToolOf[c]}
    /\ UNCHANGED <<config, pc, outcome, run, pending, flight, saved, policy, cancelled, expired, ghosts>>

Init ==
    /\ config \in Configs
    /\ pc = "idle" /\ outcome = Null
    /\ steps = 0 /\ used = 0 /\ history = <<>>
    /\ pending = Null /\ flight = <<>> /\ saved = Null
    /\ policy \in config.policies
    /\ cancelled = FALSE /\ expired = FALSE /\ approved = {}
    /\ asked = {} /\ confirmed = {}
    /\ entered = [i \in 1..MaxSteps |-> [c \in Calls |-> 0]]

\* The steps of a run.
Engine ==
    \/ Refuse
    \/ AdmitResume \/ Advance \/ StepAnswers \/ StepCallsTools \/ StepFails \/ Complete
    \/ initialize_pending \/ refresh_ready \/ finish_batch \/ await_external \/ suspend_pending
    \/ await_approval \/ receive_approval \/ dispatch_current_stage \/ collect \/ Stop
    \/ \E c \in DOMAIN flight : admit_tool(c) \/ refuse_tool(c) \/ return_tool(c) \/ cancel_tool(c)

Host == merge_approval \/ merge_external \/ resume_checkpoint \/ reject_approval

Next == Start \/ Engine \/ Host \/ Cancel \/ DeadlinePasses \/ approve_tool

Spec == Init /\ [][Next]_vars

\* Every await of a run ends: models and tools answer or hit their window.
FairSpec == Spec /\ WF_vars(Engine)

----------------------------------------------------------------------------
Places == {"idle", "resume", "top", "step", "plan", "pending", "stage", "approval", "tools",
           "suspend", "complete", "suspended", "ended"}

CheckpointOK(cp) ==
    \E n \in Calls :
        /\ cp \in Checkpoint
        /\ cp.calls \in [1..n -> Call]
        /\ cp.approvals \in [1..n -> Approval \cup {Null}]
        /\ cp.stages \in Seq(SUBSET (1..n)) /\ cp.index \in 0..1
        /\ cp.steps = steps /\ cp.history = history /\ cp.prior = used
        /\ cp.used \in used..config.maxToolCalls

\* Types; and the checkpoint a run or the host holds is the run's own: its Step
\* count, message history and prior usage are those of the RunState it came from.
TypeOK ==
    /\ config \in Configs
    /\ pc \in Places /\ outcome \in Outcomes \cup {Null}
    /\ steps \in 0..config.maxSteps /\ used \in 0..config.maxToolCalls
    /\ history \in Seq(Calls)
    /\ pending # Null => CheckpointOK(pending)
    /\ saved # Null => CheckpointOK(saved)
    /\ policy \in Policies
    /\ {cancelled, expired} \subseteq BOOLEAN
    /\ approved \subseteq {ToolOf[c] : c \in Calls}
    /\ asked \subseteq (1..MaxSteps) \X Calls \X Preps \X Policies
    /\ confirmed \subseteq asked
    /\ entered \in [1..MaxSteps -> [Calls -> Nat]]

\* However often a Turn is suspended, merged into and resumed, no call of a Step
\* is handed to the executor twice, and the calls entered over all Steps stay
\* within max_tool_calls.
EntriesBounded ==
    /\ \A i \in 1..MaxSteps, c \in Calls : entered[i][c] <= 1
    /\ Total([i \in 1..MaxSteps |-> Total(entered[i])]) <= config.maxToolCalls

\* Step i's call c is handed to the executor.
Enters(i, c) == entered'[i][c] # entered[i][c]

\* The policy in force allows the preparation the call runs with, or an operator
\* confirmed exactly this call, preparation and policy and no other approval of
\* the batch is outstanding.
Authorised(i, c) ==
    LET prep == pending.calls[c].prep IN
    \/ Decide[policy][prep] = "allow"
    \/ /\ Decide[policy][prep] = "ask"
       /\ <<i, c, prep, policy>> \in confirmed /\ Unconfirmed(pending) = {}

\* Every earlier call the call conflicts with has its result.
InModelOrder(c) ==
    \A b \in 1..(c - 1) :
        <<pending.calls[b].prep, pending.calls[c].prep>> \in Conflict
        => pending.calls[b].state = "completed"

\* Whatever happened between request, confirmation, suspension and resumption, a
\* call is entered only if it is authorised as it stands, and conflicting calls
\* are entered in the model's order, each after the result of the one before.
EntryOrderly ==
    [][\A i \in 1..MaxSteps, c \in Calls :
        Enters(i, c) => Authorised(i, c) /\ InModelOrder(c)]_vars

\* A run never dead-ends on a checkpoint of its own making: the checkpoint it or the
\* host holds is the RunState's own (TypeOK); TurnCheckpoint::validate
\* rejects none the engine or the pure merges built (only an executor that reuses a
\* wait identity can cause it); an admitted batch is not denied halfway for lack of
\* budget, decide_claim seeing remaining_tool_calls > 0 while a call is Ready; and
\* "tool stage has no runnable call or waiting reason" is never reported.
OwnCheckpointsValid ==
    /\ []TypeOK
    /\ [][outcome' = "invalid" /\ outcome = Null =>
            /\ pc = "tools"
            /\ \E c, d \in DOMAIN flight :
                  c # d /\ flight[c] \in Waits /\ flight[c] = flight[d]]_vars
    /\ [](pending # Null /\ In(pending, "ready") # {} => pending.used < config.maxToolCalls)
    /\ [](outcome # "stuck")

\* A stage in which some call ended uncertain ends the Turn as uncertain, whatever
\* else failed, was cancelled or could not be recorded in the same stage.
UncertaintyDominates ==
    [][pc = "tools" /\ pc' # "tools" /\ (\E c \in DOMAIN flight : flight[c] = "uncertain")
        => outcome' = "uncertain"]_vars

\* A run of the resumable API ends or suspends: planning, dispatch and approvals
\* never chase each other for ever.
RunEnds ==
    config.resumable /\ pc \notin {"idle", "suspended", "ended"} ~> pc \in {"suspended", "ended"}

=============================================================================
