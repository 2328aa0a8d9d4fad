------------------------------ MODULE TaskDriver ------------------------------
(***************************************************************************)
(* The Task service over its Journal and the Task driver over the Ledger   *)
(* (kolyan-server/src/tasks/coordinator.rs, task_driver.rs and its parts). *)
(*                                                                         *)
(* Two stores meet here.  The Task stream holds TaskEvents; a command      *)
(* replays it, applies its event and appends with compare-and-set, so it   *)
(* is one atomic step on the snapshot `task`, and `facts` holds the fact   *)
(* identities that make an identical command a no-op.  The Ledger holds one*)
(* stream of facts per execution, `log`.  A driver call is several steps   *)
(* over both, and a crash may fall between any two of them.                *)
(***************************************************************************)
EXTENDS TaskReducer

CONSTANTS Definitions,   \* the TaskDefinitions a caller may register
          Workers,       \* concurrent run and resume calls (or cancel)
          Operators,     \* concurrent reconcile and retry calls (or cancel)
          MaySuspend,    \* attempts whose Turn may suspend (a bound)
          MaxModels,     \* [Attempts -> Nat]: model calls of an execution (a bound)
          MaxRows        \* GoalSourceLimits.max_rows
ASSUME DriverAssumption ==
    MaxModels \in [Attempts -> Nat] /\ MaxRows \in Nat /\ Definitions \subseteq Definition

Drivers == Workers \cup Operators

VARIABLES task,     \* snapshot: the replay of the Task stream
          facts,    \* fact identities a repeated call may meet again
          log,      \* [Attempts -> Seq(kind)]: the Ledger facts of each execution
          active,   \* executions the in-process coordinator holds
          entered,  \* attempts whose effect took place outside
          drv       \* [Drivers -> the call in progress]
vars == <<task, facts, log, active, entered, drv>>

Idle == [pc |-> "idle", a |-> CHOOSE a \in Attempts : TRUE, n |-> 0,
         seen |-> <<>>, obs |-> [cursor |-> 0, outcome |-> "none", checkpoint |-> 0, used |-> 0],
         todo |-> {}]

Init == /\ \E def \in Definitions : task = Registered(def)
        /\ facts = {}
        /\ log = [a \in Attempts |-> <<>>]
        /\ active = {}
        /\ entered = {}
        /\ drv = [d \in Drivers |-> Idle]

----------------------------------------------------------------------------
(* Reading an execution stream *)

Has(l, k) == \E n \in 1..Len(l) : l[n] = k
First(l, K) == CHOOSE n \in 1..Len(l) : l[n] \in K /\ \A m \in 1..(n - 1) : l[m] \notin K
LastOf(l, K) == CHOOSE n \in 1..Len(l) : l[n] \in K /\ \A m \in (n + 1)..Len(l) : l[m] \notin K

\* TurnCompleted{FinalAnswer}; TurnFailed, TurnTimedOut and any other
\* TurnCompleted; TurnCancelled; TurnCancelled{boundary: suspension}
Terminals == {"Completed", "Failed", "Cancelled", "CancelledAtWait"}
Checkpoints == {"Prepared", "Suspended", "Merged"}
HasTerminal(l) == \E n \in 1..Len(l) : l[n] \in Terminals
Terminal(l) == First(l, Terminals)
Terminating(l) == IF HasTerminal(l) THEN Terminal(l) ELSE Len(l) + 1

\* two terminal boundaries of different kinds are an error
Conflicting(l) == \E m, n \in 1..Len(l) :
                    {l[m], l[n]} \subseteq Terminals /\ l[m] # l[n]

\* current_suspension: the last checkpoint fact, unless cancelled or ended
Suspension(l) ==
    IF Has(l, "Intent") \/ HasTerminal(l) \/ ~\E n \in 1..Len(l) : l[n] \in Checkpoints
    THEN 0
    ELSE LET n == LastOf(l, Checkpoints) IN IF l[n] = "Suspended" THEN n ELSE 0

\* the suspension a cancellation found, when nothing ran in between
CancelledSuspension(l) ==
    IF HasTerminal(l) /\ l[Terminal(l)] = "CancelledAtWait" /\ Has(l, "Intent")
    THEN Suspension(SubSeq(l, 1, First(l, {"Intent"}) - 1)) ELSE 0

Unsettled(l) ==
    /\ Has(l, "Effect") /\ ~Has(l, "Receipt")
    /\ ~(Has(l, "Wait") /\ (Suspension(l) # 0 \/ CancelledSuspension(l) # 0))

SourceCursor(l) ==
    IF HasTerminal(l) THEN Terminal(l)
    ELSE IF Has(l, "Intent") THEN First(l, {"Intent"})
    ELSE IF \E n \in 1..Len(l) : l[n] \in Checkpoints THEN LastOf(l, Checkpoints)
    ELSE Len(l)

\* inspect: fails without the admission fact, on conflicting terminals and on
\* a model fact behind the terminal
Inspectable(l) ==
    /\ Has(l, "Started")
    /\ ~Conflicting(l)
    /\ \A n \in (Terminating(l) + 1)..Len(l) : l[n] # "Model"

StoppedOutcome(l) ==
    LET k == l[SourceCursor(l)] IN
    IF Unsettled(l) THEN "RecoveryRequired"
    ELSE IF k = "Completed" THEN "Completed"
    ELSE IF k = "Failed" THEN "Failed"
    ELSE IF k \in {"Cancelled", "CancelledAtWait"} THEN "Cancelled"
    ELSE IF k = "Suspended" /\ Suspension(l) # 0 THEN "Suspended"
    ELSE "RecoveryRequired"

\* usage is counted behind the last observed cursor and before the terminal
UsedAfter(l, after) ==
    Cardinality({n \in (after + 1)..(Terminating(l) - 1) : l[n] = "Model"})

Inspection(l, after) ==
    [cursor |-> SourceCursor(l), outcome |-> StoppedOutcome(l),
     checkpoint |-> IF StoppedOutcome(l) = "Suspended" THEN Suspension(l) ELSE 0,
     used |-> UsedAfter(l, after)]

----------------------------------------------------------------------------
(* Goal verification: the assessment is recomputed from the live Ledger on *)
(* every replay and must equal the recorded one.                           *)

\* inspect_effect_proof: six exact facts, each behind the one before
ProofRows == 6
EffectProof(l) ==
    /\ \A k \in {"Started", "Prepared", "Effect", "Receipt"} : Has(l, k)
    /\ First(l, {"Started"}) < First(l, {"Prepared"})
    /\ First(l, {"Effect"}) < First(l, {"Receipt"})
    /\ First(l, {"Receipt"}) < Terminating(l)

\* inspect_stopped: three rows go to the exact lookups of terminal, binding and
\* admission, the scan of the whole execution leaves one for the empty page that
\* ends it, and the proof of an effect reads its facts again
Coverage(l) ==
    IF \/ Len(l) + 3 >= MaxRows
       \/ Has(l, "Effect") /\ Len(l) + 3 + ProofRows > MaxRows
    THEN "exhausted"
    ELSE IF Has(l, "Effect") /\ ~EffectProof(l) THEN "uncertain" ELSE "complete"

GoalVerdict(t) ==
    LET l == log[Latest(t, Root)] IN
    IF Coverage(l) # "complete" THEN "indeterminate"
    ELSE IF Has(l, "Effect") THEN "satisfied" ELSE "unmet"

Replays == task.goal # "none" => task.goal = GoalVerdict(task)

\* command: apply to the replayed snapshot and append with compare-and-set
Command(can, new) ==
    Replays /\ can /\ task' = Refresh(new) /\ UNCHANGED <<facts, log, active, entered, drv>>

\* the same for the calls that are repeated: an identical fact in the stream
\* returns the snapshot and the call goes on
Accepts(f, can) == Replays /\ (f \in facts \/ can)
Commit(f, new) ==
    IF f \in facts THEN UNCHANGED <<task, facts>>
    ELSE task' = Refresh(new) /\ facts' = facts \cup {f}

\* a continuation names its predecessor; other dependencies are added below
AdmitInvocation(i) == LET deps == IF i \in Continuations THEN {Parent[i]} ELSE {} IN
    Command(CanAdmit(task, i, deps), Admit(task, i, deps))
AdmitDependency(i, j) == i # j /\ Command(CanAddDependency(task, i, j), AddDependency(task, i, j))
ConfigureBudget == task.def.steps > 0 /\ Command(CanConfigure(task), Configure(task))
FailTask == Command(CanEnd(task), Fail(task))
AssessGoal == task.def.goal /\ Command(CanAssess(task), Assess(task, GoalVerdict(task)))

\* load_for: the child's latest attempt is re-inspected and must say what the
\* snapshot says before its result is offered to the parent
Verified(j) ==
    LET t == task a == Latest(t, j) IN
    /\ t.inv[j].attempts # <<>>
    /\ Inspectable(log[a])
    /\ SourceCursor(log[a]) = t.att[a].cursor
    /\ StoppedOutcome(log[a]) = t.att[a].outcome

ConsumeChild(i, j) == Verified(j) /\
    Command(CanConsume(task, i, j), Consume(task, i, j))
ConsumeTerminalChild(i, j) == Verified(j) /\
    Command(CanConsumeTerminal(task, i, j), ConsumeTerminal(task, i, j))

\* complete: waits while a goal is open; every completed attempt is inspected
\* again, and with a Goal its coverage must be complete
CompleteTask ==
    /\ task.def.goal => task.goal = "satisfied" /\ Coverage(log[Latest(task, Root)]) = "complete"
    /\ \A a \in Started(task) : task.att[a].outcome = "Completed" =>
            /\ Inspectable(log[a])
            /\ SourceCursor(log[a]) = task.att[a].cursor
            /\ StoppedOutcome(log[a]) = "Completed"
    /\ Command(CanComplete(task), Complete(task))

----------------------------------------------------------------------------
(* Driver calls *)

Step(d, rec) == drv' = [drv EXCEPT ![d] = rec]
Done(d) == Step(d, Idle)
Go(d, pc) == Step(d, [Idle EXCEPT !.pc = pc, !.a = drv[d].a])
Write(a, kinds) == log' = [log EXCEPT ![a] = @ \o kinds]
At(d, pc) == drv[d].pc = pc
Here(d) == drv[d].a

\* run: the snapshot read first caps the Step request by what is left
RunBegin(d, a) ==
    /\ At(d, "idle") /\ Replays
    /\ task.att[a].state = "none"
    /\ TokensLeft(task)
    /\ task.budgeted => Remaining(task) > 0
    /\ \E want \in 1..task.def.maxSteps :
        Step(d, [drv[d] EXCEPT !.pc = "start", !.a = a,
            !.n = IF ~task.budgeted THEN 0
                  ELSE IF want < Remaining(task) THEN want
                  ELSE Remaining(task)])
    /\ UNCHANGED <<task, facts, log, active, entered>>

RunStart(d) ==
    LET a == Here(d) IN
    /\ At(d, "start")
    /\ IF Replays /\ CanStartWith(task, a, drv[d].n)
       THEN task' = Refresh(Start(task, a, drv[d].n)) /\ Go(d, "admit")
       ELSE Done(d) /\ UNCHANGED task
    /\ UNCHANGED <<facts, log, active, entered>>

\* resume and resume_approval: the command is named by checkpoint and input
ResumeBegin(d, a) ==
    LET c == Suspension(log[a])
        f == <<"resume", a, c>> IN
    /\ At(d, "idle")
    /\ c # 0 /\ task.att[a].state # "none"
    /\ Accepts(f, CanResume(task, a, c))
    /\ Commit(f, Resume(task, a))
    /\ Step(d, [drv[d] EXCEPT !.pc = "admit", !.a = a, !.seen = <<"resume">>])
    /\ UNCHANGED <<log, active, entered>>

\* bind_execution, then execution.start, which writes ExecutionStarted and
\* claims a new execution, or execution.resume, which claims one with a current
\* suspension, receipts the resolved wait and merges it into the checkpoint.
\* Anything else is refused.
ExecutionAdmit(d) ==
    LET a == Here(d)
        l == log[a]
        bind == IF Has(l, "Bound") THEN <<>> ELSE <<"Bound">>
        new == ~\E k \in Terminals \cup Checkpoints \cup {"Started", "Intent"} : Has(l, k)
        resuming == drv[d].seen = <<"resume">> /\ Suspension(l) # 0 IN
    /\ At(d, "admit")
    /\ IF a \notin active /\ (new \/ resuming)
       THEN /\ active' = active \cup {a}
            /\ Write(a, IF new THEN bind \o <<"Started">>
                        ELSE IF Has(l, "Wait") THEN <<"Receipt", "Merged">> ELSE <<"Merged">>)
            /\ Go(d, "run")
       ELSE Go(d, "record") /\ Write(a, bind) /\ UNCHANGED active
    /\ UNCHANGED <<task, facts, entered>>

----------------------------------------------------------------------------
(* The execution a driver call awaits (SessionExecution and below).        *)

\* a call that still owns the worker of the execution
Owns(d, a) == Here(d) = a /\ drv[d].pc \in {"admit", "run", "commit"}
Running(d) == At(d, "run")
Live(l) == ~HasTerminal(l) /\ ~Has(l, "Intent")
Models(l) == Cardinality({n \in 1..Len(l) : l[n] = "Model"})
Return(d) == /\ active' = active \ {Here(d)}
             /\ Go(d, "record")

Work(d, kinds) == Write(Here(d), kinds) /\ UNCHANGED <<task, facts, active, entered, drv>>

ModelCall(d) == LET l == log[Here(d)] IN
    /\ Running(d) /\ Live(l) /\ Models(l) < MaxModels[Here(d)]
    /\ l[Len(l)] \in {"Started", "Merged", "Receipt"}
    /\ Work(d, <<"Model">>)

\* the effect takes place, or not, before its receipt is written
EffectStart(d) == LET l == log[Here(d)] IN
    /\ Running(d) /\ Live(l) /\ ~Has(l, "Effect") /\ l[Len(l)] \in {"Model", "Merged"}
    /\ Write(Here(d), <<"Prepared", "Effect">>)
    /\ entered' \in {entered, entered \cup {Here(d)}}
    /\ UNCHANGED <<task, facts, active, drv>>

EffectReceipt(d) == LET l == log[Here(d)] IN
    /\ Running(d) /\ Has(l, "Effect") /\ ~Has(l, "Receipt")
    /\ Here(d) \in entered
    /\ Work(d, <<"Receipt">>)

\* an approval suspends before the effect, an external wait after its start
Suspend(d) == LET l == log[Here(d)] IN
    /\ Running(d) /\ Live(l) /\ ~Has(l, "Suspended") /\ Here(d) \in MaySuspend
    /\ \/ ~Has(l, "Effect") /\ l[Len(l)] = "Model" /\ Write(Here(d), <<"Suspended">>)
       \/ Has(l, "Effect") /\ ~Has(l, "Receipt") /\ Here(d) \in entered
          /\ Write(Here(d), <<"Wait", "Suspended">>)
    /\ Return(d)
    /\ UNCHANGED <<task, facts, entered>>

Finish(d) == LET l == log[Here(d)] IN
    /\ Running(d) /\ ~HasTerminal(l)
    /\ \/ Live(l) /\ l[Len(l)] = "Model" /\ Write(Here(d), <<"Completed">>)
       \/ Write(Here(d), <<IF Has(l, "Intent") THEN "Cancelled" ELSE "Failed">>)
    /\ Go(d, "commit")
    /\ UNCHANGED <<task, facts, active, entered>>

\* the Session commit behind the terminal fact, then the release
CommitTurn(d) ==
    /\ At(d, "commit")
    /\ Write(Here(d), <<"Session">>)
    /\ Return(d)
    /\ UNCHANGED <<task, facts, entered>>

\* the trusted executor is asked about an interrupted effect
InspectEffect(a) ==
    /\ Has(log[a], "Effect") /\ ~Has(log[a], "Receipt") /\ ~Has(log[a], "NotCommitted")
    /\ a \notin active /\ \A d \in Drivers : ~Owns(d, a)
    /\ Suspension(log[a]) = 0
    /\ Write(a, <<IF a \in entered THEN "Receipt" ELSE "NotCommitted">>)
    /\ UNCHANGED <<task, facts, active, entered, drv>>

\* load_reconciled repairs a Session commit lost in a crash; only the reader of
\* a Goal source counts its row
RepairSession(a) ==
    /\ task.def.goal
    /\ HasTerminal(log[a]) /\ ~Has(log[a], "Session") /\ \A d \in Drivers : ~Owns(d, a)
    /\ Write(a, <<"Session">>)
    /\ UNCHANGED <<task, facts, active, entered, drv>>

----------------------------------------------------------------------------
(* Observation *)

Reconcile(d, a) ==
    /\ At(d, "idle") /\ Replays
    /\ task.att[a].state \in Stoppable /\ a \notin active
    \* "Callers must not reconcile while an in-process worker still owns execution"
    /\ \A e \in Drivers : ~Owns(e, a)
    /\ Step(d, [drv[d] EXCEPT !.pc = "record", !.a = a])
    /\ UNCHANGED <<task, facts, log, active, entered>>

\* record_stopped up to its command
RecordInspect(d) ==
    LET a == Here(d)
        l == log[a]
        t == task.att[a] IN
    /\ At(d, "record")
    /\ IF ~Replays \/ t.state \notin Stoppable \/ a \in active
       THEN Done(d) /\ UNCHANGED <<task, facts>>
       ELSE IF ~Inspectable(l)
       THEN /\ Done(d)
            /\ IF CanMarkRecovery(task, a)
               THEN Commit(<<"missing-evidence", a>>, MarkRecovery(task, a))
               ELSE UNCHANGED <<task, facts>>
       ELSE /\ IF SourceCursor(l) <= t.cursor THEN Done(d)
               ELSE Step(d, [drv[d] EXCEPT !.pc = "observe", !.obs = Inspection(l, t.cursor)])
            /\ UNCHANGED <<task, facts>>
    /\ UNCHANGED <<log, active, entered>>

RecordCommit(d) ==
    LET a == Here(d)
        o == drv[d].obs IN
    /\ At(d, "observe")
    /\ IF Replays /\ CanObserve(task, a, o)
       THEN task' = Refresh(Observe(task, a, o)) ELSE UNCHANGED task
    /\ Done(d)
    /\ UNCHANGED <<facts, log, active, entered>>

----------------------------------------------------------------------------
(* Retry authorization: a proof in the Ledger, then the Task command.      *)

\* an earlier proof in the stream is none of the facts these read
ValidateMembership(l) ==
    /\ Has(l, "Started") /\ Has(l, "Bound")
    /\ ~\E k \in {"Cancelled", "CancelledAtWait", "Intent", "Completed"} : Has(l, k)

\* mutant: a started effect without a receipt is taken for one that did not happen
ValidateEffectsLoose(l) == ~Has(l, "Receipt")

ValidateEffects(l) ==
    /\ ~Has(l, "Receipt")
    /\ Has(l, "Effect") => Has(l, "NotCommitted")

\* one fact identity per attempt: a retried call finds its own proof
RetryBegin(d, a) ==
    LET t == task.att[a] IN
    /\ At(d, "idle") /\ Replays
    /\ IsOpen(task) /\ ~t.cancelled /\ t.state \in {"Failed", "RecoveryRequired"}
    /\ a \notin active
    /\ t.retry => Has(log[a], "Proof")
    /\ ValidateMembership(log[a])
    /\ t.cursor <= Len(log[a])
    /\ ValidateEffects(log[a])
    /\ Step(d, [drv[d] EXCEPT !.pc = "proof", !.a = a, !.seen = log[a]])
    /\ UNCHANGED <<task, facts, log, active, entered>>

RetryProof(d) ==
    LET a == Here(d) IN
    /\ At(d, "proof")
    /\ IF Has(drv[d].seen, "Proof") THEN UNCHANGED log /\ Step(d, [drv[d] EXCEPT !.pc = "recheck"])
       ELSE IF a \in active \/ Has(log[a], "Intent") THEN UNCHANGED log /\ Done(d)
       ELSE /\ IF Has(log[a], "Proof") THEN UNCHANGED log ELSE Write(a, <<"Proof">>)
            /\ Step(d, [drv[d] EXCEPT !.pc = "recheck", !.seen = Append(@, "Proof")])
    /\ UNCHANGED <<task, facts, active, entered>>

\* nothing active, and nothing in the stream but what was inspected and the proof
RetryRecheck(d) ==
    LET a == Here(d) IN
    /\ At(d, "recheck")
    /\ IF a \notin active /\ log[a] = drv[d].seen
       THEN Step(d, [drv[d] EXCEPT !.pc = "grant"])
       ELSE Done(d)
    /\ UNCHANGED <<task, facts, log, active, entered>>

\* the Task command, under the position of the proof
RetryGrant(d) ==
    LET a == Here(d)
        f == <<"retry", a>> IN
    /\ At(d, "grant")
    /\ IF Accepts(f, CanAuthorizeRetry(task, a, LastOf(drv[d].seen, {"Proof"})))
       THEN Commit(f, AuthorizeRetry(task, a))
       ELSE UNCHANGED <<task, facts>>
    /\ Done(d)
    /\ UNCHANGED <<log, active, entered>>

----------------------------------------------------------------------------
(* Cancellation: the Task fact first, then one delivery per attempt.       *)

Cancel(d) ==
    LET new == CancelTask(task) IN
    /\ At(d, "idle")
    /\ Accepts(<<"cancel">>, CanEnd(task))
    /\ Commit(<<"cancel">>, new)
    /\ Step(d, [drv[d] EXCEPT !.pc = "deliver",
                    !.todo = {a \in Started(task) :
                        (IF <<"cancel">> \in facts THEN task ELSE new).att[a].cancelled}])
    /\ UNCHANGED <<log, active, entered>>

\* SessionExecution::cancel: nothing once ended or cancelled; otherwise the
\* intent, and behind it the terminal fact of a Turn that was suspended
Intend(a) ==
    IF HasTerminal(log[a]) \/ Has(log[a], "Intent") THEN UNCHANGED <<log, active>>
    ELSE Write(a, <<"Intent">>) /\ active' = active \ {a}

AtWait(a) == Suspension(log[a]) # 0 /\ a \notin active

\* a delivery that fails ends the call with the rest undelivered
Deliver(d) ==
    /\ At(d, "deliver")
    /\ \/ Done(d) /\ UNCHANGED <<log, active>>
       \/ \E a \in drv[d].todo :
            /\ Intend(a)
            /\ Step(d, [drv[d] EXCEPT !.todo = @ \ {a}, !.a = a,
                                     !.pc = IF AtWait(a) THEN "cancelwait" ELSE @])
    /\ UNCHANGED <<task, facts, entered>>

DeliverWait(d) ==
    /\ At(d, "cancelwait")
    /\ IF HasTerminal(log[Here(d)]) THEN UNCHANGED log ELSE Write(Here(d), <<"CancelledAtWait">>)
    /\ Step(d, [drv[d] EXCEPT !.pc = "deliver"])
    /\ UNCHANGED <<task, facts, active, entered>>

\* the process dies: the stores stay, every call and the active set are gone
Crash ==
    /\ \E d \in Drivers : ~At(d, "idle")
    /\ drv' = [d \in Drivers |-> Idle]
    /\ active' = {}
    /\ UNCHANGED <<task, facts, log, entered>>

DriverStep(d) ==
    \/ RunStart(d) \/ ExecutionAdmit(d)
    \/ ModelCall(d) \/ EffectStart(d) \/ EffectReceipt(d) \/ Suspend(d) \/ Finish(d) \/ CommitTurn(d)
    \/ RecordInspect(d) \/ RecordCommit(d)
    \/ RetryProof(d) \/ RetryRecheck(d) \/ RetryGrant(d) \/ Deliver(d) \/ DeliverWait(d)

Next ==
    \/ \E i \in Invocations : AdmitInvocation(i)
    \/ \E i, j \in Invocations : AdmitDependency(i, j) \/ ConsumeChild(i, j) \/ ConsumeTerminalChild(i, j)
    \/ ConfigureBudget \/ FailTask \/ AssessGoal \/ CompleteTask
    \/ \E d \in Workers, a \in Attempts : RunBegin(d, a) \/ ResumeBegin(d, a)
    \/ \E d \in Operators, a \in Attempts : Reconcile(d, a) \/ RetryBegin(d, a)
    \/ \E d \in Drivers : Cancel(d)
    \/ \E d \in Drivers : DriverStep(d)
    \/ \E a \in Attempts : InspectEffect(a) \/ RepairSession(a)
    \/ Crash

Spec == Init /\ [][Next]_vars
----------------------------------------------------------------------------
(* Properties *)

\* Types of the Task record and the driver's tables
TypeOK ==
    /\ task.def \in Definitions
    /\ task.state \in TaskStates
    /\ \A i \in Invocations : task.inv[i].state \in InvStates
                            /\ task.inv[i].attempts \in Seq(Attempts)
    /\ \A a \in Attempts : task.att[a].state \in InvStates
                         /\ task.att[a].outcome \in Outcomes \cup {"none"}
    /\ active \subseteq Attempts /\ entered \subseteq Attempts

(***************************************************************************)
(* The driver over its two stores implements the promise of TaskPromise:   *)
(* an attempt is live from its start fact until it is observed stopped or  *)
(* its retry is authorized.                                                *)
(***************************************************************************)
Promise == INSTANCE TaskPromise WITH
    limits   <- task.def,
    outcome  <- IF IsOpen(task) THEN "open" ELSE task.state,
    live     <- {Owner[a] : a \in {b \in Attempts : task.att[b].state \in Stoppable}},
    spent    <- Cardinality(Started(task)),
    reserved <- Reserved(task)
KeepsPromise == Promise!Spec

(***************************************************************************)
(* Whatever crashes, retries and races happen, the effect of an invocation *)
(* takes place in at most one of its attempts: retry authorization demands *)
(* an idle execution, no receipt, and a trusted NotCommitted inspection of *)
(* a started effect, all unchanged between the proof and the grant.        *)
(***************************************************************************)
EffectInOneAttempt ==
    \A a, b \in entered : Owner[a] = Owner[b] => a = b

(***************************************************************************)
(* A Task that says completed is backed by the Ledger: the latest attempt  *)
(* of every admitted invocation ended with a FinalAnswer, none of its      *)
(* effects is unsettled, and every result an invocation called for was     *)
(* consumed before it completed.                                           *)
(***************************************************************************)
CompletionBacked ==
    /\ TypeOK
    /\ task.state = "completed" =>
          \A i \in Admitted(task) :
              /\ Pending(task, i) = {}
              /\ Has(log[Latest(task, i)], "Completed")
              /\ ~Unsettled(log[Latest(task, i)])

(***************************************************************************)
(* Once a cancellation request is recorded for an attempt, no later step   *)
(* resumes it, authorizes its retry, or starts a sibling attempt of its    *)
(* invocation; what is still observed never revives the Task.              *)
(***************************************************************************)
CancellationSticks ==
    [][\A a \in Attempts : task.att[a].cancelled =>
          /\ task'.att[a].cancelled
          /\ task'.att[a].retry = task.att[a].retry
          /\ task'.inv[Owner[a]].attempts = task.inv[Owner[a]].attempts
          /\ task.att[a].state \in {"Suspended", "RecoveryRequired"} =>
                task'.att[a].state # "Running"]_vars

(***************************************************************************)
(* Token usage is cumulative: the Task is charged for no model call twice. *)
(***************************************************************************)
UsageCountedOnce ==
    task.used <= FoldFunction(LAMBDA l, n : Models(l) + n, 0, log)

\* A recorded assessment stays equal to its recomputation, so that the Task
\* stream can always be replayed.
StaysReplayable == Replays
=============================================================================
