----------------------------- MODULE Delegation -----------------------------
(***************************************************************************)
(* Child delegation of the Agent runner (kolyan-agent/src/runner.rs,       *)
(* runner/delegation and its parts, runner/finalization.rs).               *)
(*                                                                         *)
(* A root execution calls agent.invoke; a blocking worker admits the       *)
(* children over several stores and commits one admission fact, on which   *)
(* the root waits.  Host calls then drive the children through shared      *)
(* execution gates, resume approvals, join the terminals and resume the    *)
(* root.  The Task service is TaskReducer's snapshot reduced to what the   *)
(* runner reads; a process crash takes every call, gate and worker along.  *)
(***************************************************************************)
EXTENDS Integers, Sequences, FiniteSets, FiniteSetsExt, SequencesExt, TLC

CONSTANTS Children,    \* 1..n: the children of the one agent.invoke call
          Calls,       \* concurrent host calls
          Configs,     \* Task limits, snapshots, host budget; and the bounds on
                       \* the host calls and crashes of a behaviour
          MaySuspend   \* children whose Turn may ask for an approval (a bound)
ASSUME DelegationAssumption ==
    /\ \E n \in 1..8 : Children = 1..n
    /\ MaySuspend \subseteq Children /\ IsFiniteSet(Calls)
    /\ \A c \in Configs : c.bound \in {1, 2, 4} /\ c.maxParallel \in 1..8
                           /\ c.calls \in Nat /\ c.crashes \in Nat

Root == 0
Execs == {Root} \cup Children
Gates == <<"task", "invocation", "host">>

VARIABLES cfg,
          task,       \* "Active", "Completed", "Failed" or "Cancelled"
          att,        \* [Execs -> state of the current attempt]
          creq,       \* [Execs -> BOOLEAN]: cancellation_requested
          stage,      \* [Children -> what admission has written for it]
          adm,        \* the admission worker, and the admission fact
          consumed,   \* [Children -> the consumed terminal, or "none"]
          answer,     \* the result the root was resumed with
          call,       \* [Calls -> the host call in progress]
          job,        \* [Calls -> [Execs -> where an execution of it stands]]
          queue,      \* [gate -> Seq of <<call, execution>>]: waiting in order
          runs,       \* [Execs -> first runs of the attempt]
          used        \* calls and crashes so far
vars == <<cfg, task, att, creq, stage, adm, consumed, answer, call, job, queue, runs, used>>

Ended == {"Completed", "Failed", "Cancelled"}
NoJobs == [i \in Execs |-> "none"]
NoCall == [kind |-> "none", pc |-> "idle", child |-> Root, result |-> "none"]
EmptyQueues == [g \in Range(Gates) |-> <<>>]

Init == /\ cfg \in Configs
        /\ task = "Active"
        /\ att = [i \in Execs |-> "none"]
        /\ creq = [i \in Execs |-> FALSE]
        /\ stage = [c \in Children |-> 0]
        /\ adm = [pc |-> "idle", child |-> 1, out |-> "none", fact |-> "none", kids |-> {},
                   ask |-> IF cfg.asks THEN "due" ELSE "no"]
        /\ consumed = [c \in Children |-> "none"]
        /\ answer = "none"
        /\ call = [k \in Calls |-> NoCall]
        /\ job = [k \in Calls |-> NoJobs]
        /\ queue = EmptyQueues
        /\ runs = [i \in Execs |-> 0]
        /\ used = [calls |-> 0, crashes |-> 0]

----------------------------------------------------------------------------
(* Ownership and lifecycle *)

\* inspect_historical_child_owner: the parent has its attempt, in any state
InspectOwner == att[Root] # "none"
\* validate_child_owner: the parent may still admit, drive and consume
OwnerActive == /\ InspectOwner /\ task = "Active" /\ ~creq[Root]
               /\ att[Root] \in {"Running", "Suspended", "RecoveryRequired"}

Serialized == adm.fact = "serialized"
Admitted == adm.fact # "none"
\* one child: its private stores (reservation, binding, context, input), its
\* invocation in the Task, its execution link
Private == 1
InTask(c) == stage[c] >= 2
Linked == 3
\* the exact admission, for reading and for new work; the execution link of a
\* child leads to it, and the issued authority finds it again
InspectAdmission == Admitted /\ InspectOwner /\ \A c \in adm.kids : stage[c] = Linked
VerifyAdmission == OwnerActive /\ InspectAdmission
ExecutionLink(c) == stage[c] = Linked /\ c \in adm.kids /\ InspectAdmission
AdmissionForAuthority == att[Root] # "none" /\ Admitted
Members == {Root} \cup {c \in Children : InTask(c)}

\* read_only_children and parallel_eligible: only children attested to be
\* read-only, without a token ceiling, on a host with room
ReadOnlyChildren == Children \subseteq cfg.readers
ParallelEligible == cfg.parallel /\ cfg.bound > 1 /\ ~cfg.tokens /\ ReadOnlyChildren

----------------------------------------------------------------------------
(* admit_agent_children: the effect of the root's agent.invoke call.  The  *)
(* effect journal enters it at most once, so an existing admission is met  *)
(* by recovery only.  The blocking worker goes on when its caller stops.   *)

RootRuns == \E k \in Calls : job[k][Root] = "run"
KeepTask == UNCHANGED <<cfg, task, att, creq, consumed, answer, call, job, queue, runs, used>>

\* everything before the first write refuses for certain
AdmitBegin ==
    /\ RootRuns /\ adm.pc = "idle" /\ adm.out = "none" /\ adm.ask \in {"no", "granted"}
    /\ adm' = IF OwnerActive /\ cfg.room THEN [adm EXCEPT !.pc = "child"]
              ELSE [adm EXCEPT !.out = "denied"]
    /\ UNCHANGED stage /\ KeepTask

AdmitEnds(why) == adm' = [adm EXCEPT !.pc = "idle", !.out = why] /\ UNCHANGED stage
\* one child through its stores; the Task refuses it once the Task or the parent
\* is over, and a cancelled control is seen before each child
AdmitChild ==
    LET c == adm.child
        last == stage[c] + 1 = Linked IN
    /\ adm.pc = "child" /\ KeepTask
    /\ \/ /\ stage[c] = Private => task = "Active" /\ att[Root] \notin Ended
          /\ stage' = [stage EXCEPT ![c] = @ + 1]
          /\ adm' = [adm EXCEPT !.pc = IF last /\ c + 1 \notin Children THEN "commit" ELSE @,
                                !.child = IF last /\ c + 1 \in Children THEN c + 1 ELSE c]
       \/ stage[c] = 0 /\ creq[Root] /\ AdmitEnds("uncertain")
       \/ stage[c] = Private /\ (task # "Active" \/ att[Root] \in Ended) /\ AdmitEnds("uncertain")
       \/ cfg.faults /\ AdmitEnds("uncertain")

\* mutant: the first linked child is taken for the whole admission
AdmitCommitEarly ==
    /\ adm.pc \in {"child", "commit"} /\ stage[1] = Linked /\ KeepTask /\ UNCHANGED stage
    /\ adm' = [adm EXCEPT !.pc = "verify", !.kids = {c \in Children : stage[c] = Linked},
                          !.fact = IF ParallelEligible THEN "parallel" ELSE "serialized"]
\* parallel_eligible, then the admission fact; a journal that cannot be read for
\* the former is a refusal, one that cannot be written an uncertainty
AdmitCommit ==
    /\ adm.pc = "commit" /\ KeepTask
    /\ \/ /\ adm' = [adm EXCEPT !.pc = "verify", !.kids = {c \in Children : stage[c] = Linked},
                       !.fact = IF ParallelEligible THEN "parallel" ELSE "serialized"]
          /\ UNCHANGED stage
       \/ cfg.faults /\ AdmitEnds("denied")
       \/ cfg.faults /\ AdmitEnds("uncertain")

\* the committed fact is read back and verified against the parent as it is
\* now; a ledger that cannot be read refuses like a fact that does not fit
AdmitVerify ==
    /\ adm.pc = "verify" /\ KeepTask
    /\ \/ AdmitEnds(IF VerifyAdmission THEN "wait" ELSE "denied")
       \/ cfg.faults /\ AdmitEnds("denied")

----------------------------------------------------------------------------
(* Execution gates *)

GateOf(pc) == CHOOSE n \in DOMAIN Gates : Gates[n] = pc
Applies(i, g) == (g = "task" => cfg.tokens) /\ (g = "invocation" => i # Root)
\* host_count: work that may write takes the whole host
Permits(i, g) == IF g = "host" /\ i \notin cfg.readers THEN cfg.bound ELSE 1
\* mutant: one slot of the host is kept back
CapacityShort(g) == CASE g = "task" -> 1 [] g = "host" -> cfg.bound - 1
                      [] OTHER -> IF Serialized THEN 1 ELSE cfg.maxParallel
Capacity(g) == CASE g = "task" -> 1 [] g = "host" -> cfg.bound
                 [] OTHER -> IF Serialized THEN 1 ELSE cfg.maxParallel
\* ExecutionPermits live from their acquisition to the end of the run
Holds(k, i, g) == /\ Applies(i, g)
                  /\ \/ job[k][i] \in {"recheck", "go", "run"}
                     \/ \E n \in DOMAIN Gates : Gates[n] = job[k][i] /\ GateOf(g) < n
HeldPermits(g) == {p \in Calls \X Execs \X (1..cfg.bound) :
                     Holds(p[1], p[2], g) /\ p[3] <= Permits(p[2], g)}
Held(g) == Cardinality(HeldPermits(g))
NextGate(i, n) == IF \E m \in DOMAIN Gates : m > n /\ Applies(i, Gates[m])
                  THEN Gates[Min({m \in DOMAIN Gates : m > n /\ Applies(i, Gates[m])})]
                  ELSE "recheck"

\* execution_plan: current ownership, or a child a RootOnly cancellation left alone
Detached(i) == /\ task = "Cancelled" /\ cfg.policy = "RootOnly" /\ i # Root
               /\ att[i] # "none" /\ ~creq[i]
ExecutionPlan(i) ==
    /\ (task = "Active" \/ Detached(i)) /\ ~creq[i] /\ att[i] \notin Ended
    /\ i \in Children => ExecutionLink(i) /\ (Detached(i) \/ OwnerActive)

Move(k, i, pc) == job' = [job EXCEPT ![k][i] = pc]
Enqueue(k, i, n) == LET g == NextGate(i, n) IN
    /\ Move(k, i, g)
    /\ queue' = [h \in DOMAIN queue |->
                   LET q == SelectSeq(queue[h], LAMBDA x : x # <<k, i>>)
                   IN IF h = g THEN Append(q, <<k, i>>) ELSE q]
Leave(k, i, pc) ==
    /\ Move(k, i, pc)
    /\ queue' = [h \in DOMAIN queue |-> SelectSeq(queue[h], LAMBDA x : x # <<k, i>>)]
KeepStore == UNCHANGED <<cfg, task, att, creq, stage, adm, consumed, answer, call, runs, used>>

Enter(k, i) ==
    /\ job[k][i] = "enter" /\ KeepStore
    /\ IF ExecutionPlan(i) THEN Enqueue(k, i, 0) ELSE Leave(k, i, "error")
\* acquire_execution: first in line, and enough permits
Acquire(k, i) ==
    LET g == job[k][i] IN
    /\ g \in Range(Gates) /\ queue[g] # <<>> /\ Head(queue[g]) = <<k, i>>
    /\ Held(g) + Permits(i, g) <= Capacity(g)
    /\ Enqueue(k, i, GateOf(g)) /\ KeepStore
\* the check every 25 ms, and the last one with all permits in hand
Recheck(k, i) ==
    /\ job[k][i] \in Range(Gates) \cup {"recheck"} /\ KeepStore
    /\ \/ ~ExecutionPlan(i) /\ Leave(k, i, "error")
       \/ ExecutionPlan(i) /\ job[k][i] = "recheck" /\ Move(k, i, "go") /\ UNCHANGED queue

----------------------------------------------------------------------------
(* One execution *)

KeepEdges == UNCHANGED <<cfg, creq, stage, consumed, call, queue, used>>
Resumes(k, i) == call[k].kind = "approve" \/ (call[k].kind = "pump" /\ i = Root)

\* mutant: one completed child is enough
JoinLenient == IF \E c \in Children : att[c] = "Completed" THEN "ok" ELSE "error"
\* consume_agent_children and verify_result: failed children are reported to the
\* parent as an error, never as success
Join == IF \A c \in Children : att[c] = "Completed" THEN "ok" ELSE "error"
\* verify_result: the supplied result against the committed consumption facts
VerifyResult(k) == /\ AdmissionForAuthority /\ VerifyAdmission
                   /\ \A c \in Children : consumed[c] # "none" /\ consumed[c] = att[c]
                   /\ call[k].result = Join

\* service.run starts the one attempt, and never one that exists
CanRun(i) == task = "Active" /\ ~creq[i] /\ att[i] = "none"
\* mutant: the attempt is asked, the Task and the cancellation are not
CanResumeStale(k, i) == att[i] = "Suspended" /\ (call[k].kind = "pump" => VerifyResult(k))
\* service.resume and resume_approval continue a current suspension
CanResume(k, i) == /\ task = "Active" \/ Detached(i)
                   /\ ~creq[i] /\ att[i] = "Suspended"
                   /\ call[k].kind = "pump" => VerifyResult(k)

Go(k, i) ==
    /\ job[k][i] = "go" /\ KeepEdges /\ UNCHANGED task
    /\ \/ /\ IF Resumes(k, i) THEN CanResume(k, i) ELSE CanRun(i)
          /\ att' = [att EXCEPT ![i] = "Running"]
          /\ runs' = [runs EXCEPT ![i] = IF Resumes(k, i) THEN @ ELSE @ + 1]
          /\ answer' = IF i = Root /\ call[k].kind = "pump" THEN call[k].result ELSE answer
          /\ adm' = IF i = Root /\ call[k].kind = "approve" THEN [adm EXCEPT !.ask = "granted"] ELSE adm
          /\ Move(k, i, "run")
       \/ /\ ~(IF Resumes(k, i) THEN CanResume(k, i) ELSE CanRun(i))
          /\ Move(k, i, "load") /\ UNCHANGED <<att, runs, adm, answer>>

\* what the Server observes of a Turn that stopped (Core and Task service)
ChildOutcomes(c) ==
    {"Completed", "Failed"} \cup (IF c \in MaySuspend THEN {"Suspended"} ELSE {})
        \cup (IF creq[c] THEN {"Cancelled"} ELSE {})
        \cup (IF cfg.faults THEN {"RecoveryRequired"} ELSE {})
\* a completed root that has not consumed its children is not observed at all
RootOutcomes ==
    (IF creq[Root] THEN {IF adm.pc # "idle" THEN "RecoveryRequired" ELSE "Cancelled"} ELSE {}) \cup
    (IF adm.pc # "idle" THEN {}
     ELSE IF adm.ask = "due" THEN {"Suspended", "Failed"}
     ELSE IF answer = "none" /\ adm.out = "wait" THEN {IF VerifyAdmission THEN "Suspended" ELSE "Failed"}
     ELSE IF answer = "none" /\ adm.out = "uncertain" THEN {"RecoveryRequired"}
     ELSE {"Failed", IF \A c \in Children : InTask(c) => consumed[c] # "none"
                     THEN "Completed" ELSE "Running"})
Outcomes(i) == IF i = Root THEN RootOutcomes ELSE ChildOutcomes(i)

Observe(i, o) ==
    /\ att' = [att EXCEPT ![i] = o]
    /\ adm' = IF i = Root /\ o = "Suspended" /\ adm.ask = "due" THEN [adm EXCEPT !.ask = "pending"]
              ELSE IF i = Root /\ o = "Running" THEN [adm EXCEPT !.out = "stranded"] ELSE adm
\* the run stops, its evidence and usage are recorded, the permits are dropped
\* and a child's terminal is read back; usage over the ceiling fails the Task
EndRun(k, i) ==
    /\ job[k][i] = "run"
    /\ \E o \in Outcomes(i) :
        /\ Observe(i, o)
        /\ Move(k, i, IF i = Root \/ o \in Ended THEN "done" ELSE IF o = "Suspended" THEN "waiting" ELSE "error")
    /\ task' \in {task} \cup (IF cfg.tokens /\ task = "Active" THEN {"Failed"} ELSE {})
    /\ KeepEdges /\ UNCHANGED <<answer, runs>>

\* a refused run reads the terminal that may be there all the same
\* (load_verified_historical_result); a root goes on to finish_execution
Load(k, i) ==
    /\ job[k][i] = "load" /\ KeepEdges /\ UNCHANGED <<task, att, adm, answer, runs>>
    /\ Move(k, i, IF i = Root \/ att[i] \in Ended THEN "done" ELSE "error")

----------------------------------------------------------------------------
(* Host calls *)

Settled == {"done", "waiting", "error"}
Begin(k, kind, pc, jobs) ==
    /\ call[k].pc = "idle" /\ used.calls < cfg.calls
    /\ used' = [used EXCEPT !.calls = @ + 1]
    /\ call' = [call EXCEPT ![k] = [NoCall EXCEPT !.kind = kind, !.pc = pc]]
    /\ job' = [job EXCEPT ![k] = jobs]
    /\ UNCHANGED <<cfg, task, att, creq, stage, adm, consumed, answer, queue, runs>>
Only(i, pc) == [NoJobs EXCEPT ![i] = pc]
Return(k) == call' = [call EXCEPT ![k] = NoCall] /\ job' = [job EXCEPT ![k] = NoJobs]
KeepAll == UNCHANGED <<cfg, att, creq, stage, adm, answer, queue, runs, used>>

\* runner.start: the Task is registered and its root admitted, then the gates
StartRoot(k) == /\ task = "Active" /\ att[Root] = "none"
                /\ Begin(k, "start", "root", Only(Root, "enter"))
\* resume_approval of the root's own approval
ApproveRoot(k) == /\ adm.ask = "pending" /\ att[Root] = "Suspended" /\ ~creq[Root]
                  /\ Begin(k, "approve", "root", Only(Root, "enter"))
\* accept_agent_child_approval: immutable ownership only, so it also reaches a
\* child that a RootOnly cancellation left alone
ApproveChild(k, c) == /\ InspectAdmission /\ att[c] = "Suspended" /\ ~creq[c]
                      /\ Begin(k, "approve", "drive", Only(c, "enter"))
\* pump_agent_children: the root's checkpoint holds the external wait
PumpChildren(k) ==
    /\ att[Root] = "Suspended" /\ adm.out = "wait" /\ VerifyAdmission
    /\ Begin(k, "pump", "drive",
             [i \in Execs |-> IF i = 1 \/ (i # Root /\ ~Serialized /\ ParallelEligible)
                              THEN "todo" ELSE "none"])

\* drive_one_child up to the gates
DriveChild(k, c) ==
    /\ job[k][c] = "todo" /\ UNCHANGED <<task, consumed, call>> /\ KeepAll
    /\ Move(k, c, IF ~OwnerActive THEN "error"
                  ELSE IF att[c] \in Ended THEN "done"
                  ELSE IF att[c] = "Suspended" /\ ~creq[c] THEN "waiting"
                  ELSE IF att[c] # "none" THEN "error" ELSE "enter")

\* drive_agent_children and drive_parallel_children: every entered child is
\* drained before an error is returned
DriveNext(k) ==
    LET driven == {c \in Children : job[k][c] # "none"}
        has(s) == \E c \in driven : job[k][c] = s
        next == Max(driven) + 1 IN
    /\ call[k].pc = "drive" /\ \A c \in driven : job[k][c] \in Settled
    /\ UNCHANGED <<task, consumed>> /\ KeepAll
    /\ IF call[k].kind # "pump" \/ has("error") THEN Return(k)
       ELSE IF next \in Children /\ (has("waiting") => cfg.parallel /\ ReadOnlyChildren)
       THEN Move(k, next, "todo") /\ UNCHANGED call
       ELSE IF has("waiting") \/ ~VerifyAdmission THEN Return(k)
       ELSE call' = [call EXCEPT ![k] = [@ EXCEPT !.pc = "consume", !.child = 1, !.result = Join]]
            /\ UNCHANGED job

\* one disposition of consume_agent_children; an exact one already there is kept
ConsumeChild(k) ==
    LET c == call[k].child IN
    /\ call[k].pc = "consume" /\ UNCHANGED task /\ KeepAll
    /\ IF consumed[c] = "none" /\ ~(task = "Active" /\ ~creq[Root] /\ att[Root] \notin Ended)
       THEN Return(k) /\ UNCHANGED consumed
       ELSE /\ consumed' = [consumed EXCEPT ![c] = IF @ = "none" THEN att[c] ELSE @]
            /\ call' = [call EXCEPT ![k] = IF c + 1 \in Children THEN [@ EXCEPT !.child = c + 1]
                                           ELSE [@ EXCEPT !.pc = "resume"]]
            /\ UNCHANGED job

\* back in the pump: the root's executor is rebuilt and its gates entered
ResumeRoot(k) ==
    /\ call[k].pc = "resume" /\ UNCHANGED <<task, consumed>> /\ KeepAll
    /\ IF ~OwnerActive THEN Return(k)
       ELSE Move(k, Root, "enter") /\ call' = [call EXCEPT ![k].pc = "root"]

----------------------------------------------------------------------------
(* finalize_task *)

\* mutant: invocations that have not ended are left out of the verdict
EveryTerminalOpen == att[Root] \in Ended
\* every admitted invocation has an attempt and a verified terminal
EveryTerminal == \A i \in Members : att[i] \in Ended
\* a completed root has consumed every child; a failed one cannot any more
ChildrenConsumed ==
    att[Root] = "Completed" => \A c \in Members \ {Root} : consumed[c] = att[c]
Finalizable == task = "Active" /\ EveryTerminal /\ ChildrenConsumed
Verdict == IF \A i \in Members : att[i] = "Completed" THEN "Completed" ELSE "Failed"

\* finish_execution behind a root run
FinishRoot(k) ==
    /\ call[k].pc = "root" /\ job[k][Root] \in Settled
    /\ task' = IF job[k][Root] = "done" /\ Finalizable THEN Verdict ELSE task
    /\ Return(k) /\ UNCHANGED consumed /\ KeepAll
\* the same from the host
FinalizeTask == /\ Finalizable /\ task' = Verdict
                /\ UNCHANGED <<consumed, call, job>> /\ KeepAll

----------------------------------------------------------------------------
(* Cancellation, denial, crash and recovery *)

KeepCalls == UNCHANGED <<cfg, stage, consumed, answer, call, job, queue, runs, used>>
CancelTask ==
    /\ task = "Active" /\ task' = "Cancelled"
    /\ creq' = [i \in Execs |-> i = Root \/ (cfg.policy # "RootOnly" /\ i \in Members)]
    /\ UNCHANGED <<att, adm>> /\ KeepCalls
\* a suspended execution is cancelled at once, a running one by its Turn
DeliverCancel(i) ==
    /\ creq[i] /\ att[i] = "Suspended" /\ att' = [att EXCEPT ![i] = "Cancelled"]
    /\ UNCHANGED <<task, creq, adm>> /\ KeepCalls
\* deny_agent_child_approval
DenyChild(c) ==
    /\ InspectAdmission /\ att[c] = "Suspended" /\ ~creq[c] /\ att' = [att EXCEPT ![c] = "Failed"]
    /\ UNCHANGED <<task, creq, adm>> /\ KeepCalls

Crash ==
    /\ used.crashes < cfg.crashes /\ used' = [used EXCEPT !.crashes = @ + 1]
    /\ call' = [k \in Calls |-> NoCall] /\ job' = [k \in Calls |-> NoJobs] /\ queue' = EmptyQueues
    /\ adm' = IF adm.pc = "idle" THEN adm ELSE [adm EXCEPT !.pc = "idle", !.out = "uncertain"]
    /\ UNCHANGED <<cfg, task, att, creq, stage, consumed, answer, runs>>

Orphan(i) == /\ att[i] = "Running" /\ adm.out # "stranded"
             /\ \A k \in Calls : job[k][i] # "run"
\* service.reconcile reads what the dead process left in the Ledger
Reconcile(i) ==
    /\ Orphan(i) /\ \E o \in Outcomes(i) \cup {"RecoveryRequired"} : Observe(i, o)
    /\ UNCHANGED <<task, creq>> /\ KeepCalls
\* recover_wait: a committed admission restores the wait of the root
RecoverWait ==
    /\ att[Root] = "RecoveryRequired" /\ adm.pc = "idle" /\ answer = "none"
    /\ AdmissionForAuthority /\ VerifyAdmission
    /\ att' = [att EXCEPT ![Root] = "Suspended"] /\ adm' = [adm EXCEPT !.out = "wait"]
    /\ UNCHANGED <<task, creq>> /\ KeepCalls

----------------------------------------------------------------------------

JobStep(k, i) == Enter(k, i) \/ Acquire(k, i) \/ Recheck(k, i) \/ Go(k, i) \/ EndRun(k, i) \/ Load(k, i)
CallStep(k) == \/ DriveNext(k) \/ ConsumeChild(k) \/ ResumeRoot(k) \/ FinishRoot(k)
               \/ \E c \in Children : DriveChild(k, c)
Worker == AdmitBegin \/ AdmitChild \/ AdmitCommit \/ AdmitVerify
Next ==
    \/ Worker
    \/ \E k \in Calls :
        \/ StartRoot(k) \/ ApproveRoot(k) \/ PumpChildren(k) \/ CallStep(k)
        \/ \E c \in Children : ApproveChild(k, c)
        \/ \E i \in Execs : JobStep(k, i)
    \/ FinalizeTask \/ CancelTask \/ Crash \/ RecoverWait
    \/ \E c \in Children : DenyChild(c)
    \/ \E i \in Execs : DeliverCancel(i) \/ Reconcile(i)
Spec == Init /\ [][Next]_vars
\* Tokio runs what is ready and a Turn ends within its limits.  A host call takes
\* finitely many steps, so it is enough that some step that is ready is taken.
Ready == Worker \/ \E k \in Calls : CallStep(k) \/ \E i \in Execs : JobStep(k, i)
FairSpec == Spec /\ WF_vars(Ready)

----------------------------------------------------------------------------
(* Properties *)

\* The type of every variable
TypeOK ==
    /\ task \in {"Active"} \cup Ended
    /\ att \in [Execs -> Ended \cup {"none", "Running", "Suspended", "RecoveryRequired"}]
    /\ creq \in [Execs -> BOOLEAN] /\ stage \in [Children -> 0..Linked]
    /\ consumed \in [Children -> Ended \cup {"none"}] /\ answer \in {"none", "ok", "error"}
    /\ runs \in [Execs -> 0..1] /\ used \in [calls : 0..cfg.calls, crashes : 0..cfg.crashes]

\* "No child may be driven before the final exact fact": a child has an attempt
\* only when the admission of all of them is committed and every one is linked,
\* whatever stopped the admission worker, the root or the process in between
DrivenAfterAdmission ==
    \A c \in Children : att[c] # "none" => Admitted /\ \A d \in Children : stage[d] = Linked

\* Two pumps over the same children, a crash and any repetition start an
\* execution once: an existing attempt is never run again
RunsOnce == \A i \in Execs : runs[i] <= 1

Physical == {x \in Calls \X Execs : job[x[1]][x[2]] = "run"}
\* What runs at one time fits the host: never more than its bound, nothing
\* beside work that may write, nothing beside a run under a token ceiling, and
\* one child at a time of a serialized admission
RunsFitHost ==
    /\ Cardinality(Physical) <= cfg.bound
    /\ \A x, y \in Physical : x # y =>
        /\ x[2] \in cfg.readers /\ ~cfg.tokens
        /\ x[2] # Root /\ y[2] # Root => ~Serialized /\ x[2] # y[2]

\* A child is driven after its whole admission, once, and beside nothing it may not
\* share the host with, although admission, pumps and crashes interleave freely
ChildRunsSound == TypeOK /\ DrivenAfterAdmission /\ RunsOnce /\ RunsFitHost

\* The root continues only with the join of all its children: each has ended,
\* its exact terminal is consumed, and one that did not complete makes the result
\* an error
RootSeesJoin ==
    answer # "none" =>
        /\ \A c \in Children : att[c] \in Ended /\ consumed[c] = att[c]
        /\ answer = "ok" <=> \A c \in Children : consumed[c] = "Completed"

\* A Task verdict rests on ended invocations: Completed on completed and consumed
\* ones, Failed (without a token ceiling) on terminals of which one failed
VerdictBacked ==
    /\ task = "Completed" => \A i \in Members : att[i] = "Completed" /\ (i # Root => consumed[i] = "Completed")
    /\ task = "Failed" /\ ~cfg.tokens =>
        /\ \A i \in Members : att[i] \in Ended
        /\ \E i \in Members : att[i] # "Completed"

\* Once the Task is over nothing new starts, and only a child that a RootOnly
\* cancellation left alone may continue
OverStartsNothing ==
    [][task # "Active" =>
        /\ runs' = runs /\ consumed' = consumed /\ answer' = answer
        /\ \A i \in Execs : att[i] = "Suspended" /\ att'[i] = "Running" =>
              task = "Cancelled" /\ cfg.policy = "RootOnly" /\ i # Root /\ ~creq[i]]_vars

\* Waiting for gates never blocks for good: every host call returns, also when
\* a waiter ahead of it gives up
CallsReturn == \A k \in Calls : call[k].pc # "idle" ~> call[k].pc = "idle"

\* "Any interruption after the first effect is uncertain unless the complete
\* admission fact is committed": a refusal leaves no child admitted to the Task
RefusalLeavesNothing ==
    adm.out = "denied" /\ ~Admitted => \A c \in Children : ~InTask(c)
=============================================================================
