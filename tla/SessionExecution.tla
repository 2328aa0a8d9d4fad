-------------------------- MODULE SessionExecution --------------------------
(***************************************************************************)
(* One Session of kolyan-server: the concurrent requests of its clients, the *)
(* coordinator's set of active executions, the lifecycle facts each Turn has *)
(* in the ledger, and the Session record of kolyan-storage.                 *)
(*                                                                         *)
(* Every read or write of the ledger, of the Session file and of the active *)
(* set is a step of its own unless the code holds a lock or a transaction   *)
(* over several.  A Turn and its Execution are one identity.  A run of      *)
(* DurableTurnDriver is reduced to the lifecycle facts it publishes; a      *)
(* checkpoint has one approval; TurnTimedOut counts as TurnFailed.  The     *)
(* SessionCommitPrepared fact of a commit is part of its update step: whoever *)
(* commits a status prepares the same messages, so it decides nothing.  The *)
(* process may die at any step: its requests and its active set are gone,   *)
(* ledger and Session file remain.                                          *)
(***************************************************************************)
EXTENDS Naturals, Sequences, FiniteSets

CONSTANTS
    Turns,          \* Turns clients may start
    Callers,        \* slots for requests being served
    MaxCheckpoint,  \* bound: tool batches of a Turn
    Limits,         \* bounds a behaviour may have: facts[t], the lifecycle facts after which
                    \* Turn t must end (0: not started), crashes, deaths of the process, and
                    \* requests, those served at the same time
    Null

ASSUME SessionAssumption ==
    /\ MaxCheckpoint \in Nat
    /\ Limits \subseteq [facts : [Turns -> Nat], crashes : Nat, requests : Nat]
    /\ Null \notin Turns

VARIABLES
    log,        \* log[t]: the execution's lifecycle facts in cursor order
    decision,   \* decision[t][n]: ApprovalResolved of checkpoint n's approval, or Null
    claimed,    \* Turns whose attempt/start is claimed
    commits,    \* commits[t]: statuses with a SessionCommitted fact
    status,     \* SessionRecord.turns: the status of each registered Turn, Null otherwise
    input,      \* SessionRecord.inputs: history_len of each registered Turn
    messages,   \* SessionRecord.messages: the Turns whose messages were appended
    version,    \* SessionRecord.version
    active,     \* ExecutionCoordinator.active
    call,       \* call[c]: the request caller c is serving
    limit,      \* the bounds of this behaviour
    crashes

facts == <<log, decision, claimed, commits>>
record == <<status, input, messages, version>>
vars == <<facts, record, active, call, limit, crashes>>

Statuses == {"Running", "Suspended", "Completed", "Cancelled", "Failed"}
Closed == {"Completed", "Cancelled", "Failed"}

\* What is absent is no status and no decision.
ASSUME NullAssumption == Null \notin Statuses \cup {"approve", "deny"}

CheckpointKinds == {"TurnCheckpointPrepared", "TurnCheckpointMerged", "ExecutionSuspended"}
TerminalKinds == {"TurnCompleted", "TurnCancelled", "TurnFailed"}
Kinds == CheckpointKinds \cup TerminalKinds
         \cup {"ExecutionStarted", "ExecutionCancelled", "EffectUncertain"}

\* A checkpoint's approval has not been requested, is requested or is confirmed.
Approvals == {"none", "asked", "confirmed"}

Fact == [kind : Kinds, cp : 0..MaxCheckpoint, approval : Approvals]

Ops == {"start", "resume", "resume_approval", "resume_committed", "deny", "cancel", "load"}

\* One request: its operation, where it is, and the values it read earlier: the
\* Session version, the suspension, the resume input, the execution state, and
\* what it has to commit.
Request ==
    [op : Ops \cup {"idle"},
     pc : {"idle", "begin", "start", "started", "load", "state", "admit", "claim", "decide", "verify",
           "merge", "enter", "drive", "completing", "fail", "persist", "release", "drop", "result", "reject",
           "cancel", "append", "uncage", "close", "reconcile", "update", "commit"},
     turn : Turns \cup {Null}, version : Nat, cp : 0..MaxCheckpoint, approval : Approvals,
     with : {"approval", "external", "none"}, seen : Statuses \cup {"New"},
     result : {"error", "suspended", "completed"}, status : Statuses]

Idle == [op |-> "idle", pc |-> "idle", turn |-> Null, version |-> 0, cp |-> 0,
         approval |-> "none", with |-> "none", seen |-> "New", result |-> "error",
         status |-> "Running"]

----------------------------------------------------------------------------
(* What the ledger says *)

Published(t) == {log[t][i].kind : i \in DOMAIN log[t]}
FirstOf(S) == CHOOSE i \in S : \A j \in S : i <= j
LastOf(S) == CHOOSE i \in S : \A j \in S : j <= i
Where(t, kinds) == {i \in DOMAIN log[t] : log[t][i].kind \in kinds}

StateOf(kind) ==
    CASE kind \in {"ExecutionStarted", "TurnCheckpointPrepared", "TurnCheckpointMerged"} -> "Running"
      [] kind = "ExecutionSuspended" -> "Suspended"
      [] kind \in {"ExecutionCancelled", "TurnCancelled"} -> "Cancelled"
      [] kind = "TurnCompleted" -> "Completed"
      [] kind \in {"TurnFailed", "EffectUncertain"} -> "Failed"

\* The first terminal fact decides; before one, the latest fact does.  A saved
\* checkpoint is not a stopped execution while the coordinator owns work.
State(t) ==
    LET ends == {i \in DOMAIN log[t] : StateOf(log[t][i].kind) \in Closed}
        ledger == IF log[t] = <<>> THEN "New"
                  ELSE StateOf(log[t][IF ends # {} THEN FirstOf(ends) ELSE Len(log[t])].kind)
    IN  IF ledger = "Suspended" /\ t \in active THEN "Running" ELSE ledger

terminal_status(t) ==
    LET ends == Where(t, TerminalKinds) IN
    IF ends = {} THEN Null ELSE StateOf(log[t][FirstOf(ends)].kind)

verified_execution_cancellation(t) ==
    "ExecutionCancelled" \in Published(t) /\ State(t) = "Cancelled"

\* The status a stopped Turn is repaired to, or Null.
Recoverable(t) ==
    CASE terminal_status(t) # Null -> terminal_status(t)
      [] terminal_status(t) = Null /\ verified_execution_cancellation(t) -> "Cancelled"
      [] terminal_status(t) = Null /\ ~verified_execution_cancellation(t) ->
            IF State(t) = "Suspended" THEN "Suspended" ELSE Null

\* The latest compound checkpoint: load_current_suspension.
Saved(t) == Where(t, CheckpointKinds)
Current(t) == log[t][LastOf(Saved(t))]

check_resumable(t) == Published(t) \cap (TerminalKinds \cup {"ExecutionCancelled"}) = {}

Checkpoint(kind, n, approval) == [kind |-> kind, cp |-> n, approval |-> approval]
Bare(kind) == Checkpoint(kind, 0, "none")

append(t, fact) == log' = [log EXCEPT ![t] = Append(@, fact)]
AppendOnce(t, kind) == IF kind \in Published(t) THEN UNCHANGED log ELSE append(t, Bare(kind))
Cancelled(t) == "ExecutionCancelled" \in Published(t)

----------------------------------------------------------------------------
(* Steps of a request *)

At(c, pc) == call[c].pc = pc
Goto(c, pc) == call' = [call EXCEPT ![c].pc = pc]
Return(c) == call' = [call EXCEPT ![c] = Idle]

Receive(op, t, pc) == [Idle EXCEPT !.op = op, !.turn = t, !.pc = pc]

\* ExecutionService returned an error before admission: no guard exists.
Refused(c) ==
    IF call[c].op = "deny" THEN Return(c)
    ELSE call' = [call EXCEPT ![c] = Receive(call[c].op, call[c].turn, "result")]

\* After admission the guard drops; start and resume also release explicitly.
Leave(c, result) ==
    call' = [call EXCEPT ![c] = [Receive(call[c].op, call[c].turn, "drop") EXCEPT
                                    !.result = result,
                                    !.pc = IF call[c].op \in {"start", "resume"} THEN "release" ELSE @]]

\* The request goes on to commit_session.
Commit(c, s) ==
    call' = [call EXCEPT ![c] = [Receive(call[c].op, call[c].turn, "update") EXCEPT !.status = s]]

Fails(c, pc, end) == call' = [call EXCEPT ![c].pc = pc, ![c].status = end]

Reads == UNCHANGED <<facts, record, active, limit, crashes>>
Writes == UNCHANGED <<decision, claimed, commits, record, active, limit, crashes>>


\* SessionExecutionService::start reads the Session it will extend, then awaits
\* the preparation hook.
start(c, t) ==
    /\ At(c, "idle") /\ limit.facts[t] > 0
    /\ call' = [call EXCEPT ![c] = [Receive("start", t, "begin") EXCEPT !.version = version]]
    /\ Reads

Open(t) == status[t] \in {"Running", "Suspended"}

\* Mutant of NoOpenTurn: a suspended Turn does not keep the Session.
NoRunningTurn == \A t \in Turns : status[t] # "Running"

NoOpenTurn == \A t \in Turns : ~Open(t)

\* FileSessionStore::begin, under its lock: no duplicate, no open Turn, and the
\* version the history was read at.
begin_turn(c) ==
    LET t == call[c].turn IN
    /\ At(c, "begin")
    /\ status[t] = Null /\ NoOpenTurn /\ version = call[c].version
    /\ status' = [status EXCEPT ![t] = "Running"]
    /\ input' = [input EXCEPT ![t] = Len(messages)]
    /\ version' = version + 1
    /\ call' = [call EXCEPT ![c] = Receive("start", t, "start")]
    /\ UNCHANGED <<facts, messages, active, limit, crashes>>

\* begin_turn conflicts, the preparation hook fails or the deadline has passed.
begin_refused(c) == At(c, "begin") /\ Return(c) /\ Reads

coordinator_start(c) ==
    /\ At(c, "start")
    /\ \/ State(call[c].turn) = "New" /\ Goto(c, "started")
       \/ Refused(c)
    /\ Reads

append_started(c) ==
    /\ At(c, "started")
    /\ AppendOnce(call[c].turn, "ExecutionStarted")
    /\ Goto(c, "admit")
    /\ Writes

\* Coordinator::admit and the operation's next await.
admit(c) ==
    LET t == call[c].turn IN
    /\ At(c, "admit")
    /\ \/ /\ t \in active /\ Refused(c) /\ UNCHANGED active
       \/ /\ t \notin active
          /\ active' = active \cup {t}
          /\ Goto(c, CASE call[c].op = "start" -> "claim"
                       [] call[c].op \in {"resume_approval", "deny"} -> "decide"
                       [] call[c].op \in {"resume", "resume_committed"} -> "verify")
    /\ UNCHANGED <<facts, record, limit, crashes>>

\* DurableTurnDriver::start: the attempt is claimed once, or the deadline refuses.
claim(c) ==
    LET t == call[c].turn IN
    /\ At(c, "claim")
    /\ \/ /\ t \notin claimed /\ claimed' = claimed \cup {t} /\ Goto(c, "drive")
       \/ Leave(c, "error") /\ UNCHANGED claimed
    /\ UNCHANGED <<log, decision, commits, record, active, limit, crashes>>

----------------------------------------------------------------------------
(* Requests about a suspended Turn *)

\* resume_messages: the Session agrees that the Turn waits, on unchanged history.
Waiting(t, allowed) ==
    /\ status[t] \in allowed
    /\ Len(messages) = input[t]
    /\ Saved(t) # {}

resume_approval(c, t) ==
    /\ At(c, "idle") /\ Len(log[t]) < limit.facts[t]
    /\ Waiting(t, {"Suspended"})
    /\ call' = [call EXCEPT ![c] = Receive("resume_approval", t, "load")]
    /\ Reads

resume(c, t, with) ==
    /\ At(c, "idle") /\ Len(log[t]) < limit.facts[t]
    /\ Waiting(t, {"Suspended"})
    /\ call' = [call EXCEPT ![c] = [Receive("resume", t, "load") EXCEPT
                                        !.cp = Current(t).cp, !.with = with]]
    /\ Reads

resume_committed(c, t) ==
    /\ At(c, "idle") /\ Len(log[t]) < limit.facts[t]
    /\ Waiting(t, {"Suspended", "Running"})
    /\ call' = [call EXCEPT ![c] = [Receive("resume_committed", t, "load") EXCEPT
                                        !.cp = Current(t).cp]]
    /\ Reads

deny(c, t) ==
    /\ At(c, "idle")
    /\ status[t] = "Suspended" /\ State(t) = "Suspended"
    /\ call' = [call EXCEPT ![c] = Receive("deny", t, "load")]
    /\ Reads

\* What each operation requires of the suspension it loads.
Acceptable(c, saved) ==
    LET r == call[c] IN
    CASE r.op = "resume_approval"  -> TRUE
      [] r.op = "deny"             -> saved.approval = "asked"
      [] r.op = "resume"           -> /\ saved.cp = r.cp
                                      /\ r.with = "approval" =>
                                            /\ saved.approval # "none"
                                            /\ decision[r.turn][saved.cp] = "approve"
      [] r.op = "resume_committed" -> saved.cp = r.cp /\ saved.kind # "ExecutionSuspended"

\* load_suspension, load_current_suspension: the value is kept over the admission.
load_suspension(c) ==
    LET saved == Current(call[c].turn) IN
    /\ At(c, "load")
    /\ \/ /\ Acceptable(c, saved)
          /\ call' = [call EXCEPT ![c].cp = saved.cp, ![c].approval = saved.approval,
                                  ![c].pc = IF call[c].op = "deny" THEN "admit" ELSE "state"]
       \/ ~Acceptable(c, saved) /\ Refused(c)
    /\ Reads

check_state(c) ==
    LET allowed == IF call[c].op = "resume_committed" THEN {"Running", "Suspended"}
                   ELSE {"Suspended"} IN
    /\ At(c, "state")
    /\ \/ State(call[c].turn) \in allowed /\ Goto(c, "admit")
       \/ State(call[c].turn) \notin allowed /\ Refused(c)
    /\ Reads

\* Mutant of decide: the event id also names the decision.
decide_by_kind(c) ==
    LET t == call[c].turn IN
    /\ At(c, "decide")
    /\ \/ /\ call[c].approval # "none" /\ ~Cancelled(t)
          /\ decision' = [decision EXCEPT ![t][call[c].cp] =
                             IF call[c].op = "deny" THEN "deny" ELSE "approve"]
          /\ Goto(c, IF call[c].op = "deny" THEN "reject" ELSE "verify")
       \/ Leave(c, "error") /\ UNCHANGED decision
    /\ UNCHANGED <<log, claimed, commits, record, active, limit, crashes>>

\* record_approval_decision: one event id per approval, so a different decision is
\* a conflict; an approval that is not pending or has expired is refused.
decide(c) ==
    LET t == call[c].turn
        wanted == IF call[c].op = "deny" THEN "deny" ELSE "approve"
        found == decision[t][call[c].cp]
    IN
    /\ At(c, "decide")
    /\ \/ /\ call[c].approval # "none"
          /\ found = wanted \/ (found = Null /\ ~Cancelled(t))
          /\ decision' = [decision EXCEPT ![t][call[c].cp] = wanted]
          /\ Goto(c, IF call[c].op = "deny" THEN "reject" ELSE "verify")
       \/ Leave(c, "error") /\ UNCHANGED decision
    /\ UNCHANGED <<log, claimed, commits, record, active, limit, crashes>>

\* deny_validated's terminal fact; its id conflicts with an earlier denial.
reject(c) ==
    LET t == call[c].turn IN
    /\ At(c, "reject")
    /\ \/ /\ ~Cancelled(t)
          /\ AppendOnce(t, "TurnFailed")
          /\ Commit(c, "Failed")
       \/ /\ Cancelled(t) \/ "TurnFailed" \in Published(t)
          /\ Leave(c, "error") /\ UNCHANGED log
    /\ Writes

\* The merge needs no input: resume_committed, or a confirmation merged before.
Merged(c) ==
    \/ call[c].op = "resume_committed"
    \/ call[c].op = "resume_approval" /\ call[c].approval = "confirmed"

\* DurableTurnDriver::resume and resume_committed up to the merge.
verify(c) ==
    LET t == call[c].turn
        saved == Current(t)
        byApproval == ~Merged(c) /\ call[c].with # "external"
    IN
    /\ At(c, "verify")
    /\ \/ /\ check_resumable(t) /\ saved.cp = call[c].cp
          /\ byApproval => decision[t][saved.cp] = "approve" /\ saved.approval = "asked"
          /\ call' = [call EXCEPT ![c].pc = "merge",
                                  ![c].approval = IF byApproval THEN "confirmed" ELSE saved.approval]
       \/ Leave(c, "error")
       \/ ~Merged(c) /\ check_resumable(t) /\ Fails(c, "persist", "Failed")
    /\ Reads

\* commit_merged: atomic_publication of the merged checkpoint.  Its own check_resumable
\* repeats verify's; the append is refused by a saved cancellation only.
commit_merged(c) ==
    LET t == call[c].turn IN
    /\ At(c, "merge")
    /\ \/ /\ ~Cancelled(t)
          /\ append(t, Checkpoint("TurnCheckpointMerged", call[c].cp, call[c].approval))
          /\ Goto(c, "enter")
       \/ Leave(c, "error") /\ UNCHANGED log
    /\ Writes

drive_checkpoint(c) ==
    /\ At(c, "enter")
    /\ \/ check_resumable(call[c].turn) /\ Goto(c, "drive")
       \/ Leave(c, "error")
    /\ Reads

----------------------------------------------------------------------------
(* The run *)

\* The model asked for tools: the prepared batch is recorded.
record_checkpoint(c) ==
    LET t == call[c].turn IN
    /\ At(c, "drive") /\ ~Cancelled(t)
    /\ call[c].cp < MaxCheckpoint /\ Len(log[t]) < limit.facts[t]
    /\ append(t, Checkpoint("TurnCheckpointPrepared", call[c].cp + 1, "none"))
    /\ call' = [call EXCEPT ![c].cp = @ + 1, ![c].approval = "none"]
    /\ Writes

\* DurableTurnDriver::suspended: on an approval, on external work or on both.
suspended(c) ==
    LET t == call[c].turn IN
    /\ At(c, "drive") /\ call[c].cp > 0 /\ Len(log[t]) < limit.facts[t]
    /\ \/ /\ ~Cancelled(t)
          /\ \E a \in (IF call[c].approval = "none" THEN {"none", "asked"} ELSE {call[c].approval}) :
                append(t, Checkpoint("ExecutionSuspended", call[c].cp, a))
          /\ Leave(c, "suspended")
       \/ Cancelled(t) /\ Leave(c, "error") /\ UNCHANGED log
    /\ Writes

\* Mutant of complete: the Terminal boundary is not fenced by the cancellation.
complete_unfenced(c) ==
    /\ At(c, "drive")
    /\ append(call[c].turn, Bare("TurnCompleted"))
    /\ Goto(c, "completing")
    /\ Writes

\* TurnExecutor::complete admits the Terminal boundary, which is already a TurnCompleted
\* fact: append_unless_cancelled.  A second run that ends for the same reason meets
\* its event id and fails (run_fails), one that ends for another reason does not.
complete(c) ==
    LET t == call[c].turn IN
    /\ At(c, "drive") /\ ~Cancelled(t)
    /\ append(t, Bare("TurnCompleted"))
    /\ Goto(c, "completing")
    /\ Writes

\* It then emits TurnEvent::Completed.  The recorder appends that as a TurnCompleted
\* fact too and looks for no cancellation; if the append fails, so does the run.
emit_completed(c) ==
    /\ At(c, "completing")
    /\ \/ append(call[c].turn, Bare("TurnCompleted")) /\ Leave(c, "completed")
       \/ UNCHANGED log /\ Fails(c, "fail", "Failed")
    /\ Writes

\* DurableTools::uncertain, after which the run fails.
uncertain(c) ==
    /\ At(c, "drive") /\ call[c].cp > 0
    /\ AppendOnce(call[c].turn, "EffectUncertain")
    /\ Fails(c, "fail", "Failed")
    /\ Writes

\* A refused boundary, a failed Step, the deadline, a tool that ends the Turn.
run_fails(c) ==
    /\ At(c, "drive")
    /\ \E end \in {"Failed", "Cancelled"} : Fails(c, "fail", end)
    /\ Reads

EndFact(end) == Bare(IF end = "Cancelled" THEN "TurnCancelled" ELSE "TurnFailed")

\* TurnExecutor::run emits the terminal event; a failed recording is the error then.
emit_terminal(c) ==
    /\ At(c, "fail")
    /\ \/ append(call[c].turn, EndFact(call[c].status)) /\ Goto(c, "persist")
       \/ UNCHANGED log /\ Fails(c, "persist", "Failed")
    /\ Writes

persist_error(c) ==
    LET t == call[c].turn IN
    /\ At(c, "persist")
    /\ IF terminal_status(t) = Null THEN append(t, EndFact(call[c].status)) ELSE UNCHANGED log
    /\ Leave(c, "error")
    /\ Writes

\* The explicit release of start and resume.
release(c) ==
    /\ At(c, "release")
    /\ active' = active \ {call[c].turn}
    /\ Goto(c, "drop")
    /\ UNCHANGED <<facts, record, limit, crashes>>

\* Drop for ExecutionGuard.
drop(c) ==
    /\ At(c, "drop")
    /\ active' = active \ {call[c].turn}
    /\ IF call[c].op = "deny" THEN Return(c) ELSE Goto(c, "result")
    /\ UNCHANGED <<facts, record, limit, crashes>>

\* The request's future is dropped while it awaits: the guard drops with it.
abandon(c) ==
    /\ call[c].pc \in {"drive", "verify"}
    /\ active' = active \ {call[c].turn}
    /\ Return(c)
    /\ UNCHANGED <<facts, record, limit, crashes>>

----------------------------------------------------------------------------
(* The Session commit *)

\* commit_result: a stop is committed as it is, an error only if a durable fact
\* failed or cancelled the Turn.
commit_result(c) ==
    LET t == call[c].turn
        ended == IF terminal_status(t) # Null THEN terminal_status(t)
                 ELSE IF verified_execution_cancellation(t) THEN "Cancelled" ELSE Null
    IN
    /\ At(c, "result")
    /\ CASE call[c].result = "suspended" -> Commit(c, "Suspended")
         [] call[c].result = "completed" -> Commit(c, "Completed")
         [] call[c].result = "error" -> IF ended \in {"Failed", "Cancelled"}
                                        THEN Commit(c, ended) ELSE Return(c)
    /\ Reads

\* commit_session returns; deny still holds its guard.
Committed(c) == IF call[c].op = "deny" THEN Leave(c, "error") ELSE Return(c)

\* Mutant of MayUpdate: a terminal commit may change.
MayAlwaysUpdate(t) == TRUE

MayUpdate(t) == Open(t)

\* update_turn_with_context, under the store's lock: an identical commit is repeated,
\* another one cannot change a terminal Turn.
update_turn(c) ==
    LET t == call[c].turn
        s == call[c].status
    IN
    /\ At(c, "update")
    /\ \/ status[t] = s /\ Goto(c, "commit") /\ UNCHANGED record
       \/ /\ status[t] # s /\ MayUpdate(t)
          /\ status' = [status EXCEPT ![t] = s]
          /\ messages' = IF s = "Completed" THEN Append(messages, t) ELSE messages
          /\ version' = version + 1
          /\ Goto(c, "commit")
          /\ UNCHANGED input
       \/ /\ status[t] # s /\ ~MayUpdate(t)
          /\ Committed(c)
          /\ UNCHANGED record
    /\ UNCHANGED <<facts, active, limit, crashes>>

confirm_commit(c) ==
    /\ At(c, "commit")
    /\ commits' = [commits EXCEPT ![call[c].turn] = @ \cup {call[c].status}]
    /\ Committed(c)
    /\ UNCHANGED <<log, decision, claimed, record, active, limit, crashes>>

\* Mutant of load_reconciled: a Turn shown as Running is left to its run.
load_suspended(c, t) ==
    /\ At(c, "idle")
    /\ status[t] = "Suspended" /\ t \notin active
    /\ call' = [call EXCEPT ![c] = Receive("load", t, "reconcile")]
    /\ Reads

\* load_reconciled passes over the Turns that are active when it looks.
load_reconciled(c, t) ==
    /\ At(c, "idle")
    /\ status[t] # Null /\ t \notin active
    /\ call' = [call EXCEPT ![c] = Receive("load", t, "reconcile")]
    /\ Reads

\* The facts are read after the active set.  They are committed unless the Session
\* already shows them (committing again what it shows changes nothing).
reconcile(c) ==
    LET t == call[c].turn
        s == Recoverable(t)
    IN
    /\ At(c, "reconcile")
    /\ IF s = Null \/ (s = status[t] /\ s \in commits[t]) THEN Return(c) ELSE Commit(c, s)
    /\ Reads

----------------------------------------------------------------------------
(* Cancellation *)

\* SessionExecutionService::cancel remembers the state it saw.
cancel(c, t) ==
    /\ At(c, "idle") /\ status[t] # Null
    /\ call' = [call EXCEPT ![c] = [Receive("cancel", t, "cancel") EXCEPT !.seen = State(t)]]
    /\ Reads

\* Coordinator::cancel: nothing for a terminal execution.
check_cancel(c) ==
    /\ At(c, "cancel")
    /\ Goto(c, IF State(call[c].turn) \in Closed THEN "close" ELSE "append")
    /\ Reads

append_cancelled(c) ==
    /\ At(c, "append")
    /\ AppendOnce(call[c].turn, "ExecutionCancelled")
    /\ Goto(c, "uncage")
    /\ Writes

release_cancelled(c) ==
    /\ At(c, "uncage")
    /\ active' = active \ {call[c].turn}
    /\ Goto(c, "close")
    /\ UNCHANGED <<facts, record, limit, crashes>>

\* Only a Turn seen suspended is closed here; a running one closes itself.
close_cancelled(c) ==
    /\ At(c, "close")
    /\ \/ /\ call[c].seen = "Suspended"
          /\ AppendOnce(call[c].turn, "TurnCancelled")
          /\ Commit(c, "Cancelled")
       \/ /\ call[c].seen # "Suspended"
          /\ Return(c) /\ UNCHANGED log
    /\ Writes

----------------------------------------------------------------------------
\* The process dies and is started again.
crash ==
    /\ crashes < limit.crashes
    /\ \E c \in Callers : ~At(c, "idle")
    /\ crashes' = crashes + 1
    /\ active' = {}
    /\ call' = [c \in Callers |-> Idle]
    /\ UNCHANGED <<facts, record, limit>>

Init ==
    /\ log = [t \in Turns |-> <<>>]
    /\ decision = [t \in Turns |-> [n \in 1..MaxCheckpoint |-> Null]]
    /\ claimed = {}
    /\ commits = [t \in Turns |-> {}]
    /\ status = [t \in Turns |-> Null]
    /\ input = [t \in Turns |-> 0]
    /\ messages = <<>>
    /\ version = 0
    /\ active = {}
    /\ call = [c \in Callers |-> Idle]
    /\ limit \in Limits
    /\ crashes = 0

Ask(c) ==
    /\ Cardinality({d \in Callers : ~At(d, "idle")}) < limit.requests
    /\ \E t \in Turns :
        \/ start(c, t)
        \/ resume_approval(c, t)
        \/ \E with \in {"approval", "external"} : resume(c, t, with)
        \/ resume_committed(c, t)
        \/ deny(c, t)
        \/ cancel(c, t)
        \/ load_reconciled(c, t)

Admission(c) ==
    \/ begin_turn(c) \/ begin_refused(c) \/ coordinator_start(c) \/ append_started(c)
    \/ load_suspension(c) \/ check_state(c) \/ admit(c) \/ claim(c)
    \/ decide(c) \/ reject(c) \/ verify(c) \/ commit_merged(c) \/ drive_checkpoint(c)

Run(c) ==
    \/ record_checkpoint(c) \/ suspended(c) \/ complete(c) \/ emit_completed(c)
    \/ uncertain(c) \/ run_fails(c) \/ emit_terminal(c) \/ persist_error(c)

Finish(c) ==
    \/ release(c) \/ drop(c) \/ commit_result(c)
    \/ update_turn(c) \/ confirm_commit(c) \/ reconcile(c)
    \/ check_cancel(c) \/ append_cancelled(c) \/ release_cancelled(c) \/ close_cancelled(c)

Serve(c) == Admission(c) \/ Run(c) \/ Finish(c)

Next ==
    \/ \E c \in Callers : Ask(c) \/ Serve(c) \/ abandon(c)
    \/ crash

Spec == Init /\ [][Next]_vars

\* A request that was received is served, and clients keep loading the Session.
FairSpec ==
    /\ Spec
    /\ \A c \in Callers : WF_vars(Serve(c))
    /\ \A t \in Turns : SF_vars(\E c \in Callers : load_reconciled(c, t))

----------------------------------------------------------------------------
(* Properties *)

\* Every variable stays in its type: a fact, request or status of another shape
\* would be a payload the readers of the ledger reject.
TypeOK ==
    /\ log \in [Turns -> Seq(Fact)]
    /\ decision \in [Turns -> [1..MaxCheckpoint -> {"approve", "deny", Null}]]
    /\ claimed \subseteq Turns
    /\ commits \in [Turns -> SUBSET Statuses]
    /\ status \in [Turns -> Statuses \cup {Null}]
    /\ input \in [Turns -> Nat]
    /\ messages \in Seq(Turns)
    /\ version \in Nat
    /\ active \subseteq Turns
    /\ call \in [Callers -> Request]
    /\ limit \in Limits
    /\ crashes \in 0..limit.crashes

\* Only a durable fact closes a Turn in the Session, and the conversation holds
\* the messages of exactly the Turns it shows as Completed, each once, whoever
\* commits: the run's own request, a denial, a cancellation or a repair.
SessionBacked ==
    /\ TypeOK
    /\ \A t \in Turns :
        /\ status[t] = "Completed" => "TurnCompleted" \in Published(t)
        /\ status[t] = "Failed" => "TurnFailed" \in Published(t)
        /\ status[t] = "Cancelled" =>
              Published(t) \cap {"TurnCancelled", "ExecutionCancelled"} # {}
        /\ (status[t] = "Completed") = (\E i \in DOMAIN messages : messages[i] = t)
    /\ \A i, j \in DOMAIN messages : messages[i] = messages[j] => i = j

\* The history an open Turn was started on does not change under it: what
\* resume_messages compares by length is the history the Turn was prepared with.
HistoryStable == \A t \in Turns : Open(t) => Len(messages) = input[t]

\* An approval is decided once: a checkpoint whose approval was denied is never
\* merged as confirmed, whichever of the racing requests was admitted first.
DecisionExclusive ==
    \A t \in Turns : \A i \in DOMAIN log[t] :
        log[t][i].kind = "TurnCheckpointMerged" /\ log[t][i].approval = "confirmed" =>
            decision[t][log[t][i].cp] = "approve"

\* A saved cancellation is not overtaken: no run prepares, merges or suspends behind
\* it, and a Turn that completes in the ledger or in the Session was admitted to
\* complete before it.  (The Completed event of such a run may stand behind it.)
CancelNotOvertaken ==
    \A t \in Turns : \A i \in Where(t, {"ExecutionCancelled"}) :
        /\ \A j \in Where(t, CheckpointKinds) : j < i
        /\ "TurnCompleted" \in Published(t) \/ status[t] = "Completed" =>
              \E k \in Where(t, {"TurnCompleted"}) : k < i

\* A terminal fact reaches the Session: whatever died or was dropped between the
\* fact and the commit, a client that keeps loading the Session sees the Turn closed.
TerminalReachesSession ==
    \A t \in Turns :
        (status[t] # Null /\ terminal_status(t) # Null) ~> (status[t] \in Closed)

\* The Session shows the Turn's first terminal fact: a Turn that completed before
\* anything else ended it is not shown as cancelled or failed.
CompletedFactWins ==
    \A t \in Turns : status[t] \in Closed /\ terminal_status(t) = "Completed" =>
        status[t] = "Completed"

=============================================================================
