----------------------------- MODULE TaskReducer -----------------------------
(***************************************************************************)
(* The pure Task reducer (kolyan-server/src/tasks/reducer*, budget.rs,     *)
(* goals/transitions.rs): the snapshot of one Task and, for every TaskEvent,*)
(* the condition under which `apply` accepts it and the snapshot it        *)
(* returns.  The coordinator replays the Task stream through `apply` and   *)
(* appends a fact only if `apply` accepts it, so a definition here is both *)
(* admission and replay.                                                   *)
(*                                                                         *)
(* Identities are abstract: an attempt determines its invocation and its   *)
(* execution (AttemptBinding), so a command that quotes another binding,   *)
(* digest or revision is one that is refused and changes nothing.          *)
(***************************************************************************)
EXTENDS Integers, Sequences, FiniteSets, SequencesExt

CONSTANTS Invocations,   \* invocation identities
          Root,          \* the invocation admitted with role Root
          Parent,        \* [Invocations \ {Root} -> Invocations]
          Continuations, \* the invocations admitted with role Continuation
          Attempts,      \* attempt identities
          Owner          \* [Attempts -> Invocations]: binding.invocation_id

ASSUME TopologyAssumption ==
    /\ Root \in Invocations
    /\ Parent \in [Invocations \ {Root} -> Invocations]
    /\ Continuations \subseteq Invocations \ {Root}
    /\ Owner \in [Attempts -> Invocations]
    /\ Attempts # {} /\ IsFiniteSet(Attempts)

Ended == {"completed", "failed", "cancelled"}           \* TaskState::is_terminal
Stopped == {"Completed", "Failed", "Cancelled"}         \* a terminal InvocationState
Stoppable == {"Running", "RecoveryRequired", "Suspended"}

InvStates == {"none", "Admitted"} \cup Stopped \cup Stoppable
TaskStates == Ended \cup {"ready", "active", "waiting", "recovery"}
Outcomes == Stopped \cup {"Suspended", "RecoveryRequired"}

(***************************************************************************)
(* The snapshot.  Its definition: the cancellation policy, whether there is *)
(* a Goal criterion, the limits (tokens = 0 for None) and the Step policy   *)
(* the host may configure (steps = 0: none).                               *)
(* An invocation: its state, its attempts in order, its                    *)
(* dependencies, the results it consumed (the child's disposition), whether*)
(* terminal_fact is set, and the cancellation request.  An attempt: its    *)
(* state, the cursor and outcome of its last observation, the checkpoint it *)
(* waits at, and the two flags.                                            *)
(***************************************************************************)
NewInvocation == [state |-> "none", attempts |-> <<>>, deps |-> {},
                  consumed |-> [j \in Invocations |-> "no"],
                  terminal |-> FALSE, cancelled |-> FALSE]

NewAttempt == [state |-> "none", cursor |-> 0, outcome |-> "none",
               checkpoint |-> 0, cancelled |-> FALSE, retry |-> FALSE]

Definition == [policy : {"All", "RootOnly"}, goal : BOOLEAN, tokens : Nat, steps : Nat,
               maxInvocations : Nat, maxAttempts : Nat, maxDepth : Nat, maxSteps : Nat \ {0}]

Registered(def) == [def |-> def, state |-> "ready",
               inv |-> [i \in Invocations |-> NewInvocation],
               att |-> [a \in Attempts |-> NewAttempt],
               used |-> 0,
               budgeted |-> FALSE, reserved |-> [a \in Attempts |-> 0],
               goal |-> "none"]

Admitted(t) == {i \in Invocations : t.inv[i].state # "none"}
Started(t) == {a \in Attempts : t.att[a].state # "none"}
IsOpen(t) == t.state \notin Ended
Latest(t, i) == Last(t.inv[i].attempts)
IsLatest(t, a) == t.inv[Owner[a]].attempts # <<>> /\ Latest(t, Owner[a]) = a

----------------------------------------------------------------------------
(* Topology *)

\* dependencies plus the children this invocation called (not continuations)
RequiredResults(t, i) ==
    t.inv[i].deps \cup
    {j \in Admitted(t) \ ({Root} \cup Continuations) : Parent[j] = i}

HasConsumed(t, i, j) == t.inv[i].consumed[j] # "no"
Pending(t, i) == {j \in RequiredResults(t, i) : ~HasConsumed(t, i, j)}

\* depth-first search along dependencies only
Reaches(t, from, target) ==
    LET hop[n \in 0..Cardinality(Invocations)] ==
            IF n = 0 THEN {from}
            ELSE hop[n - 1] \cup UNION {t.inv[i].deps : i \in hop[n - 1]}
    IN  target \in hop[Cardinality(Invocations)]

\* the calls between an invocation and the root; a continuation adds none
Depth[i \in Invocations] ==
    IF i = Root THEN 0
    ELSE Depth[Parent[i]] + (IF i \in Continuations THEN 0 ELSE 1)

CanAdmit(t, i, deps) ==
    /\ IsOpen(t)
    /\ t.inv[i].state = "none"
    /\ Cardinality(Admitted(t)) < t.def.maxInvocations
    /\ i # Root =>
        /\ Parent[i] \in Admitted(t)
        /\ IF i \in Continuations
           THEN t.inv[Parent[i]].state = "Completed" /\ Parent[i] \in deps
           ELSE t.inv[Parent[i]].state \notin Stopped
        /\ Depth[i] <= t.def.maxDepth
    /\ deps \subseteq Admitted(t)

Admit(t, i, deps) ==
    [t EXCEPT !.inv[i] = [NewInvocation EXCEPT !.state = "Admitted", !.deps = deps]]

CanAddDependency(t, i, j) ==
    /\ IsOpen(t)
    /\ t.inv[i].state \in {"Admitted", "Running", "Suspended"}
    /\ j \in Admitted(t) \ t.inv[i].deps
    /\ ~Reaches(t, j, i)

AddDependency(t, i, j) == [t EXCEPT !.inv[i].deps = @ \cup {j}]

CanConsume(t, i, j) ==
    /\ IsOpen(t)
    /\ i \in Admitted(t) /\ t.inv[i].state \notin Stopped
    /\ j \in Pending(t, i)
    /\ t.inv[j].attempts # <<>>
    /\ t.att[Latest(t, j)].outcome = "Completed"

Consume(t, i, j) == [t EXCEPT !.inv[i].consumed[j] = "Completed"]

\* terminal feedback for the exact latest attempts of the parent and the child
CanConsumeTerminal(t, i, j) ==
    /\ IsOpen(t)
    /\ i \in Admitted(t) /\ t.inv[i].state \notin Stopped
    /\ ~t.inv[i].cancelled
    /\ t.inv[i].attempts # <<>> /\ ~t.att[Latest(t, i)].cancelled
    /\ j \in Pending(t, i)
    /\ t.inv[j].attempts # <<>>
    /\ t.inv[j].terminal
    /\ t.att[Latest(t, j)].outcome \in Stopped

ConsumeTerminal(t, i, j) ==
    [t EXCEPT !.inv[i].consumed[j] = t.att[Latest(t, j)].outcome]

----------------------------------------------------------------------------
(* Budgets *)

Reserved(t) == FoldFunction(LAMBDA x, y : x + y, 0, t.reserved)
Remaining(t) == t.def.steps - Reserved(t)

TokensLeft(t) == t.def.tokens # 0 => t.used < t.def.tokens

CanConfigure(t) == IsOpen(t) /\ ~t.budgeted /\ Started(t) = {}
Configure(t) == [t EXCEPT !.budgeted = TRUE]

\* reserve: a slot is charged with the start and never refunded
CanReserve(t, a, n) ==
    /\ t.budgeted
    /\ n \in 1..t.def.maxSteps
    /\ n <= Remaining(t)
    /\ t.reserved[a] = 0

----------------------------------------------------------------------------
(* Attempts *)

\* mutant: an invocation in recovery may start again without authorization
CanStartInRecovery(t, a) ==
    LET i == Owner[a] IN
    /\ IsOpen(t) /\ t.att[a].state = "none" /\ i \in Admitted(t)
    /\ Cardinality(Started(t)) < t.def.maxAttempts /\ TokensLeft(t)
    /\ t.inv[i].state \in {"Admitted", "RecoveryRequired"}
    /\ \A j \in t.inv[i].deps : HasConsumed(t, i, j)

CanStart(t, a) ==
    LET i == Owner[a] IN
    /\ IsOpen(t)
    /\ t.att[a].state = "none"
    /\ i \in Admitted(t)
    /\ Cardinality(Started(t)) < t.def.maxAttempts
    /\ TokensLeft(t)
    /\ \/ t.inv[i].state = "Admitted"
       \/ t.inv[i].state = "Failed" /\ t.att[Latest(t, i)].retry
    /\ \A j \in t.inv[i].deps : HasConsumed(t, i, j)

\* n = 0 is the unbudgeted AttemptStarted
Start(t, a, n) ==
    [t EXCEPT !.inv[Owner[a]] = [t.inv[Owner[a]] EXCEPT
                                    !.state = "Running", !.terminal = FALSE,
                                    !.attempts = Append(@, a)],
              !.att[a] = [NewAttempt EXCEPT !.state = "Running"],
              !.reserved[a] = n]

CanStartWith(t, a, n) ==
    /\ CanStart(t, a)
    /\ IF n = 0 THEN ~t.budgeted ELSE CanReserve(t, a, n)

\* mutant: an invocation may complete before it has consumed its children
CanObserveEarly(t, a, o) ==
    /\ t.att[a].state \in Stoppable /\ o.cursor > t.att[a].cursor
    /\ t.att[a].state = "Suspended" =>
        o.outcome # "Completed" /\ (o.outcome = "Suspended" => o.checkpoint = t.att[a].checkpoint)

\* o: the observation [cursor, outcome, checkpoint, used]
CanObserve(t, a, o) ==
    /\ t.att[a].state \in Stoppable
    /\ o.cursor > 0
    /\ t.att[a].state = "Suspended" =>
        /\ o.outcome # "Completed"
        /\ o.outcome = "Suspended" => o.checkpoint = t.att[a].checkpoint
    /\ o.cursor > t.att[a].cursor
    /\ o.outcome = "Completed" => Pending(t, Owner[a]) = {}

Overspent(t) == t.def.tokens # 0 /\ t.used > t.def.tokens

Observe(t, a, o) ==
    LET i == Owner[a]
        u == [t EXCEPT
                !.used = @ + o.used,
                !.att[a] = [@ EXCEPT !.state = o.outcome, !.outcome = o.outcome,
                                     !.cursor = o.cursor, !.checkpoint = o.checkpoint],
                !.inv[i] = [t.inv[i] EXCEPT !.state = o.outcome,
                                            !.terminal = @ \/ o.outcome \in Stopped]]
    IN  IF Overspent(u) /\ IsOpen(u) THEN [u EXCEPT !.state = "failed"] ELSE u

\* A terminal Task admits no work, except that under RootOnly a cancelled Task
\* still resumes the non-root attempts it left alone.
CanResume(t, a, checkpoint) ==
    /\ \/ IsOpen(t)
       \/ t.state = "cancelled" /\ t.def.policy = "RootOnly" /\ Owner[a] # Root
    /\ TokensLeft(t)
    /\ t.att[a].state = "Suspended"
    /\ t.att[a].checkpoint = checkpoint
    /\ ~t.att[a].cancelled

Resume(t, a) == [t EXCEPT !.att[a].state = "Running", !.att[a].checkpoint = 0,
                          !.inv[Owner[a]].state = "Running"]

CanMarkRecovery(t, a) == t.att[a].state \in Stoppable
MarkRecovery(t, a) ==
    [t EXCEPT !.att[a].state = "RecoveryRequired", !.att[a].checkpoint = 0,
              !.inv[Owner[a]].state = "RecoveryRequired"]

\* mutant: the cancellation is checked by the driver only
CanAuthorizeRetryStale(t, a, cursor) ==
    /\ t.att[a].state \in {"Failed", "RecoveryRequired"}
    /\ ~t.att[a].retry /\ IsLatest(t, a) /\ cursor > t.att[a].cursor

CanAuthorizeRetry(t, a, cursor) ==
    /\ IsOpen(t)
    /\ t.att[a].state \in {"Failed", "RecoveryRequired"}
    /\ ~t.att[a].cancelled /\ ~t.inv[Owner[a]].cancelled
    /\ ~t.att[a].retry
    /\ IsLatest(t, a)
    /\ t.inv[Owner[a]].state \in {"Failed", "RecoveryRequired"}
    /\ cursor > t.att[a].cursor

AuthorizeRetry(t, a) ==
    [t EXCEPT !.att[a] = [@ EXCEPT !.retry = TRUE, !.state = "Failed", !.checkpoint = 0],
              !.inv[Owner[a]].state = "Failed"]

----------------------------------------------------------------------------
(* Goals and the end of the Task *)

\* assessment_owner and apply_assessment: once, about the completed root
CanAssess(t) ==
    /\ IsOpen(t)
    /\ t.inv[Root].state = "Completed"
    /\ t.att[Latest(t, Root)].outcome = "Completed"
    /\ t.goal = "none"

Assess(t, verdict) == [t EXCEPT !.goal = verdict]

\* every admitted invocation is Completed; with a Goal criterion its
\* assessment is Satisfied
CanComplete(t) ==
    /\ IsOpen(t)
    /\ Root \in Admitted(t)
    /\ \A i \in Admitted(t) : t.inv[i].state = "Completed"
    /\ t.def.goal => t.goal = "satisfied"

Complete(t) == [t EXCEPT !.state = "completed"]

CanEnd(t) == IsOpen(t)
Fail(t) == [t EXCEPT !.state = "failed"]

CancelTask(t) ==
    LET chosen == {i \in Admitted(t) : t.def.policy = "All" \/ i = Root} IN
    [t EXCEPT
        !.inv = [i \in Invocations |->
            IF i \notin chosen THEN t.inv[i]
            ELSE [t.inv[i] EXCEPT !.cancelled = TRUE,
                    !.state = IF @ = "Admitted" THEN "Cancelled" ELSE @]],
        !.att = [a \in Attempts |->
            [t.att[a] EXCEPT !.cancelled = @ \/ (Owner[a] \in chosen /\ a \in Started(t))]],
        !.state = "cancelled"]

\* refresh and refresh_goals: what the Task waits for, and its derived state
Waits(t) ==
    \/ \E a \in Attempts : t.att[a].state \in {"Suspended", "RecoveryRequired"}
    \/ \E i \in Admitted(t) : Pending(t, i) # {}
    \/ t.def.goal /\ t.inv[Root].state = "Completed" /\ t.goal # "satisfied"

Refresh(t) ==
    [t EXCEPT !.state =
        IF t.state \in Ended THEN @
        ELSE IF \E i \in Invocations : t.inv[i].state = "RecoveryRequired" THEN "recovery"
        ELSE IF \E i \in Invocations : t.inv[i].state = "Running" THEN "active"
        ELSE IF Waits(t) THEN "waiting" ELSE "ready"]
=============================================================================
