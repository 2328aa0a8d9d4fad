# Verification of kolyan: durable effects, Turns, Sessions, Tasks and agents

Kolyan is a Rust agent runtime. A client asks the server to run a *Turn* of a
*Session*; the Turn alternates model *Steps* with batches of tool calls; every
tool call is an *effect* whose life is journalled in an append-only ledger so
that a crash never repeats it. A Turn may wait for a person's approval or for
external work, be suspended, and be resumed by another request or by another
process. A *Task* drives attempts of such executions under budgets and retries, and
an agent may delegate to children that run as invocations of the same Task.

This directory holds TLA+ models of that core, written from the code, TLC
configurations that check them on small instances, and TLAPS proofs. Paths below
are relative to the repository.

## The system

| Component | State | Operations | What is hard |
|---|---|---|---|
| Ledger, `crates/kolyan-ledger` | append-only facts with unique event ids; claims; a lease row per execution | `append`, `append_unless_cancelled`, `claim`, `acquire/renew/release_lease` | several writers; an append whose answer is lost; lease expiry |
| Effect journal, `crates/kolyan-runtime/src/driver/{tools,recovery,resume}.rs`, `reconciliation.rs` | per effect: prepared, authorized, started, waiting, receipt, completed/failed, uncertain, decisions | `execute_invocation`, `hydrate_checkpoint`, `reconcile_tool_effect`, `commit_resolution` | four operations compete for the same facts and may be dropped at any await |
| Durable driver, `crates/kolyan-runtime/src/driver.rs`, `driver/` | the Turn's lifecycle facts, the attempt claim | start, resume, resume_committed, cancel | facts published while a cancellation arrives |
| Turn engine, `crates/kolyan-core/src/turn/` | steps, budgets, the pending checkpoint, `TurnControl` | run, resume, merge, reject, cancel, approve | parallel tools, stale approvals, policy changes over a suspension |
| Policy, `crates/kolyan-policy` | rules with a revision | decide, plan stages, issue grants | conflicting claims in parallel stages |
| Coordinator and execution service, `crates/kolyan-server/src/{lib,coordinator,suspension}.rs` | the in-memory active set | start, three resumptions, cancel, approval decisions | check-then-act over the ledger and the active set |
| Session execution and storage, `crates/kolyan-server/src/session_execution.rs`, `crates/kolyan-storage/src/session.rs` | the Session file: Turns, statuses, messages, version | start, resume, deny, cancel, commit, reconcile | the ledger and the file are two commits |
| Model opening, `crates/kolyan-runtime/src/model_opening*` | per process a registry of openings; per Step a durable admission | prepare, admit, generate, prove | the storage worker outlives its Step; acknowledgements are lost |
| Model call, `crates/kolyan-{protocol-*,provider-*}`, `crates/kolyan-core/src/step.rs` | the retry window and report, decoder and block state, the Step | open, retry, poll, aggregate | truncated streams, partial arguments, a stop racing the answer |
| Tasks, `crates/kolyan-server/src/{tasks,task_driver}` | the Task stream: invocations, attempts, budgets, goals | register, admit, start, observe, resume, retry, consume, assess, complete, cancel | the Task stream and the ledger are two stores; crashes fall between them |
| Fact journal, `crates/kolyan-ledger/src/facts*` | streams of facts with causes | compare-and-append, read | an exact retry is no conflict, a changed one is |
| Preparation, `crates/kolyan-server/src/{instance_registry,private_context,tasks/input}.rs`, `crates/kolyan-agent/src/{binding,skills}` | instance registry, bindings, contexts, Skill catalog and selections, input sources | reserve, save, initialize, bind, publish, admit; register, revoke, load | six stores, no transaction over two of them |
| Agent runner, `crates/kolyan-agent/src/runner*` | execution gates, child admissions, consumed results | run, invoke, drive, resume, deny, pump, finalize, cancel | two host calls pump the same children; gates are waited for in order |
| Hosts, tools, sandbox, trace, HTTP service, clients | mostly I/O and values | | process reaping |

Calls go downwards: HTTP -> Session execution -> execution service and
coordinator -> durable driver -> Turn engine -> durable tools -> tool executor,
and from the engine through the Step and the model opening to a provider. The agent
runner calls the Task driver, which calls Session execution. Executions share one
ledger, Tasks and preparation one fact journal; only Session execution and context
initialisation write Sessions.
`TurnControl` is the only in-process channel into a running Turn.

What makes each part correct: an effect is entered at most once, under one
authority, and what the ledger says of it is what happened (journal); a call
runs only when the policy, an approval for exactly this preparation and the
budget allow it, and a run ends or waits for something (engine); the Session
shows exactly what durable facts say, once (Session execution); a lease has one
owner and fences the others (lease); a model generation happens at most once per
Step and only on a durable admission (opening); an answer is what the server
finalised, never what a broken stream had produced so far (model call); a Task keeps
its promise to the caller over crashes of its driver (tasks); a child runs once,
after the whole of its admission, and the root sees the join (delegation); no race
between callers leaves a store or an owner unusable (preparation).

## Modules

| Module | Models | Composition |
|---|---|---|
| `EffectJournal` | the effect journal with the ledger's append rules | |
| `EffectJournalProofs` | TLAPS proofs about it: types, entries, the cancellation fence; what facts, answers and refusals say | extends `EffectJournal` |
| `Lease` | the SQLite execution lease | |
| `LeaseProofs` | TLAPS proofs about it | extends `Lease` |
| `TurnEngine` | the Turn loop of `kolyan-core` with the policy decisions it uses | |
| `TurnEngineProofs` | TLAPS proofs about it | extends `TurnEngine` |
| `SessionExecution` | Session service, execution service, coordinator, Session store, and the lifecycle facts of the driver | |
| `SessionExecutionProofs` | TLAPS proofs about it | extends `SessionExecution` |
| `TaskReducer` | the pure Task reducer: guard and effect of every Task event | |
| `TaskDriver` | coordinator and Task driver over the Task stream and the ledger | extends `TaskReducer` |
| `TaskPromise` | what a Task promises its caller | `TaskDriver` implements it |
| `TaskDriverProofs` | TLAPS proofs: what every snapshot satisfies and which step of the promise each command takes, then the driver and its refinement of `TaskPromise` | extends `TaskDriver` |
| `ModelOpening` | opening attempts, their workers, the proof reader and the Step around them | |
| `ModelOpeningProofs` | TLAPS proofs about it, and about the call that a generation makes | extends `ModelOpening`, `Call == INSTANCE ModelCall` |
| `ModelCall` | HTTP opening and retry, SSE, provider mapping and the Step, for both providers | |
| `Delegation` | admission, gates, pumps, join, cancellation and finalization of children | outcomes of executions as `TaskDriver` has them |
| `DelegationProofs` | TLAPS proofs about it | extends `Delegation` |
| `FactJournal` | the fact journal's append rules, as operators | |
| `SkillCatalog` | the Skill catalog's replay and access rules | extends `FactJournal` |
| `Preparation` | the preparation of an invocation over all its stores | extends `SkillCatalog` |
| `PreparationProofs` | TLAPS proofs about it | extends `Preparation` |
| `MC*` | instances for TLC | extend their module |

`PROJECT.json` maps every definition to the lines it stands for. Definitions
keep the names of the functions they model, in the code's spelling where one
action is one function. Definitions whose comment begins with "Mutant of" or
"mutant:" are wrong variants of the next definition; they are used by no
specification. They are there so that each property can be shown to fail when the
code is changed in a plausible way.

### EffectJournal

`ledger[e][k]` is the fact with id `{execution}/effect/{e}/{k}`, written once.
`actor[a]` is the volatile state of one operation in progress: its program
counter, the binding it carries and the values it read. A step is the code
between two awaits or between two ledger accesses; consecutive reads of facts
that are never rewritten are one step. `world[e]` and `children` are what the
executor really did, `entries[e]` counts entries, `observed` is the hook's own
commit. `AppendOnce`, `AppendUnlessCancelled` and `AtomicPublication` have the
outcomes of the code's three ways to append: stored, identical, conflict,
cancelled, failed, and failed although stored. `Abandon` drops an operation at
any step (a dropped future or a dead process); its facts stay.

`Gate` says whether calls pass the Core's Tool boundary
(`LedgerBoundaryControl`), `Hooks` whether an effect hook port is installed.
Digests of preparations, scopes and grants are model values: equality is all
the code asks of them. The executor's definite answers (`Completed`, a definite
error) and the reconciler's `Committed`/`NotCommitted` are assumed to be true of
the world; `Uncertain` and `Unknown` may be anything.

### Lease

One row. Each operation is one SQLite statement or transaction. The owner id is
the caller's choice, so two callers may present the same one.

### TurnEngine

One run at a time drives one Turn; a step is the code between two awaits and
what an await returns is chosen nondeterministically. `pending` is the
`TurnCheckpoint` with its calls, approvals, stages and charged counters, `saved`
the copy in the suspension that the host holds. The host may merge approvals and
external results into it, change the policy and resume. `flight` holds the calls
of a dispatched stage, which finish in any order. The whole of
`TurnCheckpoint::validate` is `Valid`; the engine applies it when it resumes.

### SessionExecution

`log[t]` is the sequence of lifecycle facts of a Turn, `status`, `input`,
`messages` and `version` the Session record, `active` the coordinator's set,
`call[c]` a request in progress with the values it read earlier (the Session
version, the suspension, the state that `cancel` saw). A driver run is reduced
to the facts it publishes, in the order in which the driver publishes them.
`crash` empties `call` and `active`.

A completing run publishes `TurnCompleted` twice, and both are modelled: `complete` is
the engine's Terminal boundary, which a saved cancellation refuses
(`append_unless_cancelled`), `emit_completed` the recorder's Completed event behind it
(`engine.rs:292-297`), a plain append. A cancel that read its state before the boundary
may save its intent between the two, so a ledger may read TurnCompleted,
ExecutionCancelled, TurnCompleted. The first terminal fact decides, and the Turn counts as
completed; `CancelNotOvertaken` therefore asks that the *first* completion of a Turn
precedes the cancellation, and that no checkpoint fact follows it.

`limit` is chosen in the initial state and never changes: it bounds the facts
after which a Turn must end, the deaths of the process and the number of
concurrent requests. One run thus explores several shapes: deep with one Turn,
shallow with two, and long sequences with one request at a time. `TurnEngine`,
`ModelCall`, `Delegation` and `Preparation` do the same with a configuration.

### TaskReducer, TaskDriver and TaskPromise

`TaskReducer` has, for each `TaskEvent`, the condition under which `apply` accepts it
(`CanStart`, `CanObserve`, ...) and the snapshot it returns. The coordinator appends
a fact only if `apply` accepts it on the replayed stream, under compare-and-set, so in
`TaskDriver` a command is one atomic step on `task`; `facts` holds the fact ids that
make an exact repetition a no-op. `log[a]` is the ledger of an attempt's execution.
A driver call (`drv`) is several steps over both: start and run, observe what
stopped, authorise a retry (proof, a last look at the ledger, then the grant), resume, deliver a cancellation; a
crash ends all calls and empties `active`. `entered` are attempts whose effect really
happened, `Goal` assessment is recomputed from the ledger as the registry does.

`TaskPromise` knows no stores and no driver: attempts begin and stop, the Task ends
once. `KeepsPromise` says that `TaskDriver` implements it under the mapping in
`TaskDriver`: an invocation is live while one of its attempts is running, suspended
or in recovery, the outcome is open until the Task's state is terminal.

### ModelOpening

Several attempts, each with its own registry (`reg`), drive one Turn over one ledger;
the second may be a restart or a second request. The worker (`wrk`) is the blocking
closure the consumer spawns: a stopped Step leaves it behind, and it goes on writing.
The proof reader is `Verified` over the events through an opening, as
`model_opening_proof` walks them. `gen[s]` counts entries of the provider. The
recorder that publishes requests and completions is a port which the repository
implements only in tests; its contract is the one `attempt.rs` states.

### ModelCall

The stack is pulled: a poll of the Step asks the provider, which asks the response
stream, which reads the body when nothing is pending. The server may send any event of
the configuration's alphabet, error statuses with hints, break the connection or end
the stream; `sent` keeps what was put on the wire so that `AnswerFromWire` can compute
the protocol's answer independently of the mapping. Time passes in quanta of 250 ms in
the opening, where the window is compared.

### Delegation

`stage[c]` is how far the admission worker got with a child over its stores, `adm` the
worker and the admission fact. A host call (`call`, with a `job` per execution) starts
or resumes the root, approves or denies a child, or pumps: drive every child through
the task, invocation and host gates (`queue` is the semaphores' FIFO order), join,
resume the root. `Holds` says which permits a job has. A crash takes calls, gates and
worker along; attempts left running are reconciled by the Task service.

### FactJournal, SkillCatalog and Preparation

`journal` maps streams to facts; `AppendOutcome` is the journal's decision in the
code's order: an occupied position answers with its own fact or a conflict before the
head is compared. `Preparation` walks each call through `Path`: reserve, save the
binding, initialise context and Session (children), discover and bind Skills, archive
and publish the input, admit; every step is one store access, any other call may come
between two of them and a crash restarts the call from its beginning.

## What the runs check

| Run | Instance | Checks |
|---|---|---|
| `journal_races` | 1 effect, 2 operations, 2 preparations, 2 grants | `TypeOK`, `AtMostOnceEntry`, `NoEntryAfterCancel` |
| `journal_reconcilers` | 1 effect, 2 operations, 2 reconciliation ids, with hooks | `EvidenceAgrees`, `AnswersBacked` |
| `journal_live` | 2 operations behind the Tool boundary, with hooks, no reconciliation, fair | `RefusalMeansNotEntered`, `OperationsReturn` |
| `turn` | one batch of up to 2 parallel calls with 2 policies, 3 preparations and 2 external waits; and 2 Steps in 3 configurations with a tool budget of 3; fair | `EntriesBounded`, `EntryOrderly`, `OwnCheckpointsValid`, `UncertaintyDominates`, `RunEnds` |
| `lease_owners` | 3 callers, 2 owner ids, clock to 5, ttl 2 | `ExclusiveOwner`, `FencedWhileRowLives` |
| `session_commits` | 4 shapes: 1-2 Turns, 1-2 requests, up to one death | `SessionBacked`, `HistoryStable`, `DecisionExclusive`, `CancelNotOvertaken` |
| `session_repair` | 1 Turn, 2 requests, one death, fair | `TerminalReachesSession` |
| `tasks` | a worker and an operator; one invocation with two attempts, a goal and Step slots, or a parent and child under a token limit | `EffectInOneAttempt`, `CompletionBacked`, `KeepsPromise`, `CancellationSticks` |
| `opening` | 2 attempts with equal or different names, 2 Steps, one death, fair | `GenerationOnce`, `GenerationAdmitted`, `NoGenerationPastUncertain`, `AttemptEnds` |
| `model_call` | 7 configurations of protocol, alphabet (up to 7 events), retries and window; 9 error answers | `AnswerFromWire`, `CallsOfAnswer`, `SendsSound`, `StopWins` |
| `delegation` | 2 children, 2 host calls at once (3-4 in all), 6 configurations, fair | `ChildRunsSound`, `RootSeesJoin`, `VerdictBacked`, `OverStartsNothing`, `CallsReturn` |
| `preparation` | 11 configurations of up to 5 calls, up to 2 crashes | `StoresUsable`, `ReturnedIsSaved`, `RefusalJustified`, `RevocationHolds` |

**Why the bounds are enough for the questions asked.** Effects do not share
facts, so one effect suffices; each race in the journal is between two operations
that meet at one event id, and the second preparation, grant or reconciliation id
is what a wrong guard would let through. Operations are called again and again in
the same slots, so retries are unbounded. In the engine two calls are the least
that conflict, wait for two approvals or fail differently, and a budget of three
is the least that a second full batch exceeds. In the Session model four facts
are the least for suspending, resuming and ending; the second Turn is the least
that could change another's history. `RevisionBound` stops the lease at revision
5; the interesting reuse happens at revision 1. A Task needs two attempts for a retry
and a child for a result; `Bounded` in `MCTaskDriver` keeps retries and effects to the
Task with one invocation and suspensions to one of parent and child. Two openings are
the least that can repeat a name, two Steps the least of which one is passed over.
Seven events are the least for two interleaved Anthropic blocks with a call that
completes; a window of four quanta is the least in which a hint fits once and not
twice. Two children and two pumps are the least that compete for a gate while a third
waits. `MaxCasAttempts` is 2 in place of 32: contention is then reached by two
competing reservations, and nothing else depends on the number.

`CHECK_DEADLOCK FALSE` stands where the modelled part really may stop: a Turn
that has ended, a Session, Task or delegation for which no client asks anything more,
a call or a preparation that has returned.

**Fairness.** `EffectJournal`: an operation that is not dropped is polled again,
and the executor answers or hands over (tokio drives both); calls, drops,
cancellation and the end of external work are free. `TurnEngine`: awaits return
(model, tools, preparations and the deadline are all bounded by the Turn's
window), so the engine's step is weakly fair; the host's actions are not.
`ModelOpening`: the Turn of an attempt that is alive is polled and the absolute
deadline passes; the worker, the provider and the server owe nothing, so
`AttemptEnds` rests on the Step's boundary alone. `Delegation`: some step that is ready
is taken; approvals, new host calls and crashes are free, and executions end, which is
what the Task driver and the Turn's deadline give.
`SessionExecution`: a request that is being served is polled, and clients keep
loading the Session. The last is an assumption about clients: the code has no
background repair, and `load_reconciled` runs only when a client reads. It is
strong because a load meets an active Turn, or finds every slot taken, again and
again.

**Known divergences.** Six properties that a document or a comment of the repository
states do not hold of the code. Each has a configuration of its own under which TLC
finds the counterexample; they are not among the runs, which all pass.

* `MCEffectJournal_observation.cfg`, `ObservedBeforeSuccess`: `hydrate_checkpoint` turns
  a receipt without a committed observation into a completed call; only
  `execute_invocation` verifies it. `docs/requirements/0039-governed-hooks.md:403-406`:
  "Missing, interrupted, foreign or failed observation refuses".
* `MCLease_shared.cfg`, `StaleHandleRefused`: releasing deletes the row, so the revision
  starts again at 1 and is no fencing token between two handles of the same owner id
  (`docs/requirements/0019-sqlite-ledger-and-execution-lease.md:29-44`).
* `MCSessionExecution_stale.cfg`, `CompletedFactWins`: `SessionExecutionService::cancel`
  acts on the state it read before the coordinator's cancel. If another request resumed
  and completed the Turn in between, the Session shows Cancelled, the run's own commit
  is refused and every later load of the Session reports a conflict.
  `session_execution.rs:660`: "Completed facts win elsewhere."
* `MCTaskDriver_usage.cfg`, `UsageCountedOnce`: two concurrent calls of `record_stopped`
  compute the usage since the same earlier observation (`task_driver.rs:614`), and both
  are added (`docs/requirements/0029-durable-task-foundation.md:187`, "cumulative token
  usage").
* `MCTaskDriver_replay.cfg`, `StaysReplayable`: a goal assessment is recomputed at every
  replay of the Task stream under a limit on ledger rows; facts appended after it was
  saved can exceed the limit, and the stream is then refused (`goals/registry.rs:183-195`,
  "deterministic recomputation").
* `MCDelegation_refusal.cfg`, `RefusalLeavesNothing`: a failed journal read in
  `parallel_eligible` (`admission.rs:242`) is a definite refusal although every child is
  admitted by then; `admission.rs:92`: "Any interruption after the first effect is
  uncertain unless the complete admission fact is committed."

By design, and no divergence: a Skill revoked after it was bound and before the input is
published makes exact retries of that preparation refuse.

Two weaknesses have no run, since nothing in the repository promises otherwise:
a death between `EffectUncertain` and `TurnFailed` leaves a Turn that neither
cancel nor reconcile closes; and the release in `start` and `resume` followed by
the guard's own release may remove another request's entry in the active set. The
Session properties are checked with that second driver present and hold.

## What is proved

Every theorem holds for every value of the constants that satisfies the named
assumptions, which TLC evaluates in every run of the module. Invariants marked as
strengthened were first checked by TLC on the instance named with them.

| Module | Theorem | States | Kind |
|---|---|---|---|
| `EffectJournalProofs` | `TypeCorrect` | `[]TypeOK` | invariant |
| | `EnteredAtMostOnce` | `[]AtMostOnceEntry` | invariant |
| | `CancellationFences` | `NoEntryAfterCancel` | action property |
| | `EvidenceAgreement` | `[]EvidenceAgrees` | invariant |
| | `AnswersRestOnFacts` | `[]AnswersBacked` | invariant |
| | `RefusalsAreHonest` | `[]RefusalMeansNotEntered` | invariant |
| `LeaseProofs` | `LeaseIsExclusive` | `[]ExclusiveOwner` | invariant |
| | `RevisionFences` | `FencedWhileRowLives` | action property |
| `SessionExecutionProofs` | `SessionIsBacked` | `[]SessionBacked` | invariant |
| | `HistoryIsStable` | `[]HistoryStable` | invariant |
| | `DecisionIsExclusive` | `[]DecisionExclusive` | invariant |
| | `CancelIsNotOvertaken` | `[]CancelNotOvertaken` | invariant |
| `ModelOpeningProofs` | `GenerationIsOneShot` | `[]GenerationOnce` | invariant |
| | `GenerationIsAdmitted` | `[]GenerationAdmitted` | invariant |
| | `UncertainIsNotPassed` | `NoGenerationPastUncertain` | action property |
| | `SendsAreSound` | `[]SendsSound` of the model call | invariant |
| | `StopIsNotOvertaken` | `StopWins` of the model call | action property |
| `TurnEngineProofs` | `TypeTheorem` | `[]TypeOK`, with the inductive invariant | invariant |
| | `EntriesTheorem` | `[]EntriesBounded` | invariant |
| | `OrderlyTheorem` | `EntryOrderly` | action property |
| | `UncertaintyTheorem` | `UncertaintyDominates` | action property |
| | `OwnCheckpointsTheorem` | `OwnCheckpointsValid` | invariants and an action property |
| `PreparationProofs` | `RevocationTheorem` | `[]RevocationHolds` | invariant |
| | `RefusalTheorem` | `[]RefusalJustified` | invariant |
| | `ReturnedTheorem` | `[]ReturnedIsSaved` | invariant |
| | `StoresTheorem` | `[]StoresUsable` | invariant |
| | `JournalTheorem`, `RegistryTheorem`, `CatalogTheorem`, `AuthorTheorem` | the layers these rest on | invariants |
| `TaskDriverProofs` | `EffectIsInOneAttempt` | `[]EffectInOneAttempt` | invariant |
| | `CompletionIsBacked` | `[]CompletionBacked` | invariant |
| | `CancellationHolds` | `CancellationSticks` | action property |
| | `PromiseIsKept` | `KeepsPromise`: `TaskDriver` implements `TaskPromise` | refinement |
| `DelegationProofs` | `ChildRunsAreSound` | `[]ChildRunsSound` | invariant |
| | `RootSeesTheJoin` | `[]RootSeesJoin` | invariant |
| | `VerdictIsBacked` | `[]VerdictBacked` | invariant |
| | `NothingStartsWhenOver` | `OverStartsNothing` | action property |

### The effect journal

For every set of effects, actors, preparations, grants, outputs and
reconciliation ids, with or without hooks and gate. The proofs rest on
`ConstantsAssumption` (flags are Boolean, `Null` and the words of `world` are no
payload values) and `NullAssumption` (`Null` is no record).

`AtMostOnceEntry` (`entries[e] <= 1`) is not inductive: it does not say who may
enter. `EntryInv` adds that nothing was entered before the started fact exists,
that an actor at `"enter"` is there after the started fact was stored and before
any entry, and that no two actors at `"enter"` have the same effect. The argument
has two parts. All actions but `Start` and `Enter` are *tame*: they leave
`entries` and the started facts alone and put no actor at `"enter"` (one lemma per
action, collected in `StepsTame`). `Start` reaches `"enter"` only through a
successful append of a fact that was absent, which gives the new actor its
exclusivity; `Enter` uses it up. `CancellationFences` follows from the started
append being refused once the cancellation is in the ledger.

`EvidenceAgrees` compares only what is in the ledger. What is about to be written
comes from volatile values that an operation read several steps earlier, so
`EvidenceInv` adds `Claims`: what each program counter knows. An actor about to
write a receipt has the outcome that `world` has; one about to project or answer
holds the stored receipt or its outcome; a decision that says committed names the
receipt of its own reconciliation. `Home` ties a program counter to its operation
(a hydrating actor is never at a reconciler's step). `AnswersBacked` is then a part
of `Claims`. Since facts are never rewritten, a claim about a stored fact survives
every step of another actor, and only the actor's own step must be examined.

`RefusalMeansNotEntered` holds behind the Tool boundary only, and for a reason the
evidence does not contain: the admitted fact is appended by one attempt. `GateInv`
says that a started fact has an admitted fact, that at most one attempt per effect
has passed the boundary, and that the attempt which has (`Ticket`) met no started
fact before its own, so that it can refuse only what was not entered.

TLC checked `EvidenceInv` on the instance of `journal_reconcilers` (1 906 778 states)
and `GateInv` on that of `journal_live` (50 391).

### The lease

For any callers, owner ids, ttl and clock bound; the proofs rest on
`LeaseAssumption` (the ttl is positive, `Null` is no caller, owner
or lease). Neither property is inductive. `LeaseInv` adds that a handle whose row
has not been deleted is not newer than the row, that only the latest grantee has
the row's revision, that no expiry lies further ahead than one ttl, and that such
a handle, while its time is not up, shares its owner with a row that expires no
earlier. The third part is what lets a renewal or a second acquisition by the
same owner keep the fourth.

### Session execution

For any callers and Turns, every bound on checkpoints, facts, deaths and requests;
`SessionAssumption` and `NullAssumption` (`Null` is neither a status nor a
decision). `IInv` has three parts beside the types. `RecordOK`, about the Session:
each closed status is `Backed` by a terminal fact, the messages are exactly the
completed Turns, at most one Turn is open and its input was prepared with the present
length. `LogOK`, about a Turn's facts: a confirmed merge has an approving decision,
no checkpoint fact follows a saved cancellation, and where a Turn has both a
cancellation and completions, a completion is first. `Served`, about a
request in progress: the status it is about to write is backed already, a resumption
has a saved suspension, a decision it carries is the recorded one, a run that is about
to emit Completed has passed its boundary. `Served` is what
makes the first two inductive: `commit` writes what was read before other requests
ran, and is right because the facts it was read from are never withdrawn.

### Model opening

For every number of attempts, Steps, crashes and names of attempts
(`OpeningAssumption`). `GenerationOnce` counts entries of the provider, and knows nothing
of permits. `OneShot` says that the ledger has at most one opening per Step
(`OpeningsUnique`), that registry, worker and driver of an attempt agree on where it is
(`Orderly`), that the holder of a permit finds `gen[s] = 0` and an opening that the
strict reader verifies (`Permit`), and that two attempts never hold the permit of one
Step. `Verified(Through(i))` reads a prefix of the ledger, so appends cannot spoil it;
that is a lemma. From it, `UncertainIsNotPassed`: the verified prefix contains the
completion of each earlier opening, and by `OpeningsUnique` there is no other. TLC
checked `OneShot` on the instance of `opening` (218 519 states). `TypeCorrect` and
`OneShotInvariant` are theorems of their own.

The call that a generation makes is an instance of `ModelCall` in the same module.
`SendsAreSound` is for any settings that `HttpRetryPolicy` accepts, any answers and any
waiting times; its hypothesis is that part of `CallAssumption`, which `model_call` evaluates. `Loop` says what the loop has counted where it is: a
request on the wire is one ahead of the report, `sends` is one ahead of `retries`
but for the moment before a request, and only a retry within the larger of the two
budgets sleeps. The window needs no invariant about the clock: `sentAt` is set where
`Remaining` is not zero, and nowhere else. `StopIsNotOvertaken` needs one, that the stop
is never itself an answer, since `PollStop` returns it.

### The Turn engine

For every configuration, policy, preparation, conflict relation, bound on Steps and size
of a batch. `EngineAssumption` requires that `Decide` is total on them, that `Null`
is no value of any other kind, and that an external wait is none of the other things
observed of a call; a checkpoint is a record of the set `Checkpoint`.

`EntriesBounded` is about all batches of a Turn, and the checkpoint knows only
the last one. Between two of them nothing but the messages says what was entered, and
after a suspension the host has the checkpoint and the engine none. `IInv` has, beside
`TypeOK` and `EntriesBounded` itself:

* `Custody`: exactly the one who should hold the checkpoint holds it, and it is `Held`:
  it would pass `validate`, and each of its approvals was asked for, and confirmed by the
  host if it carries evidence;
* `Between`: between two batches the usage is the sum over the batches in the messages,
  and there is one such batch for every Step but the running one;
* `Entries`: a call that was entered was entered once, and is one of a finished batch or
  is `Spent` in the checkpoint: not ready any more, or dispatched and past its admission;
* `Dispatch`: where a stage is about to run or runs, no ready call is denied, an allowed
  one carries no approval, and every earlier call that conflicts with one of the stage is
  not ready any more.

`Entries` and the budget together give `EntriesBounded`: the calls entered are among those
charged, and `validate`'s `BudgetAgrees` ties the charged calls to the usage. The usage is a
sum over a sequence; its lemmas are obtained from prefix sums, which exist by the smallest
counterexample. `OwnCheckpointsValid` is mostly `Custody` and `Dispatch`, `EntryOrderly`
is `Dispatch` at the step that enters. A restaged plan is a partition of the ready calls in
which conflicting calls stay in order; that is a lemma about `StageOf`. TLC checked `IInv` on
the instance of `turn`. That a run ends is liveness and stays with TLC.

### Preparation

For every configuration, any number of calls, owners, definitions and Skills, and every
capacity and limit. `PreparationAssumption` says of a configuration what the code's
types and identities say: each call is of one of the five operations, the capacity is
positive, and a child's owner is not its parent's (a child's identity is a digest of its
parent's, `delegation/admission.rs:98`). The invariant is proved in layers, each of which
may use those before:

* `Shape`: a call stands on the path of its request;
* `JournalInv`: a stream that should hold one fact holds at most one, and every cause
  resolves to a fact that is no input; from the journal's decision (`AppendOutcome`);
* `RegistryInv` and `CatalogInv`: registry and catalog load, an owner has at most one
  instance and an instance one owner, and an append whose head is stale is refused;
* `RevocationInv`: no version that was revoked before a call started is selected by it, or
  about to be loaded;
* `AuthorInv`: everything there is for an owner was written by a preparing call of that
  owner as its request would have it, complete, and agrees with what each call in progress
  remembers.

`ReturnedIsSaved`, `RefusalJustified` and `StoresUsable` are not inductive: each compares
a call's result with stores that other calls of the same owner write. `AuthorInv` is:
facts and Task definitions are never rewritten, so what a call has confirmed stays, and
only the call's own step has to be examined. `StoresUsable` also says that no crash leaves an
owner that no request can prepare any more; the request that wrote what is there is the
witness. TLC checked the layers on the instance of `preparation`.

### Tasks

For every topology, definition, number of driver calls and length of executions. The
proofs rest on `TopologyAssumption` (the parent relation and the owners are well
typed, the attempts are finitely many and at least one) and `DriverAssumption`.
Finiteness is needed because the promise counts attempts and the budget adds up the
reserved Steps of all of them; a Task's `max_attempts` is a `u64`.

The first part of `TaskDriverProofs` is about single commands. `Sane` is what every snapshot
satisfies: the state of an invocation is that of its latest attempt (`Heads`), an
attempt has a successor only if its retry was authorised (`Chain`), only failed
attempts are retried and only those of a Task that is no longer open are cancelled
(`Marks`), who completed waits for no result (`Joined`), a completed Task has
only completed invocations (`Over`). Each command of the reducer gets one lemma
saying that it is `Moved`: sane again, one step of the promise or a stutter
(`Promised`), and true to a cancellation (`Sticks`). The sum of the reserved Steps is a
fold over a finite set; its lemmas say that charging one attempt adds just that.

The second part adds the ledger and the driver's calls. `EffectInOneAttempt` alone
is far from inductive: an effect is entered in one attempt, and what forbids it in
another lies in the Task, in the ledger and in what a driver call remembers of both.
`Inv` has:

* `Rows`: in each stream, a suspension follows the start, and a negative proof an effect;
* `Claims`: a call that runs an attempt runs a started one, alone, and holds its
  active entry unless a cancellation is under way; one that records has met what it
  waits for;
* `Halts`: an attempt that the Task holds to be failed or in recovery has halted in the
  ledger, also where the observation still is in a call's hands; a retry proof rests
  on the saved negative fact, and since a halted execution starts no effect that is
  still so when the Task is told of it;
* `Effects`: an attempt that entered its effect has the effect in its stream, no
  negative fact and no retry;
* `Backed`: a completed Task has completed executions whose effects have receipts.

The proof does not relate each of the actions to each of the parts. `Does` states what
any step may do to `task`, `log`, `active`, `entered` and `drv` in terms of
what was true before; one lemma per action shows that it does no more (`NextDoes`), and
one lemma per part that whatever does no more keeps it (`InvKept`). `PromiseIsKept` and
`CancellationHolds` then need nothing of the actions but `TaskMoves`: the snapshot
stays or is `Moved`. TLC checked all parts of `Inv` on the instance of `tasks` (336 587
states).

### Delegation

For up to eight children of a call (the limit of `agent.invoke`) and every finite set of
host calls, host budget, policy and number of crashes. The proofs rest on
`DelegationAssumption`; the host calls must be finitely many because their permits are
counted. The argument has the form of the one about Tasks: `Does` is what a step may do
to each variable, `NextDoes` shows it of every action, and each part of the invariant is
kept by whatever does no more. The parts of `Inv` are, beside the types:

* `Admits`: how far the worker is with its children is what the stores hold, and the
  admission fact has every child linked behind it, wherever the worker was stopped;
* `Attempts`: who runs an execution does so alone and its attempt is `Running`; no child
  is at a gate, and none has an attempt, without the admission;
* `Drives`: a pump drives the first children without a gap, so when none is left all of
  them were driven; from there on all have ended;
* `Gated`: no gate gives out more permits than it has;
* `RootSeesJoin` and `VerdictBacked`, which `Attempts` and `Drives` make inductive:
  terminals and consumptions are never withdrawn, and a Task that is over admits no one.

`RunsFitHost` is not inductive: it says what runs, and the gates know what was acquired.
`HeldPermits(g)` is the set of a gate's single permits, so that an acquisition adds at
most as many as it takes, and a gate becomes smaller, when the admission turns out
serialized, only while no child can hold one. Two executions behind a gate then need the
permits of one and at least one more (`TwoHolders`): a writer takes the whole host, and
the task and the serialized invocation gates have one permit. TLC checked all parts of
`Inv` on the instance of `delegation` (209 140 states). That calls return is
liveness and stays with TLC; it is the only property that depends on the queues.

## What is only model-checked

| Properties | Why |
|---|---|
| `OperationsReturn`, `RunEnds`, `TerminalReachesSession`, `AttemptEnds`, `CallsReturn` | liveness under fairness: out of the prover's reach |
| `AnswerFromWire`, `CallsOfAnswer` of the model call | both compare sequences put together event by event with sorted and selected ones (`SetToSortSeq`, `SelectSeq`): induction over data with an operator as a parameter |

What a fold or a recursive function computes for every input needs induction with an
operator as a parameter, which the installed provers cannot instantiate; where a proof
needs a fact about such a sum or a walk, it is obtained from a smallest
counterexample (`WFMin` over the naturals). No module of this project declares
RECURSIVE.

## What is not modelled

Every component is listed in `PROJECT.json` with its status. Not modelled: the hooks
bridge and the linked evidence chains (long validations around single appends);
nested delegation, continuations and denied-root finalization; FileLedger's file;
agent definitions, permissions and context; request planning and encoding; tools,
sandbox and the tool worker, whose outcomes are the executor's in `EffectJournal`.
Left out for good: HTTP routing and configuration, wire encodings, traces and the
client placeholders, which have no state whose order matters or are pure I/O.

Abstractions that hide behaviour: in `SessionExecution` a checkpoint has one
approval, TurnTimedOut is TurnFailed, and the recorder's event numbering is left
out; in `EffectJournal` the four operations see one effect each; `TurnEngine`
does not store its checkpoints in the ledger; in `TaskDriver` an execution is the
sequence of ledger facts the driver looks at; in `Delegation` the Task service is the
snapshot the runner reads; `ModelCall` keeps the kinds and indices of stream events and
of a call's arguments only whether they are whole. The products of these modules are
beyond TLC with the interleavings each of them has.

Two smaller simplifications. `TaskReducer` has no replacement of an attempt that was
observed as safe to retry (`attempts.rs:37-47`): the driver, the only one that observes,
writes `safe_to_retry: false` (`task_driver.rs:686`). In `Preparation`, `Admit` registers
the Task and admits its invocation in one step (`runner/admission.rs:88-116`): a death
between the two, which the exact retry continues, and a second caller that meets the
registered Task without its invocation are not told apart from one before or after both.

## Plan

1. `DurableTurn`: the engine's boundaries, the checkpoint facts and one effect journal,
   abstracted to one call; the hazards at `driver.rs:309` and `resume.rs:82`.
2. `LedgerStore` (FileLedger's file, claims, torn lines) refining the append rules that
   `EffectJournal` assumes; `HookBridge`; `SandboxProcess`.

Related questions of a module share a run by choosing the shape of the behaviour
in the initial state.
