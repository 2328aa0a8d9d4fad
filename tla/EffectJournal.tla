--------------------------- MODULE EffectJournal ---------------------------
(***************************************************************************)
(* The durable life of one tool effect: kolyan-runtime's write-ahead       *)
(* journal over the append-only ledger.                                    *)
(*                                                                         *)
(* Four operations share the facts of an effect and may run concurrently,  *)
(* in one process or in several, each of them dropped at any point:        *)
(*   tool       DurableTools::execute_invocation      driver/tools.rs      *)
(*   hydrate    hydrate_checkpoint, one saved call    driver/recovery.rs   *)
(*   reconcile  reconcile_tool_effect                 reconciliation.rs    *)
(*   resolve    resume with ExternalResolved          driver/resume.rs     *)
(*                                                                         *)
(* Every ledger read that is followed by an await or by a dependent append *)
(* is a step of its own.  Consecutive reads of facts that are never        *)
(* rewritten are one step.  `world' is what the executor really did, which *)
(* the Runtime only learns through outcomes, verifiers and inspectors.     *)
(***************************************************************************)
EXTENDS Naturals

CONSTANTS
    Effects,     \* effect ids, "{step_id}/{call_id}"
    Actors,      \* concurrent callers of the four operations
    Preps,       \* digests of a prepared call with its scope
    Revisions,   \* policy revisions
    Evidence,    \* the rest of a grant: constraints and approval evidence
    Recs,        \* reconciliation ids
    Outputs,     \* results an effect can commit
    Hooks,       \* an EffectHookPort is installed
    Gate,        \* calls come through LedgerBoundaryControl's Tool admission
    Null

Words == {"idle", "running", "external", "failed"}

ASSUME ConstantsAssumption ==
    /\ Hooks \in BOOLEAN
    /\ Gate \in BOOLEAN
    /\ Outputs \cap Words = {}
    /\ Null \notin Preps \cup Revisions \cup Evidence \cup Recs \cup Outputs \cup Words

VARIABLES
    ledger,      \* ledger[e][k]: the immutable fact with id "{e}/{k}", or Null
    decision,    \* decision[e][r]: the EffectReconciled fact of request r, or Null
    cancelled,   \* an ExecutionCancelled fact is in the ledger
    turn,        \* the terminal Turn fact: none ("open"), "cancelled" or "ended"
    actor,       \* actor[a]: the volatile state of one operation in progress
    world,       \* world[e]: what the executor has done for e
    children,    \* effects the executor handed to external work
    observed,    \* effects whose hook observation is durably committed
    entries      \* entries[e]: how often the inner executor was entered

vars == <<ledger, decision, cancelled, turn, actor, world, children, observed, entries>>

----------------------------------------------------------------------------
\* Facts and the payloads PreparedEvidence builds for them.

Kinds == {"admitted", "prepared", "authorized", "started", "waiting",
          "receipt", "completed", "failed", "uncertain"}

Outcomes == Outputs \cup {"failed"}

Binding == [prep : Preps, rev : Revisions, ev : Evidence]

Fact == [prep : Preps \cup {Null}, rev : Revisions \cup {Null}, ev : Evidence \cup {Null},
         out : Outcomes \cup {Null}, via : Recs \cup {Null}]

Payload(b, out, via) ==
    [prep |-> b.prep, rev |-> b.rev, ev |-> b.ev, out |-> out, via |-> via]

PreparedPayload(b)   == [Payload(b, Null, Null) EXCEPT !.ev = Null]
AuthorizedPayload(b) == Payload(b, Null, Null)
StartedPayload(b)    == [Payload(b, Null, Null) EXCEPT !.rev = Null, !.ev = Null]
WaitPayload(b)       == Payload(b, Null, Null)
ReceiptPayload(b, out) == Payload(b, out, Null)

\* An admission or uncertainty fact carries nothing the journal compares again.
Mark == [prep |-> Null, rev |-> Null, ev |-> Null, out |-> Null, via |-> Null]

Resolutions == {"committed", "not_committed", "unknown"}

DecisionFact == [res : Resolutions, out : Outputs \cup {Null}]

ASSUME NullAssumption == Null \notin Fact /\ Null \notin DecisionFact

\* PreparedEvidence::from_facts on the two authority facts of e.
BoundOf(e) ==
    [prep |-> ledger[e]["prepared"].prep,
     rev  |-> ledger[e]["prepared"].rev,
     ev   |-> ledger[e]["authorized"].ev]

FromFacts(e) ==
    /\ ledger[e]["prepared"] # Null
    /\ ledger[e]["authorized"] # Null
    /\ ledger[e]["prepared"] = PreparedPayload(BoundOf(e))
    /\ ledger[e]["authorized"] = AuthorizedPayload(BoundOf(e))

\* check_entered: the saved authority and start are exactly this invocation's.
CheckEntered(e, b) ==
    /\ ledger[e]["authorized"] = AuthorizedPayload(b)
    /\ ledger[e]["started"] = StartedPayload(b)

\* validate_receipt: the payload rebuilt from b and the saved result, with the
\* reconciliation metadata it carries, is the saved payload.  Metadata is only
\* accepted on a committed output.
ValidReceipt(f, b) ==
    /\ f.out # Null
    /\ f = Payload(b, f.out, f.via)
    /\ f.via # Null => f.out \in Outputs

----------------------------------------------------------------------------
\* Actors.  pc is the next step, or the value the operation returned.

Ops == {"idle", "tool", "hydrate", "reconcile", "resolve"}

ToolSteps == {"admit", "prepare", "read_receipt", "verify", "read_waiting", "read_started",
              "recover", "recovered_wait", "before_effect", "authorize", "start", "enter",
              "run", "wait", "receipt", "project", "after_receipt", "mark_uncertain"}
HydrateSteps == {"h_chain", "h_receipt", "h_project", "h_waiting", "h_wait"}
ReconcileSteps == {"r_chain", "r_receipt", "r_decision", "r_inspect", "r_commit", "r_decide"}
ResolveSteps == {"s_receipt", "s_project"}
Steps == ToolSteps \cup HydrateSteps \cup ReconcileSteps \cup ResolveSteps

Returns == {"completed", "failed", "awaiting", "uncertain", "cancelled", "denied",
            "error", "stopped", "conflict", "ready"} \cup Resolutions

SavedCall == [prep : Preps, rev : Revisions \cup {Null}, ev : Evidence \cup {Null}]

PartialBinding ==
    [prep : Preps \cup {Null}, rev : Revisions \cup {Null}, ev : Evidence \cup {Null}]

NoBinding == [prep |-> Null, rev |-> Null, ev |-> Null]

\* seen: append_once or atomic_publication has read the id and found nothing.
\* saved: the receipt an operation has read and still relies on.
ActorRecord ==
    [op : Ops, pc : Steps \cup Returns \cup {"idle"}, eff : Effects \cup {Null},
     bind : PartialBinding, out : Outcomes \cup {Null}, rec : Recs \cup {Null},
     res : Resolutions \cup {Null}, saved : Fact \cup {Null}, seen : BOOLEAN]

\* What a step relies on having been set by the steps before it.
WellFormed(s) ==
    /\ s.pc \in Steps => s.eff \in Effects
    /\ s.pc \in ReconcileSteps => s.rec \in Recs /\ (s.saved # Null => s.saved.out \in Outputs)
                                  /\ s.out \in Outputs \cup {Null}
    /\ s.pc \in {"r_commit", "r_decide"} => s.res \in Resolutions
    /\ s.pc = "h_project" => s.saved \in Fact

ActorState == {s \in ActorRecord : WellFormed(s)}

Idle == [op |-> "idle", pc |-> "idle", eff |-> Null, bind |-> NoBinding, out |-> Null,
         rec |-> Null, res |-> Null, saved |-> Null, seen |-> FALSE]

At(a, pc) == actor[a].pc = pc

Become(a, rec) == actor' = [actor EXCEPT ![a] = rec]

Goto(a, pc) == [actor[a] EXCEPT !.pc = pc, !.seen = FALSE]

Seen(a) == [actor[a] EXCEPT !.seen = TRUE]

Begin(a, op, pc, e, b) ==
    /\ actor[a] = Idle
    /\ Become(a, [Idle EXCEPT !.op = op, !.pc = pc, !.eff = e, !.bind = b])

Write(e, k, f) == ledger' = [ledger EXCEPT ![e][k] = f]

\* A definitive result as the caller of the operation sees it.
Answer(out) == IF out = "failed" THEN "failed" ELSE "completed"

----------------------------------------------------------------------------
\* The four ways the Runtime publishes a fact.

\* LedgerError::Storage from an append: the caller sees a failure, and the fact
\* may or may not have reached the store.
StorageFails(a, k, f, fail) ==
    LET e == actor[a].eff IN
    /\ Become(a, fail)
    /\ \/ UNCHANGED ledger
       \/ ledger[e][k] = Null /\ Write(e, k, f)

\* append_once: read the id; equal is success, different an error, absent is
\* followed by a plain append that another writer may still win.
AppendOnce(a, k, f, ok, fail) ==
    LET e == actor[a].eff
        old == ledger[e][k] IN
    \/ ~actor[a].seen /\ old = Null
       /\ Become(a, Seen(a)) /\ UNCHANGED ledger
    \/ ~actor[a].seen /\ old # Null
       /\ Become(a, IF old = f THEN ok ELSE fail) /\ UNCHANGED ledger
    \/ actor[a].seen /\ old = Null
       /\ Become(a, ok) /\ Write(e, k, f)
    \/ actor[a].seen /\ old # Null
       /\ Become(a, fail) /\ UNCHANGED ledger
    \/ actor[a].seen /\ StorageFails(a, k, f, fail)

\* append_unless_cancelled: the ledger checks for ExecutionCancelled and for the
\* id, and appends, in one critical section.
AppendUnlessCancelled(a, k, f, ok, stop, fail) ==
    LET e == actor[a].eff IN
    \/ cancelled /\ Become(a, stop) /\ UNCHANGED ledger
    \/ ~cancelled /\ ledger[e][k] # Null /\ Become(a, fail) /\ UNCHANGED ledger
    \/ ~cancelled /\ ledger[e][k] = Null /\ Become(a, ok) /\ Write(e, k, f)
    \/ ~cancelled /\ StorageFails(a, k, f, fail)

\* check_resumable: cancelled first, then terminal.
Resumable == ~cancelled /\ turn = "open"

NotResumable(a) == Goto(a, IF cancelled \/ turn = "cancelled" THEN "cancelled" ELSE "error")

\* atomic_publication: check_resumable and the read, then append_unless_cancelled.
AtomicPublication(a, k, f, ok) ==
    LET old == ledger[actor[a].eff][k] IN
    \/ ~actor[a].seen /\ ~Resumable /\ Become(a, NotResumable(a)) /\ UNCHANGED ledger
    \/ ~actor[a].seen /\ Resumable /\ old # Null
       /\ Become(a, IF old = f THEN ok ELSE Goto(a, "error")) /\ UNCHANGED ledger
    \/ ~actor[a].seen /\ Resumable /\ old = Null
       /\ Become(a, Seen(a)) /\ UNCHANGED ledger
    \/ actor[a].seen
       /\ AppendUnlessCancelled(a, k, f, ok, Goto(a, "cancelled"), Goto(a, "error"))

----------------------------------------------------------------------------
\* tool: DurableTools::execute_invocation behind the Core's Tool boundary.

env == <<world, children, observed, entries>>

Quiet == UNCHANGED <<decision, cancelled, turn, env>>

\* The Core dispatches a prepared and granted call.
ToolBegin(a, e, b) ==
    /\ Begin(a, "tool", IF Gate THEN "admit" ELSE "prepare", e, b)
    /\ UNCHANGED <<ledger, decision, cancelled, turn, env>>

\* LedgerBoundaryControl::admit(Tool): a stable id, so a second dispatch of the
\* same call conflicts and ends its Turn, as cancellation does.
Admit(a) ==
    /\ At(a, "admit")
    /\ AppendUnlessCancelled(a, "admitted", Mark, Goto(a, "prepare"),
                             Goto(a, "stopped"), Goto(a, "conflict"))
    /\ Quiet

\* The in-memory TurnControl is found cancelled at one of its two checks.
ControlCancelled(a) ==
    /\ actor[a].pc \in {"prepare", "start"}
    /\ ~actor[a].seen
    /\ Become(a, Goto(a, "cancelled"))
    /\ UNCHANGED ledger /\ Quiet

Prepare(a) ==
    /\ At(a, "prepare")
    /\ AppendOnce(a, "prepared", PreparedPayload(actor[a].bind),
                  Goto(a, "read_receipt"), Goto(a, "error"))
    /\ Quiet

\* A saved receipt answers the call, after its evidence is checked.
ReadReceipt(a) ==
    LET e == actor[a].eff
        f == ledger[e]["receipt"] IN
    /\ At(a, "read_receipt")
    /\ \/ f = Null /\ Become(a, Goto(a, "read_waiting"))
       \/ /\ f # Null
          /\ IF CheckEntered(e, actor[a].bind) /\ ValidReceipt(f, actor[a].bind)
             THEN Become(a, [Goto(a, IF Hooks THEN "verify" ELSE Answer(f.out))
                             EXCEPT !.out = f.out])
             ELSE Become(a, Goto(a, "mark_uncertain"))
    /\ UNCHANGED ledger /\ Quiet

\* verify_observation only reads: it succeeds at most when the observation is
\* durable, and the window or the control may end first.
VerifyObservation(a) ==
    /\ At(a, "verify")
    /\ \/ actor[a].eff \in observed /\ Become(a, Goto(a, Answer(actor[a].out)))
       \/ Become(a, Goto(a, "error"))
    /\ UNCHANGED ledger /\ Quiet

\* A saved wait is returned again when the verifier still proves its admission.
ReadWaiting(a) ==
    LET e == actor[a].eff
        f == ledger[e]["waiting"]
        valid == CheckEntered(e, actor[a].bind) /\ f = WaitPayload(actor[a].bind) IN
    /\ At(a, "read_waiting")
    /\ \/ f = Null /\ Become(a, Goto(a, "read_started"))
       \/ f # Null /\ ~valid /\ Become(a, Goto(a, "mark_uncertain"))
       \/ f # Null /\ valid /\ e \in children /\ Become(a, Goto(a, "awaiting"))
       \/ f # Null /\ valid /\ Become(a, Goto(a, "uncertain"))
    /\ UNCHANGED ledger /\ Quiet

\* Started without receipt or wait: never a licence to execute again.
ReadStarted(a) ==
    LET e == actor[a].eff IN
    /\ At(a, "read_started")
    /\ Become(a, Goto(a, IF ledger[e]["started"] = Null
                         THEN IF Hooks THEN "before_effect" ELSE "authorize"
                         ELSE IF CheckEntered(e, actor[a].bind) THEN "recover"
                         ELSE "mark_uncertain"))
    /\ UNCHANGED ledger /\ Quiet

\* recover_wait and verify_wait prove an external admission, or do not.
RecoverWait(a) ==
    /\ At(a, "recover")
    /\ \/ actor[a].eff \in children /\ Become(a, Goto(a, "recovered_wait"))
       \/ Become(a, Goto(a, "mark_uncertain"))
    /\ UNCHANGED ledger /\ Quiet

PublishRecoveredWait(a) ==
    /\ At(a, "recovered_wait")
    /\ AppendUnlessCancelled(a, "waiting", WaitPayload(actor[a].bind), Goto(a, "awaiting"),
                             Goto(a, "cancelled"), Goto(a, "mark_uncertain"))
    /\ Quiet

\* before_effect may continue, deny, fail or be cut off; after it the call is
\* prepared again and a different preparation is refused.
BeforeEffect(a) ==
    /\ At(a, "before_effect")
    /\ \E pc \in {"authorize", "denied", "error", "cancelled"} : Become(a, Goto(a, pc))
    /\ UNCHANGED ledger /\ Quiet

Authorize(a) ==
    /\ At(a, "authorize")
    /\ AppendOnce(a, "authorized", AuthorizedPayload(actor[a].bind),
                  Goto(a, "start"), Goto(a, "error"))
    /\ Quiet

\* Mutant of Start: the entry is published idempotently, like the other facts.
StartOnce(a) ==
    /\ At(a, "start")
    /\ AppendOnce(a, "started", StartedPayload(actor[a].bind), Goto(a, "enter"), Goto(a, "uncertain"))
    /\ Quiet

\* Mutant of Start: cancellation is looked up by the caller, not by the append.
StartDespiteCancel(a) ==
    LET e == actor[a].eff IN
    /\ At(a, "start")
    /\ \/ /\ ledger[e]["started"] = Null
          /\ Become(a, Goto(a, "enter")) /\ Write(e, "started", StartedPayload(actor[a].bind))
       \/ ledger[e]["started"] # Null /\ Become(a, Goto(a, "uncertain")) /\ UNCHANGED ledger
    /\ Quiet

\* The write-ahead entry: only the one append that wins the id may enter.
Start(a) ==
    /\ At(a, "start")
    /\ AppendUnlessCancelled(a, "started", StartedPayload(actor[a].bind), Goto(a, "enter"),
                             Goto(a, "cancelled"), Goto(a, "uncertain"))
    /\ Quiet

\* The inner executor is called.
Enter(a) ==
    LET e == actor[a].eff IN
    /\ At(a, "enter")
    /\ Become(a, Goto(a, "run"))
    /\ entries' = [entries EXCEPT ![e] = @ + 1]
    /\ world' = [world EXCEPT ![e] = IF @ = "idle" THEN "running" ELSE @]
    /\ UNCHANGED <<ledger, decision, cancelled, turn, children, observed>>

\* Mutant of Outcome: only a final outcome is awaited, not a hand-over.
OutcomeOnlyFinal(a) ==
    LET e == actor[a].eff IN
    /\ At(a, "run")
    /\ world[e] \in Outcomes /\ e \notin children
    /\ Become(a, [Goto(a, "receipt") EXCEPT !.out = world[e]])
    /\ UNCHANGED ledger /\ Quiet

\* The executor's answer: a definitive outcome, proven or unproven external
\* work, or its own admission that it does not know.
Outcome(a) ==
    LET e == actor[a].eff IN
    /\ At(a, "run")
    /\ \/ /\ world[e] \in Outcomes /\ e \notin children
          /\ Become(a, [Goto(a, "receipt") EXCEPT !.out = world[e]])
       \/ e \in children /\ Become(a, Goto(a, "wait"))
       \/ Become(a, Goto(a, "mark_uncertain"))
    /\ UNCHANGED ledger /\ Quiet

\* Mutant of PublishWait: a wait that could not be published is returned anyway.
PublishWaitAnyway(a) ==
    /\ At(a, "wait")
    /\ AppendUnlessCancelled(a, "waiting", WaitPayload(actor[a].bind), Goto(a, "awaiting"),
                             Goto(a, "awaiting"), Goto(a, "awaiting"))
    /\ Quiet

\* Mutant of PublishWait: cancellation after entry is reported as a cancelled call.
PublishWaitOrCancelled(a) ==
    /\ At(a, "wait")
    /\ AppendUnlessCancelled(a, "waiting", WaitPayload(actor[a].bind), Goto(a, "awaiting"),
                             Goto(a, "cancelled"), Goto(a, "mark_uncertain"))
    /\ Quiet

PublishWait(a) ==
    /\ At(a, "wait")
    /\ AppendUnlessCancelled(a, "waiting", WaitPayload(actor[a].bind), Goto(a, "awaiting"),
                             Goto(a, "mark_uncertain"), Goto(a, "mark_uncertain"))
    /\ Quiet

\* A definitive receipt is published even after cancellation.
PublishReceipt(a) ==
    /\ At(a, "receipt")
    /\ AppendOnce(a, "receipt", ReceiptPayload(actor[a].bind, actor[a].out),
                  Goto(a, "project"), Goto(a, "mark_uncertain"))
    /\ Quiet

PublishProjection(a) ==
    /\ At(a, "project")
    /\ AppendOnce(a, Answer(actor[a].out), ReceiptPayload(actor[a].bind, actor[a].out),
                  Goto(a, IF Hooks THEN "after_receipt" ELSE Answer(actor[a].out)),
                  Goto(a, "mark_uncertain"))
    /\ Quiet

\* after_receipt commits its observation, or fails, or commits it and is then
\* cut off by the window; only the first is a success.
AfterReceipt(a) ==
    LET e == actor[a].eff IN
    /\ At(a, "after_receipt")
    /\ \/ observed' = observed \cup {e} /\ Become(a, Goto(a, Answer(actor[a].out)))
       \/ observed' \in {observed, observed \cup {e}} /\ Become(a, Goto(a, "error"))
    /\ UNCHANGED <<ledger, decision, cancelled, turn, world, children, entries>>

\* DurableTools::uncertain: the same answer whether or not its fact is
\* new, or can be stored at all.
MarkUncertain(a) ==
    LET e == actor[a].eff IN
    /\ At(a, "mark_uncertain")
    /\ Become(a, Goto(a, "uncertain"))
    /\ \/ ledger[e]["uncertain"] = Null /\ Write(e, "uncertain", Mark)
       \/ UNCHANGED ledger
    /\ Quiet

ToolStep(a) ==
    \/ Admit(a) \/ ControlCancelled(a) \/ Prepare(a) \/ ReadReceipt(a) \/ VerifyObservation(a)
    \/ ReadWaiting(a) \/ ReadStarted(a) \/ RecoverWait(a) \/ PublishRecoveredWait(a)
    \/ BeforeEffect(a) \/ Authorize(a) \/ Start(a) \/ Enter(a) \/ Outcome(a) \/ PublishWait(a)
    \/ PublishReceipt(a) \/ PublishProjection(a) \/ AfterReceipt(a) \/ MarkUncertain(a)

----------------------------------------------------------------------------
\* hydrate: hydrate_checkpoint for one call that the checkpoint does not record
\* as completed.  A Ready call saves its preparation only; an AwaitingExternal
\* call saves the whole authority, which load_suspension has just validated
\* against the waiting fact.

HydrateBegin(a, e, call) ==
    /\ Resumable
    /\ \/ call.rev = Null /\ call.ev = Null
       \/ call \in Binding /\ ledger[e]["waiting"] = WaitPayload(call)
    /\ Begin(a, "hydrate", "h_chain", e, call)
    /\ UNCHANGED <<ledger, decision, cancelled, turn, env>>

\* Not entered leaves the call Ready; an entered call must show its whole
\* authority and be the saved call.
HydrateChain(a) ==
    LET e == actor[a].eff
        call == actor[a].bind
        b == BoundOf(e)
        proven == /\ FromFacts(e)
                  /\ b.prep = call.prep
                  /\ ledger[e]["started"] = StartedPayload(b)
                  /\ call.ev # Null => call = b IN
    /\ At(a, "h_chain")
    /\ \/ ledger[e]["started"] = Null /\ Become(a, Goto(a, "ready"))
       \/ /\ ledger[e]["started"] # Null
          /\ IF proven THEN Become(a, [Goto(a, "h_receipt") EXCEPT !.bind = b])
                       ELSE Become(a, Goto(a, "error"))
    /\ UNCHANGED ledger /\ Quiet

HydrateReceipt(a) ==
    LET f == ledger[actor[a].eff]["receipt"] IN
    /\ At(a, "h_receipt")
    /\ \/ f = Null /\ Become(a, Goto(a, "h_waiting"))
       \/ /\ f # Null
          /\ IF ValidReceipt(f, actor[a].bind)
             THEN Become(a, [Goto(a, "h_project") EXCEPT !.out = f.out, !.saved = f])
             ELSE Become(a, Goto(a, "error"))
    /\ UNCHANGED ledger /\ Quiet

\* The saved receipt is projected and becomes the call's result.
HydrateProject(a) ==
    /\ At(a, "h_project")
    /\ AtomicPublication(a, Answer(actor[a].out), actor[a].saved, Goto(a, Answer(actor[a].out)))
    /\ Quiet

HydrateWaiting(a) ==
    LET e == actor[a].eff
        f == ledger[e]["waiting"] IN
    /\ At(a, "h_waiting")
    /\ \/ f # Null /\ f = WaitPayload(actor[a].bind) /\ e \in children /\ Become(a, Goto(a, "h_wait"))
       \/ f # Null /\ Become(a, Goto(a, "error"))
       \/ f = Null /\ e \in children /\ Become(a, Goto(a, "h_wait"))
       \/ f = Null /\ \E pc \in {"uncertain", "error"} : Become(a, Goto(a, pc))
    /\ UNCHANGED ledger /\ Quiet

HydrateWait(a) ==
    /\ At(a, "h_wait")
    /\ AtomicPublication(a, "waiting", WaitPayload(actor[a].bind), Goto(a, "awaiting"))
    /\ Quiet

HydrateStep(a) ==
    HydrateChain(a) \/ HydrateReceipt(a) \/ HydrateProject(a) \/ HydrateWaiting(a) \/ HydrateWait(a)

----------------------------------------------------------------------------
\* reconcile: reconcile_tool_effect.

ReconcileBegin(a, e, r) ==
    /\ actor[a] = Idle
    /\ Become(a, [Idle EXCEPT !.op = "reconcile", !.pc = "r_chain", !.eff = e, !.rec = r])
    /\ UNCHANGED <<ledger, decision, cancelled, turn, env>>

ReconcileChain(a) ==
    LET e == actor[a].eff
        b == BoundOf(e)
        proven == FromFacts(e) /\ ledger[e]["started"] = StartedPayload(b) IN
    /\ At(a, "r_chain")
    /\ IF proven THEN Become(a, [Goto(a, "r_receipt") EXCEPT !.bind = b])
                 ELSE Become(a, Goto(a, "error"))
    /\ UNCHANGED ledger /\ Quiet

\* A failed receipt is no committed reconciliation.
ReconcileReceipt(a) ==
    LET f == ledger[actor[a].eff]["receipt"] IN
    /\ At(a, "r_receipt")
    /\ IF f = Null \/ (ValidReceipt(f, actor[a].bind) /\ f.out \in Outputs)
       THEN Become(a, [Goto(a, "r_decision") EXCEPT !.saved = f])
       ELSE Become(a, Goto(a, "error"))
    /\ UNCHANGED ledger /\ Quiet

\* validate_decision_receipt against the receipt read before the decision.
DecisionAgrees(d, f, r) ==
    IF d.res = "committed" THEN f # Null /\ f.out = d.out /\ f.via = r ELSE f = Null

ReconcileDecision(a) ==
    LET r == actor[a].rec
        d == decision[actor[a].eff][r]
        f == actor[a].saved IN
    /\ At(a, "r_decision")
    /\ \/ /\ d # Null
          /\ Become(a, [Goto(a, IF DecisionAgrees(d, f, r) THEN d.res ELSE "error")
                        EXCEPT !.out = d.out])
       \/ /\ d = Null /\ f # Null
          /\ Become(a, [Goto(a, IF f.via = r THEN "r_decide" ELSE "committed")
                        EXCEPT !.out = f.out, !.res = "committed"])
       \/ d = Null /\ f = Null /\ Become(a, Goto(a, "r_inspect"))
    /\ UNCHANGED ledger /\ Quiet

\* Mutant of Inspect: the decision is recorded without the receipt before it.
InspectThenDecide(a) ==
    LET w == world[actor[a].eff] IN
    /\ At(a, "r_inspect")
    /\ \/ /\ w \in Outputs
          /\ Become(a, [Goto(a, "r_decide") EXCEPT !.out = w, !.res = "committed"])
       \/ Become(a, [Goto(a, "r_decide") EXCEPT !.res = "unknown"])
    /\ UNCHANGED ledger /\ Quiet

\* Mutant of Inspect: an answer other than a commit is not carried to the decision.
InspectWithoutResolution(a) ==
    /\ At(a, "r_inspect")
    /\ Become(a, Goto(a, "r_decide"))
    /\ UNCHANGED ledger /\ Quiet

\* The admitted inspector attests a commit only when there is one; it may also
\* see nothing yet, not know, or fail.
Inspect(a) ==
    LET w == world[actor[a].eff] IN
    /\ At(a, "r_inspect")
    /\ \/ /\ w \in Outputs
          /\ Become(a, [Goto(a, "r_commit") EXCEPT !.out = w, !.res = "committed"])
       \/ w \notin Outputs /\ Become(a, [Goto(a, "r_decide") EXCEPT !.res = "not_committed"])
       \/ Become(a, [Goto(a, "r_decide") EXCEPT !.res = "unknown"])
       \/ Become(a, Goto(a, "error"))
    /\ UNCHANGED ledger /\ Quiet

\* append_identical: a plain append; on conflict an identical fact is success.
ReconcileCommit(a) ==
    LET e == actor[a].eff
        f == Payload(actor[a].bind, actor[a].out, actor[a].rec) IN
    /\ At(a, "r_commit")
    /\ \/ /\ ledger[e]["receipt"] = Null
          /\ Become(a, Goto(a, "r_decide")) /\ Write(e, "receipt", f)
       \/ /\ ledger[e]["receipt"] # Null
          /\ Become(a, Goto(a, IF ledger[e]["receipt"] = f THEN "r_decide" ELSE "error"))
          /\ UNCHANGED ledger
       \/ StorageFails(a, "receipt", f, Goto(a, "error"))
    /\ Quiet

ReconcileDecide(a) ==
    LET e == actor[a].eff
        r == actor[a].rec
        d == [res |-> actor[a].res, out |-> actor[a].out]
        record == decision' = [decision EXCEPT ![e][r] = d] IN
    /\ At(a, "r_decide")
    /\ \/ decision[e][r] = Null /\ record /\ Become(a, Goto(a, d.res))
       \/ /\ decision[e][r] # Null /\ UNCHANGED decision
          /\ Become(a, Goto(a, IF decision[e][r] = d THEN d.res ELSE "error"))
       \/ decision[e][r] = Null /\ record /\ Become(a, Goto(a, "error"))
       \/ UNCHANGED decision /\ Become(a, Goto(a, "error"))
    /\ UNCHANGED <<ledger, cancelled, turn, env>>

ReconcileStep(a) ==
    \/ ReconcileChain(a) \/ ReconcileReceipt(a) \/ ReconcileDecision(a) \/ Inspect(a)
    \/ ReconcileCommit(a) \/ ReconcileDecide(a)

----------------------------------------------------------------------------
\* resolve: resume with ExternalResolved for one waiting call.

\* load_suspension, verify_resolution and the Core's merge: the saved authority
\* and wait are the ledger's, and the verifier proves the child's result.
ResolveBegin(a, e, b) ==
    /\ Resumable
    /\ ledger[e]["waiting"] = WaitPayload(b)
    /\ ledger[e]["prepared"] = PreparedPayload(b)
    /\ CheckEntered(e, b)
    /\ e \in children /\ world[e] \in Outputs
    /\ actor[a] = Idle
    /\ Become(a, [Idle EXCEPT !.op = "resolve", !.pc = "s_receipt", !.eff = e, !.bind = b,
                              !.out = world[e]])
    /\ UNCHANGED <<ledger, decision, cancelled, turn, env>>

ResolveReceipt(a) ==
    /\ At(a, "s_receipt")
    /\ AtomicPublication(a, "receipt", ReceiptPayload(actor[a].bind, actor[a].out),
                         Goto(a, "s_project"))
    /\ Quiet

ResolveProject(a) ==
    /\ At(a, "s_project")
    /\ AtomicPublication(a, "completed", ReceiptPayload(actor[a].bind, actor[a].out),
                         Goto(a, "completed"))
    /\ Quiet

ResolveStep(a) == ResolveReceipt(a) \/ ResolveProject(a)

----------------------------------------------------------------------------
\* The surroundings.

\* DurableTurnDriver::cancel.
Cancel ==
    /\ ~cancelled /\ cancelled' = TRUE
    /\ UNCHANGED <<ledger, decision, turn, actor, env>>

\* The Turn's terminal fact, by its Terminal boundary or by persist_error.
EndTurn ==
    /\ turn = "open" /\ turn' \in {"cancelled", "ended"}
    /\ UNCHANGED <<ledger, decision, cancelled, actor, env>>

\* A dropped future or a dead process loses everything the operation held.
Abandon(a) ==
    /\ actor[a].pc \in Steps /\ Become(a, Idle)
    /\ UNCHANGED <<ledger, decision, cancelled, turn, env>>

\* The caller takes the returned value.
Collect(a) ==
    /\ actor[a].pc \in Returns /\ Become(a, Idle)
    /\ UNCHANGED <<ledger, decision, cancelled, turn, env>>

\* The executor's work goes on without the Runtime.
Work(e) ==
    /\ \/ /\ world[e] = "running"
          /\ \E w \in Outcomes \cup {"external"} :
                /\ world' = [world EXCEPT ![e] = w]
                /\ children' = IF w = "external" THEN children \cup {e} ELSE children
       \/ /\ world[e] = "external"
          /\ \E w \in Outputs : world' = [world EXCEPT ![e] = w]
          /\ UNCHANGED children
    /\ UNCHANGED <<ledger, decision, cancelled, turn, actor, observed, entries>>

Init ==
    /\ ledger = [e \in Effects |-> [k \in Kinds |-> Null]]
    /\ decision = [e \in Effects |-> [r \in Recs |-> Null]]
    /\ cancelled = FALSE
    /\ turn = "open"
    /\ actor = [a \in Actors |-> Idle]
    /\ world = [e \in Effects |-> "idle"]
    /\ children = {}
    /\ observed = {}
    /\ entries = [e \in Effects |-> 0]

Call(a) ==
    \E e \in Effects :
        \/ \E b \in Binding : ToolBegin(a, e, b)
        \/ \E call \in SavedCall : HydrateBegin(a, e, call)
        \/ \E r \in Recs : ReconcileBegin(a, e, r)
        \/ \E b \in Binding : ResolveBegin(a, e, b)

Step(a) == ToolStep(a) \/ HydrateStep(a) \/ ReconcileStep(a) \/ ResolveStep(a)

Next ==
    \/ \E a \in Actors : Call(a) \/ Step(a) \/ Abandon(a) \/ Collect(a)
    \/ \E e \in Effects : Work(e)
    \/ Cancel \/ EndTurn

Spec == Init /\ [][Next]_vars

\* A future that is neither dropped nor killed is polled again, and the executor
\* answers or hands over: tokio drives both.  Calls, cancellation, crashes and
\* the completion of external work are the surroundings' choice.
FairSpec ==
    /\ Spec
    /\ \A a \in Actors : WF_vars(Step(a)) /\ WF_vars(Collect(a))
    /\ \A e \in Effects : WF_vars(world[e] = "running" /\ Work(e))

----------------------------------------------------------------------------
\* Types.  Every step of an operation finds in its volatile state what the steps
\* before it promised to leave there: the arguments of a publication are always
\* complete.
TypeOK ==
    /\ ledger \in [Effects -> [Kinds -> Fact \cup {Null}]]
    /\ decision \in [Effects -> [Recs -> DecisionFact \cup {Null}]]
    /\ cancelled \in BOOLEAN
    /\ turn \in {"open", "cancelled", "ended"}
    /\ actor \in [Actors -> ActorState]
    /\ world \in [Effects -> Words \cup Outputs]
    /\ children \subseteq Effects
    /\ observed \subseteq Effects
    /\ entries \in [Effects -> Nat]

\* The inner executor is entered at most once per effect, whatever operations
\* race, crash and are retried on it (driver/tools.rs: "never permission to
\* repeat an external side effect").
AtMostOnceEntry == \A e \in Effects : entries[e] <= 1

\* A receipt states what the executor really did, by whichever of the three
\* writers it was published.
ReceiptTruth ==
    \A e \in Effects :
        ledger[e]["receipt"] # Null => world[e] = ledger[e]["receipt"].out

\* The completed and failed projections never disagree with the receipt, so an
\* effect is never shown both ways.  The projection of a reconciled receipt
\* keeps its metadata.
ProjectionsFollowReceipt ==
    \A e \in Effects : \A k \in {"completed", "failed"} :
        ledger[e][k] # Null =>
            /\ ledger[e][k] = ledger[e]["receipt"]
            /\ Answer(ledger[e]["receipt"].out) = k

\* A saved Committed decision is always backed by the receipt that carries the
\* same request's proof and the same output.
DecisionsBacked ==
    \A e \in Effects : \A r \in Recs :
        decision[e][r] # Null /\ decision[e][r].res = "committed" =>
            /\ ledger[e]["receipt"] # Null
            /\ ledger[e]["receipt"].via = r
            /\ ledger[e]["receipt"].out = decision[e][r].out

\* All the evidence of one effect agrees: the executor, the tool, the collector and
\* two operators reconciling it publish receipt, projections and decisions in
\* separate steps, and none of them contradicts what really happened.
EvidenceAgrees == ReceiptTruth /\ ProjectionsFollowReceipt /\ DecisionsBacked

\* With hooks installed, execute_invocation answers success only when the
\* observation of the receipt is durable, on first entry and on replay.
ToolSuccessObserved ==
    \A a \in Actors :
        Hooks /\ actor[a].op = "tool" /\ actor[a].pc \in {"completed", "failed"}
        => actor[a].eff \in observed

\* What an operation answers is in the ledger: a result only with its receipt, a
\* wait only with its waiting fact, and a tool's result, first or replayed, only
\* with the durable observation of its receipt.
AnswersBacked ==
    /\ ToolSuccessObserved
    /\ \A a \in Actors :
           LET L == ledger[actor[a].eff] IN
           /\ actor[a].pc \in {"completed", "failed", "committed"} =>
                 L["receipt"] # Null /\ L["receipt"].out = actor[a].out
           /\ actor[a].pc = "awaiting" => L["waiting"] # Null

\* Once a call has passed the Tool boundary, a definite refusal by the executor
\* (other than a failed hook observation of a saved receipt) tells the model the
\* truth: the effect was not entered.
RefusalMeansNotEntered ==
    \A a \in Actors :
        /\ Gate
        /\ actor[a].op = "tool"
        /\ actor[a].pc \in {"error", "denied", "cancelled"}
        /\ ledger[actor[a].eff]["receipt"] = Null
        => entries[actor[a].eff] = 0

\* Once cancellation is in the ledger, an effect without a started fact stays
\* unstarted and unentered: the entry that could still follow was written before.
NoEntryAfterCancel ==
    [][\A e \in Effects :
          cancelled /\ ledger[e]["started"] = Null
          => ledger'[e]["started"] = Null /\ entries'[e] = 0]_vars

\* Every operation that is neither dropped nor killed returns.
OperationsReturn ==
    \A a \in Actors : actor[a].pc \in Steps ~> actor[a].pc \notin Steps

\* With hooks installed, a committed receipt counts as a success only with its
\* durable observation (docs/requirements/0039-governed-hooks.md:403-406).
ObservedBeforeSuccess ==
    \A a \in Actors :
        Hooks /\ actor[a].op = "hydrate" /\ actor[a].pc = "completed"
        => actor[a].eff \in observed

=============================================================================
