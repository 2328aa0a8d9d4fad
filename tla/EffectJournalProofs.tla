------------------------- MODULE EffectJournalProofs --------------------------
(***************************************************************************)
(* Proofs about EffectJournal for every set of effects, actors, bindings   *)
(* and outputs.  First what a type invariant over the ledger and the       *)
(* actors gives; then what the facts of an effect say of it: receipts,     *)
(* projections, decisions and answers agree with each other and with the   *)
(* executor, and a refusal behind the Tool boundary is never an entered    *)
(* effect.                                                                 *)
(***************************************************************************)
EXTENDS EffectJournal, TLAPS

----------------------------------------------------------------------------
\* Types of the payloads and of the actor states the actions build.

\* Step names that need nothing but an effect.
Plain == ToolSteps \cup {"h_chain", "h_receipt", "h_waiting", "h_wait"} \cup ResolveSteps \cup Returns

\* Every payload built from an actor's binding is a fact.
LEMMA PayloadType ==
    ASSUME NEW b \in PartialBinding, NEW out \in Outcomes \cup {Null}, NEW via \in Recs \cup {Null}
    PROVE  /\ Payload(b, out, via) \in Fact
           /\ PreparedPayload(b) \in Fact
           /\ AuthorizedPayload(b) \in Fact
           /\ StartedPayload(b) \in Fact
           /\ WaitPayload(b) \in Fact
           /\ ReceiptPayload(b, out) \in Fact
BY DEF PartialBinding, Outcomes, Fact, Payload, PreparedPayload, AuthorizedPayload,
       StartedPayload, WaitPayload, ReceiptPayload

\* The bare mark is a fact.
LEMMA MarkType == Mark \in Fact
BY DEF Mark, Fact

\* A payload is never mistaken for an absent fact.
LEMMA NullNoFact == ASSUME NEW f \in Fact PROVE f # Null
BY NullAssumption

\* A fresh actor is well formed.
LEMMA IdleType == Idle \in ActorState
BY DEF Idle, ActorState, ActorRecord, WellFormed, Ops, Steps, Returns, PartialBinding, NoBinding,
       ToolSteps, HydrateSteps, ReconcileSteps, ResolveSteps

\* Moving an actor that is at a step to a plain step or answer keeps its type.
LEMMA GotoType ==
    ASSUME TypeOK, NEW a \in Actors, actor[a].eff \in Effects, NEW pc \in Plain
    PROVE  Goto(a, pc) \in ActorState /\ Goto(a, pc).pc = pc
<1>1. actor[a] \in ActorRecord
  BY DEF TypeOK, ActorState
<1>2. Goto(a, pc) \in ActorRecord
  BY <1>1 DEF Goto, ActorRecord, Plain, Steps, HydrateSteps
<1>3. Goto(a, pc).pc = pc /\ Goto(a, pc).eff = actor[a].eff
  BY <1>1 DEF Goto, ActorRecord
<1>4. WellFormed(Goto(a, pc))
  BY <1>3 DEF WellFormed, Plain, ToolSteps, HydrateSteps, ReconcileSteps, ResolveSteps, Returns, Resolutions
<1> QED
  BY <1>2, <1>3, <1>4 DEF ActorState

\* Answers are plain.
LEMMA AnswerPlain ==
    ASSUME NEW out
    PROVE  Answer(out) \in Plain /\ Answer(out) \in Kinds /\ Answer(out) # "started"
BY DEF Answer, Plain, Returns, Kinds

\* Updating one actor and writing one fact keep their types.
LEMMA BecomeType ==
    ASSUME TypeOK, NEW a \in Actors, NEW s \in ActorState, Become(a, s)
    PROVE  /\ actor' \in [Actors -> ActorState]
           /\ actor'[a] = s
           /\ \A b \in Actors \ {a} : actor'[b] = actor[b]
BY DEF TypeOK, Become

\* Writing one fact changes that fact only and keeps the ledger's type.
LEMMA WriteType ==
    ASSUME TypeOK, NEW e \in Effects, NEW k \in Kinds, NEW f \in Fact, Write(e, k, f)
    PROVE  /\ ledger' \in [Effects -> [Kinds -> Fact \cup {Null}]]
           /\ ledger'[e][k] = f
           /\ \A d \in Effects, j \in Kinds : (d # e \/ j # k) => ledger'[d][j] = ledger[d][j]
BY DEF TypeOK, Write

\* An actor that has queried the ledger is where it was and well formed.
LEMMA SeenType ==
    ASSUME TypeOK, NEW a \in Actors
    PROVE  Seen(a) \in ActorState /\ Seen(a).pc = actor[a].pc
<1>1. actor[a] \in ActorRecord /\ WellFormed(actor[a])
  BY DEF TypeOK, ActorState
<1>2. Seen(a) \in ActorRecord
  BY <1>1 DEF Seen, ActorRecord
<1>3. /\ Seen(a).pc = actor[a].pc /\ Seen(a).eff = actor[a].eff /\ Seen(a).rec = actor[a].rec
      /\ Seen(a).saved = actor[a].saved /\ Seen(a).out = actor[a].out /\ Seen(a).res = actor[a].res
  BY <1>1 DEF Seen, ActorRecord
<1>4. WellFormed(Seen(a))
  BY <1>1, <1>3 DEF WellFormed
<1> QED
  BY <1>2, <1>3, <1>4 DEF ActorState

\* What every publication does to the ledger: nothing, or one absent fact.
AtMostWrites(e, k, f) == UNCHANGED ledger \/ (ledger[e][k] = Null /\ Write(e, k, f))

\* append_once leaves its caller at one of three places and writes at most its own fact.
LEMMA AppendOnceStep ==
    ASSUME TypeOK, NEW a \in Actors, NEW k \in Kinds, NEW f \in Fact,
           NEW ok \in ActorState, NEW fail \in ActorState,
           AppendOnce(a, k, f, ok, fail)
    PROVE  /\ \E s \in {ok, fail, Seen(a)} :
                 s \in ActorState /\ Become(a, s)
           /\ AtMostWrites(actor[a].eff, k, f)
BY SeenType DEF AppendOnce, StorageFails, AtMostWrites

\* append_unless_cancelled leaves its caller at one of three places and writes at
\* most its own fact.
LEMMA AppendUnlessCancelledStep ==
    ASSUME TypeOK, NEW a \in Actors, NEW k \in Kinds, NEW f \in Fact,
           NEW ok \in ActorState, NEW stop \in ActorState, NEW fail \in ActorState,
           AppendUnlessCancelled(a, k, f, ok, stop, fail)
    PROVE  /\ \E s \in {ok, stop, fail} : s \in ActorState /\ Become(a, s)
           /\ AtMostWrites(actor[a].eff, k, f)
BY DEF AppendUnlessCancelled, StorageFails, AtMostWrites

\* atomic_publication, whichever of its branches runs, does the same.
LEMMA AtomicPublicationStep ==
    ASSUME TypeOK, NEW a \in Actors, actor[a].eff \in Effects, NEW k \in Kinds, NEW f \in Fact,
           NEW ok \in ActorState,
           AtomicPublication(a, k, f, ok)
    PROVE  /\ \E s \in {ok, Goto(a, "cancelled"), Goto(a, "error"), Seen(a)} :
                 s \in ActorState /\ Become(a, s)
           /\ AtMostWrites(actor[a].eff, k, f)
<1>1. Goto(a, "cancelled") \in ActorState /\ Goto(a, "error") \in ActorState
  BY GotoType DEF Plain, Returns
<1>2. CASE actor[a].seen /\ AppendUnlessCancelled(a, k, f, ok, Goto(a, "cancelled"), Goto(a, "error"))
  BY <1>1, <1>2, AppendUnlessCancelledStep
<1>3. CASE ~(actor[a].seen /\ AppendUnlessCancelled(a, k, f, ok, Goto(a, "cancelled"), Goto(a, "error")))
  BY <1>1, <1>3, SeenType DEF AtomicPublication, NotResumable, AtMostWrites
<1> QED
  BY <1>2, <1>3

----------------------------------------------------------------------------
\* Steps that keep types and touch nothing the entry of an effect depends on.

Tame ==
    /\ TypeOK'
    /\ entries' = entries
    /\ \A e \in Effects : ledger'[e]["started"] = ledger[e]["started"]
    /\ \A a \in Actors : actor'[a].pc = "enter" => actor'[a] = actor[a]

\* A step that only moves one actor to a place other than the entry is tame.
LEMMA MoveTame ==
    ASSUME TypeOK, NEW a \in Actors, NEW s \in ActorState, Become(a, s), s.pc # "enter",
           ledger' \in [Effects -> [Kinds -> Fact \cup {Null}]],
           \A e \in Effects : ledger'[e]["started"] = ledger[e]["started"],
           Quiet
    PROVE  Tame
BY BecomeType DEF Tame, Quiet, env, TypeOK

\* A query that moves its actor on to one of the entry-free places is tame.
LEMMA ReadTame ==
    ASSUME TypeOK, NEW a \in Actors, NEW s \in ActorState, Become(a, s), s.pc # "enter",
           UNCHANGED ledger, Quiet
    PROVE  Tame
<1>1. ledger' \in [Effects -> [Kinds -> Fact \cup {Null}]]
  BY DEF TypeOK
<1> QED
  BY <1>1, MoveTame

\* A publication of a fact other than started is tame.
LEMMA PublishTame ==
    ASSUME TypeOK, NEW a \in Actors, NEW s \in ActorState, Become(a, s), s.pc # "enter",
           actor[a].eff \in Effects, NEW k \in Kinds \ {"started"}, NEW f \in Fact,
           AtMostWrites(actor[a].eff, k, f), Quiet
    PROVE  Tame
<1>1. CASE UNCHANGED ledger
  BY <1>1, ReadTame
<1>2. CASE Write(actor[a].eff, k, f)
  <2>1. "started" \in Kinds /\ k \in Kinds /\ k # "started"
    BY DEF Kinds
  <2> QED
    BY <1>2, <2>1, WriteType, MoveTame
<1> QED
  BY <1>1, <1>2 DEF AtMostWrites

\* An actor at a step has an effect.
LEMMA AtStep ==
    ASSUME TypeOK, NEW a \in Actors, actor[a].pc \in Steps
    PROVE  /\ actor[a].eff \in Effects
           /\ actor[a] \in ActorRecord
           /\ actor[a].bind \in PartialBinding
           /\ actor[a].out \in Outcomes \cup {Null}
BY DEF TypeOK, ActorState, ActorRecord, WellFormed

\* Plain places other than the entry itself.
Safe == Plain \ {"enter"}

\* The three publishers are tame when they publish anything but a start and
\* continue anywhere but at the entry.
LEMMA AppendOnceTame ==
    ASSUME TypeOK, NEW a \in Actors, actor[a].pc \in Steps \ {"enter"},
           NEW k \in Kinds \ {"started"}, NEW f \in Fact, NEW p \in Safe, NEW q \in Safe,
           AppendOnce(a, k, f, Goto(a, p), Goto(a, q)), Quiet
    PROVE  Tame
<1>1. actor[a].eff \in Effects /\ actor[a].pc # "enter"
  BY AtStep
<1>2. \A pc \in Safe : Goto(a, pc) \in ActorState /\ Goto(a, pc).pc # "enter"
  BY <1>1, GotoType DEF Safe
<1>3. Seen(a) \in ActorState /\ Seen(a).pc # "enter"
  BY <1>1, SeenType
<1>4. PICK s \in {Goto(a, p), Goto(a, q), Seen(a)} : s \in ActorState /\ Become(a, s)
  BY <1>2, AppendOnceStep
<1>5. AtMostWrites(actor[a].eff, k, f)
  BY <1>2, AppendOnceStep
<1> QED
  BY <1>1, <1>2, <1>3, <1>4, <1>5, PublishTame

\* So is append_unless_cancelled of a fact other than started.
LEMMA AppendUnlessCancelledTame ==
    ASSUME TypeOK, NEW a \in Actors, actor[a].pc \in Steps \ {"enter"},
           NEW k \in Kinds \ {"started"}, NEW f \in Fact,
           NEW p \in Safe, NEW q \in Safe, NEW r \in Safe,
           AppendUnlessCancelled(a, k, f, Goto(a, p), Goto(a, q), Goto(a, r)), Quiet
    PROVE  Tame
<1>1. actor[a].eff \in Effects
  BY AtStep
<1>2. \A pc \in Safe : Goto(a, pc) \in ActorState /\ Goto(a, pc).pc # "enter"
  BY <1>1, GotoType DEF Safe
<1>3. PICK s \in {Goto(a, p), Goto(a, q), Goto(a, r)} : s \in ActorState /\ Become(a, s)
  BY <1>2, AppendUnlessCancelledStep
<1>4. AtMostWrites(actor[a].eff, k, f)
  BY <1>2, AppendUnlessCancelledStep
<1> QED
  BY <1>1, <1>2, <1>3, <1>4, PublishTame

\* So is atomic_publication of a fact other than started.
LEMMA AtomicPublicationTame ==
    ASSUME TypeOK, NEW a \in Actors, actor[a].pc \in Steps \ {"enter"},
           NEW k \in Kinds \ {"started"}, NEW f \in Fact, NEW p \in Safe,
           AtomicPublication(a, k, f, Goto(a, p)), Quiet
    PROVE  Tame
<1>1. actor[a].eff \in Effects /\ actor[a].pc # "enter"
  BY AtStep
<1>2. \A pc \in Safe : Goto(a, pc) \in ActorState /\ Goto(a, pc).pc # "enter"
  BY <1>1, GotoType DEF Safe
<1>3. Seen(a) \in ActorState /\ Seen(a).pc # "enter"
  BY <1>1, SeenType
<1>4. "cancelled" \in Safe /\ "error" \in Safe
  BY DEF Safe, Plain, Returns
<1>5. PICK s \in {Goto(a, p), Goto(a, "cancelled"), Goto(a, "error"), Seen(a)} :
         s \in ActorState /\ Become(a, s)
  BY <1>1, <1>2, AtomicPublicationStep
<1>6. AtMostWrites(actor[a].eff, k, f)
  BY <1>1, <1>2, AtomicPublicationStep
<1> QED
  BY <1>1, <1>2, <1>3, <1>4, <1>5, <1>6, PublishTame

\* Reading and moving on to a plain place is tame.
LEMMA GotoTame ==
    ASSUME TypeOK, NEW a \in Actors, actor[a].pc \in Steps, NEW p \in Safe,
           Become(a, Goto(a, p)), UNCHANGED ledger, Quiet
    PROVE  Tame
BY AtStep, GotoType, ReadTame DEF Safe

\* execute_invocation's publications other than started are tame.
LEMMA ToolPublicationsTame ==
    ASSUME TypeOK, NEW a \in Actors,
           \/ Admit(a) \/ Prepare(a) \/ PublishRecoveredWait(a) \/ Authorize(a)
           \/ PublishWait(a) \/ PublishReceipt(a) \/ PublishProjection(a) \/ MarkUncertain(a)
    PROVE  Tame
<1> DEFINE b == actor[a].bind
           out == actor[a].out
<1>0. actor[a].pc \in Steps \ {"enter"}
  BY DEF Admit, Prepare, PublishRecoveredWait, Authorize, PublishWait, PublishReceipt,
         PublishProjection, MarkUncertain, At, Steps, ToolSteps
<1>1. /\ PreparedPayload(b) \in Fact /\ AuthorizedPayload(b) \in Fact /\ WaitPayload(b) \in Fact
      /\ ReceiptPayload(b, out) \in Fact /\ Mark \in Fact
  BY <1>0, AtStep, PayloadType, MarkType
<1>2. /\ \A pc \in {"prepare", "stopped", "conflict", "read_receipt", "error", "awaiting", "cancelled",
                    "mark_uncertain", "start", "project", "after_receipt", "uncertain"} : pc \in Safe
      /\ \A k \in Kinds : k = "started" \/ k \in Kinds \ {"started"}
      /\ \A k \in {"admitted", "prepared", "authorized", "waiting", "receipt", "uncertain"} :
            k \in Kinds \ {"started"}
      /\ Answer(out) \in Safe /\ Answer(out) \in Kinds \ {"started"}
  BY DEF Safe, Plain, Returns, ToolSteps, Kinds, Answer
<1>3. CASE Admit(a)
  BY <1>0, <1>1, <1>2, <1>3, AppendUnlessCancelledTame DEF Admit
<1>4. CASE Prepare(a)
  BY <1>0, <1>1, <1>2, <1>4, AppendOnceTame DEF Prepare
<1>5. CASE PublishRecoveredWait(a)
  BY <1>0, <1>1, <1>2, <1>5, AppendUnlessCancelledTame DEF PublishRecoveredWait
<1>6. CASE Authorize(a)
  BY <1>0, <1>1, <1>2, <1>6, AppendOnceTame DEF Authorize
<1>7. CASE PublishWait(a)
  BY <1>0, <1>1, <1>2, <1>7, AppendUnlessCancelledTame DEF PublishWait
<1>8. CASE PublishReceipt(a)
  BY <1>0, <1>1, <1>2, <1>8, AppendOnceTame DEF PublishReceipt
<1>9. CASE PublishProjection(a)
  <2>1. (IF Hooks THEN "after_receipt" ELSE Answer(out)) \in Safe
    BY <1>2
  <2> QED
    BY <1>0, <1>1, <1>2, <1>9, <2>1, AppendOnceTame DEF PublishProjection
<1>10. CASE MarkUncertain(a)
  <2>1. Goto(a, "uncertain") \in ActorState /\ Goto(a, "uncertain").pc # "enter"
    BY <1>0, <1>2, AtStep, GotoType DEF Safe
  <2>2. AtMostWrites(actor[a].eff, "uncertain", Mark)
    BY <1>10 DEF MarkUncertain, AtMostWrites
  <2> QED
    BY <1>0, <1>1, <1>2, <1>10, <2>1, <2>2, AtStep, PublishTame DEF MarkUncertain
<1> QED
  BY <1>3, <1>4, <1>5, <1>6, <1>7, <1>8, <1>9, <1>10

\* Setting out together with a plain move keeps the type.
LEMMA GotoOutType ==
    ASSUME TypeOK, NEW a \in Actors, actor[a].eff \in Effects, NEW pc \in Safe, NEW o \in Outcomes \cup {Null}
    PROVE  /\ [Goto(a, pc) EXCEPT !.out = o] \in ActorState
           /\ [Goto(a, pc) EXCEPT !.out = o].pc # "enter"
<1> DEFINE s == [Goto(a, pc) EXCEPT !.out = o]
<1>1. Goto(a, pc) \in ActorRecord /\ Goto(a, pc).pc = pc /\ Goto(a, pc).eff = actor[a].eff
  BY GotoType DEF ActorState, Safe, Goto, TypeOK, ActorRecord
<1>2. s \in ActorRecord /\ s.pc = pc /\ s.eff = actor[a].eff
  BY <1>1 DEF ActorRecord
<1>3. WellFormed(s)
  BY <1>2 DEF WellFormed, Safe, Plain, ToolSteps, HydrateSteps, ReconcileSteps, ResolveSteps,
              Returns, Resolutions
<1> QED
  BY <1>2, <1>3 DEF ActorState, Safe

\* execute_invocation's reads, hooks and outcomes are tame.
LEMMA ToolReadsTame ==
    ASSUME TypeOK, NEW a \in Actors,
           \/ ControlCancelled(a) \/ ReadReceipt(a) \/ VerifyObservation(a) \/ ReadWaiting(a)
           \/ ReadStarted(a) \/ RecoverWait(a) \/ BeforeEffect(a) \/ Outcome(a) \/ AfterReceipt(a)
    PROVE  Tame
<1>0. actor[a].pc \in Steps /\ actor[a].pc # "enter"
  BY DEF ControlCancelled, ReadReceipt, VerifyObservation, ReadWaiting, ReadStarted, RecoverWait,
         BeforeEffect, Outcome, AfterReceipt, At, Steps, ToolSteps
<1>1. actor[a].eff \in Effects /\ actor[a].out \in Outcomes \cup {Null}
  BY <1>0, AtStep
<1>2. /\ \A pc \in {"cancelled", "verify", "mark_uncertain", "error", "read_waiting", "read_started",
                    "awaiting", "uncertain", "recover", "recovered_wait", "before_effect",
                    "authorize", "denied", "receipt", "wait"} : pc \in Safe
      /\ \A o : Answer(o) \in Safe
  BY DEF Safe, Plain, Returns, ToolSteps, Answer
<1>3. CASE ControlCancelled(a)
  BY <1>0, <1>2, <1>3, GotoTame DEF ControlCancelled
<1>4. CASE ReadReceipt(a)
  <2> DEFINE f == ledger[actor[a].eff]["receipt"]
  <2>1. f = Null \/ f.out \in Outcomes \cup {Null}
    BY <1>1 DEF TypeOK, Kinds, Fact
  <2>2. (IF Hooks THEN "verify" ELSE Answer(f.out)) \in Safe
    BY <1>2
  <2>3. CASE f = Null /\ Become(a, Goto(a, "read_waiting"))
    BY <1>0, <1>2, <1>4, <2>3, GotoTame DEF ReadReceipt
  <2>4. CASE Become(a, Goto(a, "mark_uncertain"))
    BY <1>0, <1>2, <1>4, <2>4, GotoTame DEF ReadReceipt
  <2>5. CASE f # Null /\ Become(a, [Goto(a, IF Hooks THEN "verify" ELSE Answer(f.out)) EXCEPT !.out = f.out])
    BY <1>1, <1>4, <2>1, <2>2, <2>5, GotoOutType, ReadTame DEF ReadReceipt
  <2> QED
    BY <1>4, <2>3, <2>4, <2>5 DEF ReadReceipt
<1>5. CASE VerifyObservation(a)
  BY <1>0, <1>2, <1>5, GotoTame DEF VerifyObservation
<1>6. CASE ReadWaiting(a)
  BY <1>0, <1>2, <1>6, GotoTame DEF ReadWaiting
<1>7. CASE ReadStarted(a)
  <2> DEFINE e == actor[a].eff
             pc == IF ledger[e]["started"] = Null
                   THEN IF Hooks THEN "before_effect" ELSE "authorize"
                   ELSE IF CheckEntered(e, actor[a].bind) THEN "recover" ELSE "mark_uncertain"
  <2>1. pc \in Safe
    BY <1>2
  <2> HIDE DEF pc
  <2>2. Become(a, Goto(a, pc)) /\ UNCHANGED ledger /\ Quiet
    BY <1>7 DEF ReadStarted, pc
  <2> QED
    BY <1>0, <2>1, <2>2, GotoTame
<1>8. CASE RecoverWait(a)
  BY <1>0, <1>2, <1>8, GotoTame DEF RecoverWait
<1>9. CASE BeforeEffect(a)
  BY <1>0, <1>2, <1>9, GotoTame DEF BeforeEffect
<1>10. CASE Outcome(a)
  <2>1. CASE Become(a, Goto(a, "wait")) \/ Become(a, Goto(a, "mark_uncertain"))
    BY <1>0, <1>2, <1>10, <2>1, GotoTame DEF Outcome
  <2>2. CASE /\ world[actor[a].eff] \in Outcomes
             /\ Become(a, [Goto(a, "receipt") EXCEPT !.out = world[actor[a].eff]])
    BY <1>1, <1>2, <1>10, <2>2, GotoOutType, ReadTame DEF Outcome
  <2> QED
    BY <1>10, <2>1, <2>2 DEF Outcome
<1>11. CASE AfterReceipt(a)
  <2>1. PICK pc \in Safe : Become(a, Goto(a, pc))
    BY <1>2, <1>11 DEF AfterReceipt
  <2>2. Goto(a, pc) \in ActorState /\ Goto(a, pc).pc # "enter"
    BY <1>1, GotoType DEF Safe
  <2>3. /\ actor' \in [Actors -> ActorState]
        /\ \A b \in Actors : actor'[b].pc = "enter" => actor'[b] = actor[b]
    BY <2>1, <2>2, BecomeType
  <2>4. observed' \subseteq Effects
    BY <1>1, <1>11 DEF AfterReceipt, TypeOK
  <2> QED
    BY <1>11, <2>3, <2>4 DEF AfterReceipt, Tame, TypeOK
<1> QED
  BY <1>3, <1>4, <1>5, <1>6, <1>7, <1>8, <1>9, <1>10, <1>11

\* What BoundOf reads from the authority facts is at least a partial binding.
LEMMA BoundType ==
    ASSUME TypeOK, NEW e \in Effects, FromFacts(e)
    PROVE  BoundOf(e) \in PartialBinding
<1>1. ledger[e]["prepared"] \in Fact /\ ledger[e]["authorized"] \in Fact
  BY DEF TypeOK, FromFacts, Kinds
<1> QED
  BY <1>1 DEF BoundOf, PartialBinding, Fact

\* hydrate_checkpoint is tame.
LEMMA HydrateTame ==
    ASSUME TypeOK, NEW a \in Actors, HydrateStep(a)
    PROVE  Tame
<1>0. actor[a].pc \in Steps \ {"enter"} /\ actor[a].pc \in HydrateSteps
  BY DEF HydrateStep, HydrateChain, HydrateReceipt, HydrateProject, HydrateWaiting, HydrateWait,
         At, Steps, HydrateSteps
<1>1. /\ actor[a] \in ActorRecord /\ actor[a].eff \in Effects
      /\ actor[a].bind \in PartialBinding /\ actor[a].out \in Outcomes \cup {Null}
  BY <1>0, AtStep
<1>2. /\ \A pc \in {"ready", "error", "h_receipt", "h_waiting", "h_wait", "uncertain", "awaiting"} : pc \in Safe
      /\ \A o : Answer(o) \in Safe /\ Answer(o) \in Kinds \ {"started"}
      /\ "waiting" \in Kinds \ {"started"}
  BY DEF Safe, Plain, Returns, HydrateSteps, Kinds, Answer
<1>3. CASE HydrateChain(a)
  <2> DEFINE e == actor[a].eff
             s == [Goto(a, "h_receipt") EXCEPT !.bind = BoundOf(e)]
  <2>1. CASE Become(a, Goto(a, "ready")) \/ Become(a, Goto(a, "error"))
    BY <1>0, <1>2, <1>3, <2>1, GotoTame DEF HydrateChain
  <2>2. CASE FromFacts(e) /\ Become(a, s)
    <3>1. Goto(a, "h_receipt") \in ActorRecord /\ Goto(a, "h_receipt").pc = "h_receipt"
          /\ Goto(a, "h_receipt").eff \in Effects
      BY <1>1, <1>2, GotoType DEF Safe, Goto, ActorState, ActorRecord
    <3>2. s \in ActorRecord /\ s.pc = "h_receipt" /\ s.eff \in Effects
      BY <1>1, <2>2, <3>1, BoundType DEF ActorRecord
    <3>3. s \in ActorState
      BY <3>2 DEF ActorState, WellFormed, ReconcileSteps
    <3> QED
      BY <1>3, <2>2, <3>2, <3>3, ReadTame DEF HydrateChain
  <2> QED
    BY <1>3, <2>1, <2>2 DEF HydrateChain
<1>4. CASE HydrateReceipt(a)
  <2> DEFINE f == ledger[actor[a].eff]["receipt"]
             s == [Goto(a, "h_project") EXCEPT !.out = f.out, !.saved = f]
  <2>1. CASE Become(a, Goto(a, "h_waiting")) \/ Become(a, Goto(a, "error"))
    BY <1>0, <1>2, <1>4, <2>1, GotoTame DEF HydrateReceipt
  <2>2. CASE f # Null /\ Become(a, s)
    <3>1. f \in Fact /\ f.out \in Outcomes \cup {Null}
      BY <1>1, <2>2 DEF TypeOK, Kinds, Fact
    <3>2. s \in ActorRecord /\ s.pc = "h_project" /\ s.eff \in Effects /\ s.saved \in Fact
      BY <1>1, <3>1 DEF Goto, ActorRecord, Steps, HydrateSteps
    <3>3. s \in ActorState
      BY <3>2 DEF ActorState, WellFormed, ReconcileSteps
    <3> QED
      BY <1>4, <2>2, <3>2, <3>3, ReadTame DEF HydrateReceipt
  <2> QED
    BY <1>4, <2>1, <2>2 DEF HydrateReceipt
<1>5. CASE HydrateProject(a)
  <2>1. actor[a].saved \in Fact
    BY <1>5 DEF HydrateProject, At, TypeOK, ActorState, WellFormed
  <2> QED
    BY <1>0, <1>2, <1>5, <2>1, AtomicPublicationTame DEF HydrateProject
<1>6. CASE HydrateWaiting(a)
  BY <1>0, <1>2, <1>6, GotoTame DEF HydrateWaiting
<1>7. CASE HydrateWait(a)
  <2>1. WaitPayload(actor[a].bind) \in Fact
    BY <1>1, PayloadType
  <2> QED
    BY <1>0, <1>2, <1>7, <2>1, AtomicPublicationTame DEF HydrateWait
<1> QED
  BY <1>3, <1>4, <1>5, <1>6, <1>7 DEF HydrateStep

\* The operator's resolution of a wait is tame.
LEMMA ResolveTame ==
    ASSUME TypeOK, NEW a \in Actors, ResolveStep(a)
    PROVE  Tame
<1>0. actor[a].pc \in Steps \ {"enter"}
  BY DEF ResolveStep, ResolveReceipt, ResolveProject, At, Steps, ResolveSteps
<1>1. ReceiptPayload(actor[a].bind, actor[a].out) \in Fact
  BY <1>0, AtStep, PayloadType
<1>2. /\ "s_project" \in Safe /\ "completed" \in Safe
      /\ "receipt" \in Kinds \ {"started"} /\ "completed" \in Kinds \ {"started"}
  BY DEF Safe, Plain, Returns, ResolveSteps, Kinds
<1> QED
  BY <1>0, <1>1, <1>2, AtomicPublicationTame DEF ResolveStep, ResolveReceipt, ResolveProject

\* A reconciling actor that keeps its request and carries a committed or no
\* output is well formed at each of the reconciliation steps.
LEMMA ReconcileStateType ==
    ASSUME NEW s \in ActorRecord, s.pc \in ReconcileSteps, s.eff \in Effects, s.rec \in Recs,
           s.saved # Null => s.saved.out \in Outputs, s.out \in Outputs \cup {Null},
           s.pc \in {"r_commit", "r_decide"} => s.res \in Resolutions
    PROVE  s \in ActorState /\ s.pc # "enter"
BY DEF ActorState, WellFormed, ReconcileSteps

\* What a reconciler publishes as its decision is a fact.
LEMMA DecisionWriteType ==
    ASSUME TypeOK, NEW e \in Effects, NEW r \in Recs, NEW d \in DecisionFact,
           decision' = [decision EXCEPT ![e][r] = d]
    PROVE  decision' \in [Effects -> [Recs -> DecisionFact \cup {Null}]]
BY DEF TypeOK

\* reconcile_tool_effect is tame: it never starts or enters an effect.
LEMMA ReconcileTame ==
    ASSUME TypeOK, NEW a \in Actors, ReconcileStep(a)
    PROVE  Tame
<1> DEFINE e == actor[a].eff
           r == actor[a].rec
<1>0. actor[a].pc \in ReconcileSteps /\ actor[a].pc \in Steps /\ actor[a].pc # "enter"
  BY DEF ReconcileStep, ReconcileChain, ReconcileReceipt, ReconcileDecision, Inspect,
         ReconcileCommit, ReconcileDecide, At, Steps, ReconcileSteps
<1>1. /\ actor[a] \in ActorRecord /\ e \in Effects
      /\ actor[a].bind \in PartialBinding /\ actor[a].out \in Outputs \cup {Null}
      /\ r \in Recs /\ (actor[a].saved # Null => actor[a].saved.out \in Outputs)
  BY <1>0, AtStep DEF TypeOK, ActorState, WellFormed
<1>2. /\ \A pc \in {"error", "committed", "not_committed", "unknown"} : pc \in Safe
      /\ "receipt" \in Kinds \ {"started"}
      /\ \A res \in Resolutions : res \in Safe
  BY DEF Safe, Plain, Returns, Kinds, Resolutions
<1>3. CASE ReconcileChain(a)
  <2> DEFINE s == [Goto(a, "r_receipt") EXCEPT !.bind = BoundOf(e)]
  <2>1. CASE Become(a, Goto(a, "error"))
    BY <1>0, <1>2, <1>3, <2>1, GotoTame DEF ReconcileChain
  <2>2. CASE FromFacts(e) /\ Become(a, s)
    <3>1. /\ s \in ActorRecord /\ s.pc = "r_receipt" /\ s.eff = e /\ s.rec = r
          /\ s.saved = actor[a].saved /\ s.out = actor[a].out
      BY <1>1, <2>2, BoundType DEF Goto, ActorRecord, Steps, ReconcileSteps
    <3>2. s \in ActorState /\ s.pc # "enter"
      BY <1>1, <3>1, ReconcileStateType DEF ReconcileSteps
    <3> QED
      BY <1>3, <2>2, <3>2, ReadTame DEF ReconcileChain
  <2> QED
    BY <1>3, <2>1, <2>2 DEF ReconcileChain
<1>4. CASE ReconcileReceipt(a)
  <2> DEFINE f == ledger[e]["receipt"]
             s == [Goto(a, "r_decision") EXCEPT !.saved = f]
  <2>1. CASE Become(a, Goto(a, "error"))
    BY <1>0, <1>2, <1>4, <2>1, GotoTame DEF ReconcileReceipt
  <2>2. CASE (f = Null \/ f.out \in Outputs) /\ Become(a, s)
    <3>1. f \in Fact \cup {Null}
      BY <1>1 DEF TypeOK, Kinds
    <3>2. /\ s \in ActorRecord /\ s.pc = "r_decision" /\ s.eff = e /\ s.rec = r
          /\ s.saved = f /\ s.out = actor[a].out
      BY <1>1, <3>1 DEF Goto, ActorRecord, Steps, ReconcileSteps
    <3>3. s \in ActorState /\ s.pc # "enter"
      BY <1>1, <2>2, <3>2, ReconcileStateType DEF ReconcileSteps
    <3> QED
      BY <1>4, <2>2, <3>3, ReadTame DEF ReconcileReceipt
  <2> QED
    BY <1>4, <2>1, <2>2 DEF ReconcileReceipt
<1>5. CASE ReconcileDecision(a)
  <2> DEFINE d == decision[e][r]
             f == actor[a].saved
  <2>1. CASE d # Null
    <3> DEFINE pc == IF DecisionAgrees(d, f, r) THEN d.res ELSE "error"
    <3>1. d.res \in Resolutions /\ d.out \in Outcomes \cup {Null}
      BY <1>1, <2>1 DEF TypeOK, DecisionFact, Outcomes
    <3>2. pc \in Safe
      BY <1>2, <3>1
    <3> HIDE DEF pc
    <3>3. Become(a, [Goto(a, pc) EXCEPT !.out = d.out]) /\ UNCHANGED ledger /\ Quiet
      BY <1>5, <2>1 DEF ReconcileDecision, pc
    <3> QED
      BY <1>1, <3>1, <3>2, <3>3, GotoOutType, ReadTame
  <2>2. CASE d = Null /\ f # Null
    <3> DEFINE pc == IF f.via = r THEN "r_decide" ELSE "committed"
               s == [Goto(a, pc) EXCEPT !.out = f.out, !.res = "committed"]
    <3>1. pc \in {"r_decide", "committed"}
      OBVIOUS
    <3> HIDE DEF pc
    <3>2. Become(a, s) /\ UNCHANGED ledger /\ Quiet
      BY <1>5, <2>2 DEF ReconcileDecision, pc
    <3>3. f.out \in Outputs /\ f \in Fact
      BY <1>1, <2>2 DEF ActorRecord
    <3>4. /\ s \in ActorRecord /\ s.pc = pc /\ s.eff = e /\ s.rec = r
          /\ s.saved = f /\ s.out = f.out /\ s.res = "committed"
      BY <1>1, <3>1, <3>3 DEF Goto, ActorRecord, Steps, ReconcileSteps, Returns, Resolutions, Outcomes
    <3>5. s \in ActorState /\ s.pc # "enter"
      <4>1. CASE pc = "r_decide"
        BY <1>1, <3>3, <3>4, <4>1, ReconcileStateType DEF ReconcileSteps, Resolutions
      <4>2. CASE pc = "committed"
        BY <3>4, <4>2 DEF ActorState, WellFormed, Steps, ToolSteps, HydrateSteps, ReconcileSteps, ResolveSteps
      <4> QED
        BY <3>1, <4>1, <4>2
    <3> QED
      BY <3>2, <3>5, ReadTame
  <2>3. CASE d = Null /\ f = Null
    <3> DEFINE s == Goto(a, "r_inspect")
    <3>1. Become(a, s) /\ UNCHANGED ledger /\ Quiet
      BY <1>5, <2>3 DEF ReconcileDecision
    <3>2. /\ s \in ActorRecord /\ s.pc = "r_inspect" /\ s.eff = e /\ s.rec = r
          /\ s.saved = f /\ s.out = actor[a].out
      BY <1>1 DEF Goto, ActorRecord, Steps, ReconcileSteps
    <3>3. s \in ActorState /\ s.pc # "enter"
      BY <1>1, <3>2, ReconcileStateType DEF ReconcileSteps
    <3> QED
      BY <3>1, <3>3, ReadTame
  <2> QED
    BY <2>1, <2>2, <2>3
<1>6. CASE Inspect(a)
  <2>1. CASE Become(a, Goto(a, "error"))
    BY <1>0, <1>2, <1>6, <2>1, GotoTame DEF Inspect
  <2>2. CASE /\ world[e] \in Outputs
             /\ Become(a, [Goto(a, "r_commit") EXCEPT !.out = world[e], !.res = "committed"])
    <3> DEFINE s == [Goto(a, "r_commit") EXCEPT !.out = world[e], !.res = "committed"]
    <3>1. /\ s \in ActorRecord /\ s.pc = "r_commit" /\ s.eff = e /\ s.rec = r
          /\ s.saved = actor[a].saved /\ s.out = world[e] /\ s.res = "committed"
      BY <1>1, <2>2 DEF Goto, ActorRecord, Steps, ReconcileSteps, Resolutions, Outcomes
    <3>2. s \in ActorState /\ s.pc # "enter"
      BY <1>1, <2>2, <3>1, ReconcileStateType DEF ReconcileSteps, Resolutions
    <3> QED
      BY <1>6, <2>2, <3>2, ReadTame DEF Inspect
  <2>3. ASSUME NEW res \in Resolutions, Become(a, [Goto(a, "r_decide") EXCEPT !.res = res])
        PROVE  Tame
    <3> DEFINE s == [Goto(a, "r_decide") EXCEPT !.res = res]
    <3>1. /\ s \in ActorRecord /\ s.pc = "r_decide" /\ s.eff = e /\ s.rec = r
          /\ s.saved = actor[a].saved /\ s.out = actor[a].out /\ s.res = res
      BY <1>1, <2>3 DEF Goto, ActorRecord, Steps, ReconcileSteps
    <3>2. s \in ActorState /\ s.pc # "enter"
      BY <1>1, <2>3, <3>1, ReconcileStateType DEF ReconcileSteps
    <3> QED
      BY <1>6, <2>3, <3>2, ReadTame DEF Inspect
  <2> QED
    BY <1>6, <2>1, <2>2, <2>3 DEF Inspect, Resolutions
<1>7. CASE ReconcileCommit(a)
  <2> DEFINE f == Payload(actor[a].bind, actor[a].out, r)
             s == Goto(a, "r_decide")
  <2>1. f \in Fact
    BY <1>1, PayloadType DEF Outcomes
  <2>2. /\ s \in ActorRecord /\ s.pc = "r_decide" /\ s.eff = e /\ s.rec = r
        /\ s.saved = actor[a].saved /\ s.out = actor[a].out /\ s.res = actor[a].res
    BY <1>1 DEF Goto, ActorRecord, Steps, ReconcileSteps
  <2>3. actor[a].res \in Resolutions
    BY <1>7 DEF ReconcileCommit, At, TypeOK, ActorState, WellFormed
  <2>4. s \in ActorState /\ s.pc # "enter"
    BY <1>1, <2>2, <2>3, ReconcileStateType DEF ReconcileSteps
  <2>5. Goto(a, "error") \in ActorState /\ Goto(a, "error").pc # "enter"
    BY <1>1, <1>2, GotoType DEF Safe
  <2>6. AtMostWrites(e, "receipt", f) /\ (Become(a, s) \/ Become(a, Goto(a, "error"))) /\ Quiet
    BY <1>7 DEF ReconcileCommit, StorageFails, AtMostWrites
  <2> QED
    BY <1>1, <1>2, <2>1, <2>4, <2>5, <2>6, PublishTame
<1>8. CASE ReconcileDecide(a)
  <2> DEFINE d == [res |-> actor[a].res, out |-> actor[a].out]
  <2>1. actor[a].res \in Resolutions
    BY <1>8 DEF ReconcileDecide, At, TypeOK, ActorState, WellFormed
  <2>2. d \in DecisionFact
    BY <1>1, <2>1 DEF DecisionFact
  <2>3. decision' \in [Effects -> [Recs -> DecisionFact \cup {Null}]]
    <3>1. decision' = decision \/ decision' = [decision EXCEPT ![e][r] = d]
      BY <1>8 DEF ReconcileDecide
    <3>2. CASE decision' = decision
      BY <3>2 DEF TypeOK
    <3>3. CASE decision' = [decision EXCEPT ![e][r] = d]
      BY <1>1, <2>2, <3>3, DecisionWriteType
    <3> QED
      BY <3>1, <3>2, <3>3
  <2>4. Become(a, Goto(a, actor[a].res)) \/ Become(a, Goto(a, "error"))
    BY <1>8 DEF ReconcileDecide
  <2>5. PICK pc \in Safe : Become(a, Goto(a, pc))
    BY <1>2, <2>1, <2>4
  <2>6. Goto(a, pc) \in ActorState /\ Goto(a, pc).pc # "enter"
    BY <1>1, GotoType DEF Safe
  <2>7. /\ actor' \in [Actors -> ActorState]
        /\ \A b \in Actors : actor'[b].pc = "enter" => actor'[b] = actor[b]
    BY <2>5, <2>6, BecomeType
  <2> QED
    BY <1>8, <2>3, <2>7 DEF ReconcileDecide, env, Tame, TypeOK
<1> QED
  BY <1>3, <1>4, <1>5, <1>6, <1>7, <1>8 DEF ReconcileStep

\* Calls, crashes, collected answers, cancellation, the end of the Turn and the
\* executor's own progress.
LEMMA SurroundingsTame ==
    ASSUME TypeOK,
           \/ \E a \in Actors : Call(a) \/ Abandon(a) \/ Collect(a)
           \/ \E e \in Effects : Work(e)
           \/ Cancel \/ EndTurn
    PROVE  Tame
<1>1. ASSUME NEW a \in Actors, NEW s \in ActorState, Become(a, s), s.pc # "enter",
             UNCHANGED <<ledger, decision, cancelled, turn, env>>
      PROVE  Tame
  BY <1>1, ReadTame DEF Quiet
<1>2. ASSUME NEW op \in Ops, NEW pc \in {"admit", "prepare", "h_chain", "s_receipt"},
             NEW e \in Effects, NEW b \in PartialBinding, NEW o \in Outcomes \cup {Null}
      PROVE  /\ [Idle EXCEPT !.op = op, !.pc = pc, !.eff = e, !.bind = b] \in ActorState
             /\ [Idle EXCEPT !.op = op, !.pc = pc, !.eff = e, !.bind = b].pc # "enter"
             /\ [Idle EXCEPT !.op = op, !.pc = pc, !.eff = e, !.bind = b, !.out = o] \in ActorState
             /\ [Idle EXCEPT !.op = op, !.pc = pc, !.eff = e, !.bind = b, !.out = o].pc # "enter"
  BY DEF Idle, ActorState, ActorRecord, WellFormed, Steps, ToolSteps, HydrateSteps,
         ReconcileSteps, ResolveSteps
<1>3. Binding \subseteq PartialBinding /\ SavedCall \subseteq PartialBinding
  BY DEF Binding, SavedCall, PartialBinding
<1>4. ASSUME NEW a \in Actors, NEW e \in Effects, NEW b \in Binding, ToolBegin(a, e, b)
      PROVE  Tame
  <2> DEFINE pc == IF Gate THEN "admit" ELSE "prepare"
             s == [Idle EXCEPT !.op = "tool", !.pc = pc, !.eff = e, !.bind = b]
  <2>1. pc \in {"admit", "prepare"}
    OBVIOUS
  <2>2. Become(a, s)
    BY <1>4 DEF ToolBegin, Begin
  <2> HIDE DEF pc
  <2>3. s \in ActorState /\ s.pc # "enter"
    BY <1>2, <1>3, <2>1 DEF Ops
  <2> QED
    BY <1>1, <1>4, <2>2, <2>3 DEF ToolBegin
<1>5. ASSUME NEW a \in Actors, NEW e \in Effects, NEW b \in SavedCall, HydrateBegin(a, e, b)
      PROVE  Tame
  <2> DEFINE s == [Idle EXCEPT !.op = "hydrate", !.pc = "h_chain", !.eff = e, !.bind = b]
  <2>1. Become(a, s)
    BY <1>5 DEF HydrateBegin, Begin
  <2>2. s \in ActorState /\ s.pc # "enter"
    BY <1>2, <1>3 DEF Ops
  <2> QED
    BY <1>1, <1>5, <2>1, <2>2 DEF HydrateBegin
<1>6. ASSUME NEW a \in Actors, NEW e \in Effects, NEW r \in Recs, ReconcileBegin(a, e, r)
      PROVE  Tame
  <2> DEFINE s == [Idle EXCEPT !.op = "reconcile", !.pc = "r_chain", !.eff = e, !.rec = r]
  <2>1. /\ s \in ActorRecord /\ s.pc = "r_chain" /\ s.eff = e /\ s.rec = r
        /\ s.saved = Null /\ s.out = Null
    BY IdleType DEF Idle, ActorState, ActorRecord, Ops, Steps, ReconcileSteps
  <2>2. s \in ActorState /\ s.pc # "enter"
    BY <2>1, ReconcileStateType DEF ReconcileSteps
  <2> QED
    BY <1>1, <1>6, <2>2 DEF ReconcileBegin
<1>7. ASSUME NEW a \in Actors, NEW e \in Effects, NEW b \in Binding, ResolveBegin(a, e, b)
      PROVE  Tame
  <2> DEFINE s == [Idle EXCEPT !.op = "resolve", !.pc = "s_receipt", !.eff = e, !.bind = b, !.out = world[e]]
  <2>1. Become(a, s)
    BY <1>7 DEF ResolveBegin
  <2>2. world[e] \in Outcomes \cup {Null}
    BY <1>7 DEF ResolveBegin, Outcomes
  <2>3. s \in ActorState /\ s.pc # "enter"
    BY <1>2, <1>3, <2>2 DEF Ops
  <2> QED
    BY <1>1, <1>7, <2>1, <2>3 DEF ResolveBegin
<1>8. ASSUME NEW a \in Actors, Abandon(a) \/ Collect(a)
      PROVE  Tame
  BY <1>1, <1>8, IdleType DEF Abandon, Collect, Idle
<1>9. ASSUME NEW e \in Effects, Work(e)
      PROVE  Tame
  <2>1. world' \in [Effects -> Words \cup Outputs] /\ children' \subseteq Effects
    BY <1>9 DEF Work, TypeOK, Outcomes, Words
  <2> QED
    BY <1>9, <2>1 DEF Work, Tame, TypeOK
<1>10. CASE Cancel
  BY <1>10 DEF Cancel, env, Tame, TypeOK
<1>11. CASE EndTurn
  BY <1>11 DEF EndTurn, env, Tame, TypeOK
<1> QED
  BY <1>4, <1>5, <1>6, <1>7, <1>8, <1>9, <1>10, <1>11 DEF Call

\* Every step but the write-ahead start and the entry it allows is tame.
LEMMA StepsTame ==
    ASSUME TypeOK, Next, ~\E a \in Actors : Start(a) \/ Enter(a)
    PROVE  Tame
BY ToolPublicationsTame, ToolReadsTame, HydrateTame, ReconcileTame, ResolveTame, SurroundingsTame
   DEF Next, Step, ToolStep

----------------------------------------------------------------------------
\* At most one entry.

\* Inductive strengthening: an entry is preceded by the started fact, which only
\* the actor standing at the entry has not yet used up.
EntryInv ==
    /\ \A e \in Effects : entries[e] <= 1 /\ (ledger[e]["started"] = Null => entries[e] = 0)
    /\ \A a \in Actors : actor[a].pc = "enter" =>
          ledger[actor[a].eff]["started"] # Null /\ entries[actor[a].eff] = 0
    /\ \A a, b \in Actors : a # b /\ actor[a].pc = "enter" /\ actor[b].pc = "enter"
          => actor[a].eff # actor[b].eff

\* What Start does: the fact is written exactly when the actor goes on to enter.
LEMMA StartStep ==
    ASSUME TypeOK, NEW a \in Actors, Start(a)
    PROVE  \/ Tame
           \/ /\ Write(actor[a].eff, "started", StartedPayload(actor[a].bind))
              /\ ledger[actor[a].eff]["started"] = Null /\ ~cancelled
              /\ \/ Become(a, Goto(a, "enter")) \/ Become(a, Goto(a, "uncertain"))
              /\ Quiet
<1>0. actor[a].pc \in Steps
  BY DEF Start, At, Steps, ToolSteps
<1>1. "cancelled" \in Safe /\ "uncertain" \in Safe
  BY DEF Safe, Plain, Returns
<1> QED
  BY <1>0, <1>1, GotoTame DEF Start, AppendUnlessCancelled, StorageFails

\* The write-ahead start keeps the types.
LEMMA StartType ==
    ASSUME TypeOK, NEW a \in Actors, Start(a)
    PROVE  TypeOK'
<1>0. actor[a].pc \in Steps
  BY DEF Start, At, Steps, ToolSteps
<1>1. CASE Tame
  BY <1>1 DEF Tame
<1>2. CASE /\ Write(actor[a].eff, "started", StartedPayload(actor[a].bind))
           /\ \/ Become(a, Goto(a, "enter")) \/ Become(a, Goto(a, "uncertain"))
           /\ Quiet
  <2>1. StartedPayload(actor[a].bind) \in Fact /\ "started" \in Kinds
    BY <1>0, AtStep, PayloadType DEF Kinds
  <2>2. ledger' \in [Effects -> [Kinds -> Fact \cup {Null}]]
    BY <1>0, <1>2, <2>1, AtStep, WriteType
  <2>3. Goto(a, "enter") \in ActorState /\ Goto(a, "uncertain") \in ActorState
    BY <1>0, AtStep, GotoType DEF Plain, ToolSteps, Returns
  <2>4. actor' \in [Actors -> ActorState]
    BY <1>2, <2>3, BecomeType
  <2> QED
    BY <1>2, <2>2, <2>4 DEF Quiet, env, TypeOK
<1> QED
  BY <1>1, <1>2, StartStep

\* The entry keeps the types.
LEMMA EnterType ==
    ASSUME TypeOK, NEW a \in Actors, Enter(a)
    PROVE  TypeOK'
<1>0. actor[a].pc \in Steps /\ actor[a].eff \in Effects
  BY AtStep DEF Enter, At, Steps, ToolSteps
<1>1. Goto(a, "run") \in ActorState
  BY <1>0, GotoType DEF Plain, ToolSteps
<1>2. actor' \in [Actors -> ActorState]
  BY <1>1, BecomeType DEF Enter
<1>3. entries' \in [Effects -> Nat]
  BY <1>0 DEF Enter, TypeOK
<1>4. world' \in [Effects -> Words \cup Outputs]
  BY <1>0 DEF Enter, TypeOK, Words
<1> QED
  BY <1>2, <1>3, <1>4 DEF Enter, TypeOK

\* Every reachable state of the journal is well typed.
THEOREM TypeCorrect == Spec => []TypeOK
<1>1. Init => TypeOK
  <2> SUFFICES ASSUME Init PROVE TypeOK
    OBVIOUS
  <2>1. actor \in [Actors -> ActorState]
    BY IdleType DEF Init
  <2>2. ledger \in [Effects -> [Kinds -> Fact \cup {Null}]]
    BY DEF Init
  <2>3. decision \in [Effects -> [Recs -> DecisionFact \cup {Null}]]
    BY DEF Init
  <2>4. world \in [Effects -> Words \cup Outputs] /\ entries \in [Effects -> Nat]
    BY DEF Init, Words
  <2> QED
    BY <2>1, <2>2, <2>3, <2>4 DEF Init, TypeOK
<1>2. TypeOK /\ [Next]_vars => TypeOK'
  <2> SUFFICES ASSUME TypeOK, [Next]_vars PROVE TypeOK'
    OBVIOUS
  <2>1. CASE UNCHANGED vars
    BY <2>1 DEF vars, TypeOK
  <2>2. CASE \E a \in Actors : Start(a) \/ Enter(a)
    BY <2>2, StartType, EnterType
  <2>3. CASE Next /\ ~\E a \in Actors : Start(a) \/ Enter(a)
    BY <2>3, StepsTame DEF Tame
  <2> QED
    BY <2>1, <2>2, <2>3
<1> QED
  BY <1>1, <1>2, PTL DEF Spec

\* A tame step preserves the entry invariant.
LEMMA EntryInvTame ==
    ASSUME TypeOK, EntryInv, Tame
    PROVE  EntryInv'
<1>1. \A a \in Actors : actor'[a].pc = "enter" => actor'[a] = actor[a] /\ actor[a].eff \in Effects
  BY AtStep DEF Tame, Steps, ToolSteps
<1>2. /\ entries' = entries
      /\ \A e \in Effects : ledger'[e]["started"] = ledger[e]["started"]
  BY DEF Tame
<1> QED
  BY <1>1, <1>2 DEF EntryInv

\* The write-ahead start preserves it: the append that wins finds no other claim.
LEMMA EntryInvStart ==
    ASSUME TypeOK, EntryInv, NEW a \in Actors, Start(a)
    PROVE  EntryInv'
<1> DEFINE e == actor[a].eff
<1>0. actor[a].pc \in Steps /\ actor[a].eff \in Effects /\ actor[a].pc = "start"
  BY AtStep DEF Start, At, Steps, ToolSteps
<1>1. CASE Tame
  BY <1>1, EntryInvTame
<1>2. CASE /\ Write(e, "started", StartedPayload(actor[a].bind))
           /\ ledger[e]["started"] = Null
           /\ \/ Become(a, Goto(a, "enter")) \/ Become(a, Goto(a, "uncertain"))
           /\ Quiet
  <2>1. StartedPayload(actor[a].bind) \in Fact /\ "started" \in Kinds
    BY <1>0, AtStep, PayloadType DEF Kinds
  <2>2. /\ ledger'[e]["started"] # Null
        /\ \A d \in Effects : d # e => ledger'[d]["started"] = ledger[d]["started"]
    <3>1. StartedPayload(actor[a].bind) # Null
      BY <1>0, <2>1, NullNoFact
    <3> QED
      BY <1>0, <1>2, <2>1, <3>1, WriteType
  <2>3. entries' = entries /\ entries[e] = 0
    BY <1>0, <1>2 DEF Quiet, env, EntryInv
  <2>4. /\ \A b \in Actors \ {a} : actor'[b] = actor[b]
        /\ actor'[a].eff = e
    <3>1. ASSUME NEW pc \in {"enter", "uncertain"}, Become(a, Goto(a, pc))
          PROVE  /\ \A b \in Actors \ {a} : actor'[b] = actor[b]
                 /\ actor'[a].eff = e
      <4>1. Goto(a, pc) \in ActorState
        BY <1>0, GotoType DEF Plain, ToolSteps, Returns
      <4>2. Goto(a, pc).eff = e
        BY DEF Goto, TypeOK, ActorState, ActorRecord
      <4> QED
        BY <3>1, <4>1, <4>2, BecomeType
    <3> QED
      BY <1>2, <3>1
  <2>5. \A b \in Actors \ {a} : actor[b].pc = "enter" => actor[b].eff # e /\ actor[b].eff \in Effects
    BY <1>2, AtStep DEF EntryInv, Steps, ToolSteps
  <2> QED
    BY <1>0, <2>2, <2>3, <2>4, <2>5 DEF EntryInv
<1> QED
  BY <1>1, <1>2, StartStep

\* The entry preserves it: the one claimant spends its claim.
LEMMA EntryInvEnter ==
    ASSUME TypeOK, EntryInv, NEW a \in Actors, Enter(a)
    PROVE  EntryInv'
<1> DEFINE e == actor[a].eff
<1>0. actor[a].pc \in Steps /\ actor[a].eff \in Effects /\ actor[a].pc = "enter"
  BY AtStep DEF Enter, At, Steps, ToolSteps
<1>1. Goto(a, "run") \in ActorState /\ Goto(a, "run").pc = "run"
  BY <1>0, GotoType DEF Plain, ToolSteps
<1>2. actor'[a].pc = "run" /\ \A b \in Actors \ {a} : actor'[b] = actor[b]
  BY <1>1, BecomeType DEF Enter
<1>3. \A b \in Actors \ {a} : actor[b].pc = "enter" => actor[b].eff # e /\ actor[b].eff \in Effects
  BY <1>0, AtStep DEF EntryInv, Steps, ToolSteps
<1>4. entries'[e] = 1 /\ \A d \in Effects \ {e} : entries'[d] = entries[d]
  BY <1>0 DEF Enter, EntryInv, TypeOK
<1>5. ledger' = ledger /\ ledger[e]["started"] # Null
  BY <1>0 DEF Enter, EntryInv
<1> QED
  BY <1>2, <1>3, <1>4, <1>5 DEF EntryInv

\* So does every step of the journal.
LEMMA EntryInvNext ==
    ASSUME TypeOK, EntryInv, [Next]_vars
    PROVE  EntryInv'
<1>1. CASE UNCHANGED vars
  BY <1>1 DEF vars, EntryInv
<1>2. CASE \E a \in Actors : Start(a) \/ Enter(a)
  BY <1>2, EntryInvStart, EntryInvEnter
<1>3. CASE Next /\ ~\E a \in Actors : Start(a) \/ Enter(a)
  BY <1>3, StepsTame, EntryInvTame
<1> QED
  BY <1>1, <1>2, <1>3

\* The entry invariant holds throughout.
LEMMA EntryInvariant == Spec => []EntryInv
<1>1. Init => EntryInv
  BY DEF Init, EntryInv, Idle, Kinds
<1>2. TypeOK /\ EntryInv /\ [Next]_vars => EntryInv'
  BY EntryInvNext
<1> QED
  BY <1>1, <1>2, TypeCorrect, PTL DEF Spec

\* However tool attempts, hydrations, reconciliations and resolutions race, crash
\* and are repeated, the inner executor is entered at most once per effect.
THEOREM EnteredAtMostOnce == Spec => []AtMostOnceEntry
<1>1. EntryInv => AtMostOnceEntry
  BY DEF EntryInv, AtMostOnceEntry
<1> QED
  BY <1>1, EntryInvariant, PTL

\* Once the ledger holds the cancellation, an unstarted effect is never started
\* or entered.
THEOREM CancellationFences == Spec => NoEntryAfterCancel
<1> DEFINE A == \A e \in Effects :
                   cancelled /\ ledger[e]["started"] = Null
                   => ledger'[e]["started"] = Null /\ entries'[e] = 0
<1>1. TypeOK /\ EntryInv /\ [Next]_vars => [A]_vars
  <2> SUFFICES ASSUME TypeOK, EntryInv, Next PROVE A
    OBVIOUS
  <2>1. ASSUME Tame PROVE A
    BY <2>1 DEF Tame, EntryInv
  <2>2. ASSUME NEW a \in Actors, Start(a) PROVE A
    BY <2>1, <2>2, StartStep DEF EntryInv
  <2>3. ASSUME NEW a \in Actors, Enter(a) PROVE A
    <3>1. actor[a].pc = "enter" /\ actor[a].eff \in Effects
      BY <2>3, AtStep DEF Enter, At, Steps, ToolSteps
    <3>2. ledger' = ledger /\ \A d \in Effects : d # actor[a].eff => entries'[d] = entries[d]
      BY <2>3 DEF Enter, TypeOK
    <3> QED
      BY <3>1, <3>2 DEF EntryInv
  <2> QED
    BY <2>1, <2>2, <2>3, StepsTame
<1> QED
  BY <1>1, TypeCorrect, EntryInvariant, PTL DEF Spec, NoEntryAfterCancel

----------------------------------------------------------------------------
(* What the facts of an effect say of it. *)

\* An operation takes its own steps, on an effect.
Fits(op, pc) ==
    /\ pc \in ToolSteps => op = "tool"
    /\ pc \in HydrateSteps => op = "hydrate"
    /\ pc \in ReconcileSteps => op = "reconcile"
    /\ pc \in ResolveSteps => op = "resolve"

Home(s) == Fits(s.op, s.pc) /\ (s.pc # "idle" => s.eff \in Effects)

\* What an operation that is about to publish or has answered rests on.
Claims(s) ==
    LET L == ledger[s.eff] IN
    /\ s.pc \in {"receipt", "s_receipt", "r_commit"} => world[s.eff] = s.out /\ s.out \in Outcomes
    /\ s.pc \in {"s_receipt", "s_project", "r_commit"} => s.out \in Outputs
    /\ s.pc \in {"project", "s_project"} => L["receipt"] = ReceiptPayload(s.bind, s.out)
    /\ s.pc \in {"verify", "after_receipt", "completed", "failed", "committed"} =>
          L["receipt"] # Null /\ L["receipt"].out = s.out
    /\ s.pc = "h_project" => s.saved = L["receipt"] /\ s.out = s.saved.out
    /\ s.pc = "r_decision" /\ s.saved # Null => s.saved = L["receipt"]
    /\ s.pc = "r_decide" /\ s.res = "committed" =>
          L["receipt"] # Null /\ L["receipt"].via = s.rec /\ L["receipt"].out = s.out
    /\ s.pc = "awaiting" => L["waiting"] # Null
    /\ Hooks /\ s.op = "tool" /\ s.pc \in {"completed", "failed"} => s.eff \in observed

EvidenceInv ==
    /\ EvidenceAgrees
    /\ \A e \in Effects : ledger[e]["receipt"] # Null => ledger[e]["receipt"].out \in Outcomes
    /\ \A a \in Actors : Home(actor[a]) /\ Claims(actor[a])

\* An operation behind the Tool boundary.
Passed(s) == s.op = "tool" /\ s.pc \notin {"idle", "admit", "stopped", "conflict"}

Before == {"prepare", "read_receipt", "read_waiting", "read_started", "before_effect",
           "authorize", "start"}

Refusals == {"error", "denied", "cancelled"}

\* The admission is the only ticket to the start, and one call holds it.
Ticket(s) ==
    Passed(s) =>
        /\ ledger[s.eff]["admitted"] # Null
        /\ s.pc \in Before => ledger[s.eff]["started"] = Null
        /\ s.pc \notin {"recover", "recovered_wait"}
        /\ s.pc \in Refusals => ledger[s.eff]["receipt"] # Null \/ entries[s.eff] = 0

GateInv ==
    Gate =>
        /\ \A e \in Effects : ledger[e]["started"] # Null => ledger[e]["admitted"] # Null
        /\ \A a \in Actors : Ticket(actor[a])
        /\ \A a, b \in Actors :
              a # b /\ Passed(actor[a]) /\ Passed(actor[b]) => actor[a].eff # actor[b].eff

----------------------------------------------------------------------------
\* What steps leave alone.

\* Facts, what the executor has done and observations stay.
Persist ==
    /\ \A e \in Effects, k \in Kinds : ledger[e][k] # Null => ledger'[e][k] = ledger[e][k]
    /\ \A e \in Effects : world[e] \in Outcomes => world'[e] = world[e]
    /\ observed \subseteq observed'

\* A fact that may be published: a receipt of what happened, a projection of the receipt.
Truthful(e, k, f) ==
    /\ k = "receipt" => f.out \in Outcomes /\ world[e] = f.out
    /\ k \in {"completed", "failed"} => f = ledger[e]["receipt"] /\ Answer(f.out) = k

\* The kinds of facts the proofs name.
LEMMA KindNames ==
    {"admitted", "prepared", "authorized", "started", "waiting", "receipt", "completed", "failed",
     "uncertain"} \subseteq Kinds
BY DEF Kinds

\* A publication keeps every earlier fact.
LEMMA WritePersist ==
    ASSUME TypeOK, NEW e \in Effects, NEW k \in Kinds, NEW f \in Fact, AtMostWrites(e, k, f), Quiet
    PROVE  Persist
<1>1. UNCHANGED <<world, observed>>
  BY DEF Quiet, env
<1>2. \A d \in Effects, j \in Kinds : ledger[d][j] # Null => ledger'[d][j] = ledger[d][j]
  BY WriteType DEF AtMostWrites
<1> QED
  BY <1>1, <1>2 DEF Persist

\* What an operation rests on stays.
LEMMA ClaimsPersist ==
    ASSUME TypeOK, NEW s \in ActorState, Home(s), Claims(s), Persist
    PROVE  Claims(s)'
<1>1. CASE s.pc = "idle"
  BY <1>1 DEF Claims
<1>2. CASE s.pc # "idle"
  <2>1. s.eff \in Effects
    BY <1>2 DEF Home
  <2>2. /\ \A k \in {"receipt", "waiting"} :
              ledger[s.eff][k] # Null => ledger'[s.eff][k] = ledger[s.eff][k]
    BY <2>1, KindNames DEF Persist
  <2>3. s.pc \in {"project", "s_project"} => ledger[s.eff]["receipt"] # Null
    <3>1. ReceiptPayload(s.bind, s.out) \in Fact
      BY PayloadType DEF ActorState, ActorRecord
    <3> QED
      BY <3>1, NullNoFact DEF Claims
  <2>4. s.pc = "h_project" => s.saved # Null
    BY NullNoFact DEF ActorState, WellFormed
  <2> QED
    BY <2>1, <2>2, <2>3, <2>4 DEF Claims, Persist
<1> QED
  BY <1>1, <1>2

\* One operation moves to a place it may rest at, the others are where they were.
LEMMA EvidenceStep ==
    ASSUME TypeOK, EvidenceInv, NEW a \in Actors, NEW s \in ActorState, Become(a, s),
           Home(s), Claims(s)', Persist, EvidenceAgrees',
           (\A e \in Effects : ledger[e]["receipt"] # Null => ledger[e]["receipt"].out \in Outcomes)'
    PROVE  EvidenceInv'
<1>1. actor'[a] = s /\ \A b \in Actors \ {a} : actor'[b] = actor[b]
  BY BecomeType
<1>2. ASSUME NEW b \in Actors PROVE Home(actor'[b]) /\ Claims(actor[b])'
  <2>1. CASE b = a
    BY <1>1, <2>1 DEF Claims
  <2>2. CASE b # a
    <3>1. PICK u \in ActorState : u = actor[b] /\ u = actor'[b]
      BY <1>1, <2>2 DEF TypeOK
    <3>2. Home(u) /\ Claims(u)
      BY <3>1 DEF EvidenceInv
    <3>3. Claims(u)'
      BY <3>2, ClaimsPersist
    <3> QED
      BY <3>1, <3>2, <3>3 DEF Claims
  <2> QED
    BY <2>1, <2>2
<1>3. \A b \in Actors : Home(actor[b])' /\ Claims(actor[b])'
  BY <1>2 DEF Home
<1> QED
  BY <1>3 DEF EvidenceInv

\* A truthful publication keeps the facts in agreement.
LEMMA TruthfulAgrees ==
    ASSUME TypeOK, EvidenceInv, NEW e \in Effects, NEW k \in Kinds, NEW f \in Fact,
           AtMostWrites(e, k, f), Truthful(e, k, f), Quiet
    PROVE  /\ EvidenceAgrees'
           /\ (\A d \in Effects : ledger[d]["receipt"] # Null => ledger[d]["receipt"].out \in Outcomes)'
<1>0. UNCHANGED <<world, decision>>
  BY DEF Quiet, env
<1>1. CASE UNCHANGED ledger
  BY <1>0, <1>1 DEF EvidenceInv, EvidenceAgrees, ReceiptTruth, ProjectionsFollowReceipt, DecisionsBacked
<1>2. CASE ledger[e][k] = Null /\ Write(e, k, f)
  <2>1. /\ ledger'[e][k] = f
        /\ \A d \in Effects, j \in Kinds : (d # e \/ j # k) => ledger'[d][j] = ledger[d][j]
    BY <1>2, WriteType
  <2>2. \A d \in Effects : ledger'[d]["receipt"] # Null =>
            ledger'[d]["receipt"].out \in Outcomes /\ world'[d] = ledger'[d]["receipt"].out
    BY <1>0, <2>1, KindNames DEF EvidenceInv, EvidenceAgrees, ReceiptTruth, Truthful
  <2>3. \A d \in Effects : ledger[d]["receipt"] # Null => ledger'[d]["receipt"] = ledger[d]["receipt"]
    BY <1>2, <2>1, KindNames
  <2>4. ProjectionsFollowReceipt'
    <3> SUFFICES ASSUME NEW d \in Effects, NEW j \in {"completed", "failed"}, ledger'[d][j] # Null
                 PROVE  /\ ledger'[d][j] = ledger'[d]["receipt"]
                        /\ Answer(ledger'[d]["receipt"].out) = j
      BY DEF ProjectionsFollowReceipt
    <3>1. CASE d = e /\ j = k
      <4>1. ledger[d]["receipt"] = f /\ f # Null /\ Answer(f.out) = j
        BY <3>1, NullNoFact DEF Truthful
      <4> QED
        BY <2>1, <2>3, <3>1, <4>1
    <3>2. CASE d # e \/ j # k
      <4>1. ledger'[d][j] = ledger[d][j]
        BY <2>1, <3>2, KindNames
      <4>2. ledger[d][j] = ledger[d]["receipt"] /\ Answer(ledger[d]["receipt"].out) = j
        BY <4>1 DEF EvidenceInv, EvidenceAgrees, ProjectionsFollowReceipt
      <4> QED
        BY <2>3, <4>1, <4>2
    <3> QED
      BY <3>1, <3>2
  <2>5. DecisionsBacked'
    BY <1>0, <2>3 DEF EvidenceInv, EvidenceAgrees, DecisionsBacked
  <2> QED
    BY <2>2, <2>4, <2>5 DEF EvidenceAgrees, ReceiptTruth
<1> QED
  BY <1>1, <1>2 DEF AtMostWrites

\* A truthful publication that moves its operation to a place it may rest at.
LEMMA PublishEvidence ==
    ASSUME TypeOK, EvidenceInv, NEW a \in Actors, NEW e \in Effects, NEW k \in Kinds, NEW f \in Fact,
           AtMostWrites(e, k, f), Truthful(e, k, f), Quiet,
           NEW s \in ActorState, Become(a, s), Home(s), Claims(s)'
    PROVE  EvidenceInv'
BY WritePersist, TruthfulAgrees, EvidenceStep

\* A read that moves its operation to a place it may rest at.
LEMMA ReadEvidence ==
    ASSUME TypeOK, EvidenceInv, NEW a \in Actors, UNCHANGED ledger, Quiet,
           NEW s \in ActorState, Become(a, s), Home(s), Claims(s)
    PROVE  EvidenceInv'
<1>0. UNCHANGED <<ledger, world, observed, decision>>
  BY DEF Quiet, env
<1>1. Persist
  BY <1>0 DEF Persist
<1>2. Claims(s)'
  BY <1>0 DEF Claims
<1>3. EvidenceAgrees' /\ (\A d \in Effects : ledger[d]["receipt"] # Null => ledger[d]["receipt"].out \in Outcomes)'
  BY <1>0 DEF EvidenceInv, EvidenceAgrees, ReceiptTruth, ProjectionsFollowReceipt, DecisionsBacked
<1> QED
  BY <1>1, <1>2, <1>3, EvidenceStep

----------------------------------------------------------------------------
\* The publishers.

\* An operation whose publication found nothing yet rests on what it did before.
LEMMA SeenEvidence ==
    ASSUME TypeOK, EvidenceInv, NEW a \in Actors
    PROVE  Seen(a) \in ActorState /\ Home(Seen(a)) /\ Claims(Seen(a))
<1>1. actor[a] \in ActorRecord /\ Home(actor[a]) /\ Claims(actor[a])
  BY DEF TypeOK, ActorState, EvidenceInv
<1>2. /\ Seen(a).op = actor[a].op /\ Seen(a).pc = actor[a].pc /\ Seen(a).eff = actor[a].eff
      /\ Seen(a).bind = actor[a].bind /\ Seen(a).out = actor[a].out /\ Seen(a).rec = actor[a].rec
      /\ Seen(a).res = actor[a].res /\ Seen(a).saved = actor[a].saved
  BY <1>1 DEF Seen, ActorRecord
<1>3. Home(Seen(a)) /\ Claims(Seen(a))
  BY <1>1, <1>2 DEF Home, Claims
<1> QED
  BY <1>3, SeenType

\* append_once of a truthful fact.
LEMMA AppendOnceEvidence ==
    ASSUME TypeOK, EvidenceInv, NEW a \in Actors, actor[a].eff \in Effects, Quiet,
           NEW k \in Kinds, NEW f \in Fact, Truthful(actor[a].eff, k, f),
           NEW ok \in ActorState, NEW fail \in ActorState, Home(ok), Home(fail),
           AppendOnce(a, k, f, ok, fail),
           ledger'[actor[a].eff][k] = f => Claims(ok)', Claims(fail)'
    PROVE  EvidenceInv'
<1>1. PICK e \in Effects : e = actor[a].eff
  OBVIOUS
<1>2. AtMostWrites(e, k, f)
  BY <1>1, AppendOnceStep
<1>3. CASE Become(a, ok) /\ ledger'[e][k] = f
  BY <1>1, <1>2, <1>3, PublishEvidence
<1>4. CASE Become(a, fail)
  BY <1>1, <1>2, <1>4, PublishEvidence
<1>5. CASE Become(a, Seen(a)) /\ UNCHANGED ledger
  BY <1>5, SeenEvidence, ReadEvidence
<1>6. CASE Become(a, ok) /\ ((ledger[e][k] = f /\ UNCHANGED ledger) \/ Write(e, k, f))
  BY <1>3, <1>6, WriteType
<1> QED
  BY <1>1, <1>4, <1>5, <1>6 DEF AppendOnce, StorageFails

\* append_unless_cancelled of a truthful fact.
LEMMA AppendUnlessCancelledEvidence ==
    ASSUME TypeOK, EvidenceInv, NEW a \in Actors, actor[a].eff \in Effects, Quiet,
           NEW k \in Kinds, NEW f \in Fact, Truthful(actor[a].eff, k, f),
           NEW ok \in ActorState, NEW stop \in ActorState, NEW fail \in ActorState,
           Home(ok), Home(stop), Home(fail),
           AppendUnlessCancelled(a, k, f, ok, stop, fail),
           ledger'[actor[a].eff][k] = f => Claims(ok)', Claims(stop)', Claims(fail)'
    PROVE  EvidenceInv'
<1>1. PICK e \in Effects : e = actor[a].eff
  OBVIOUS
<1>2. AtMostWrites(e, k, f)
  BY <1>1, AppendUnlessCancelledStep
<1>3. CASE Become(a, ok) /\ Write(e, k, f)
  <2>1. ledger'[e][k] = f
    BY <1>3, WriteType
  <2> QED
    BY <1>1, <1>2, <1>3, <2>1, PublishEvidence
<1>4. CASE Become(a, fail)
  BY <1>1, <1>2, <1>4, PublishEvidence
<1>5. CASE Become(a, stop)
  BY <1>1, <1>2, <1>5, PublishEvidence
<1> QED
  BY <1>1, <1>3, <1>4, <1>5 DEF AppendUnlessCancelled, StorageFails

\* Places that rest on nothing.
Free == (Plain \cup {"r_receipt", "r_inspect"})
        \ {"receipt", "s_receipt", "s_project", "project", "verify", "after_receipt",
           "completed", "failed", "committed", "awaiting"}

\* An answer fits every operation.
LEMMA ReturnFits ==
    ASSUME NEW op, NEW pc \in Returns
    PROVE  Fits(op, pc)
BY DEF Fits, Returns, Resolutions, ToolSteps, HydrateSteps, ReconcileSteps, ResolveSteps

\* Going on to an answer or to a step of one's own operation.
LEMMA GotoHome ==
    ASSUME TypeOK, NEW a \in Actors, actor[a].eff \in Effects, NEW pc \in Plain, Fits(actor[a].op, pc)
    PROVE  /\ Goto(a, pc) \in ActorState /\ Home(Goto(a, pc))
           /\ Goto(a, pc).op = actor[a].op /\ Goto(a, pc).pc = pc /\ Goto(a, pc).eff = actor[a].eff
           /\ Goto(a, pc).bind = actor[a].bind /\ Goto(a, pc).out = actor[a].out
<1>1. actor[a] \in ActorRecord
  BY DEF TypeOK, ActorState
<1>2. /\ Goto(a, pc).op = actor[a].op /\ Goto(a, pc).pc = pc /\ Goto(a, pc).eff = actor[a].eff
      /\ Goto(a, pc).bind = actor[a].bind /\ Goto(a, pc).out = actor[a].out
  BY <1>1 DEF Goto, ActorRecord
<1> QED
  BY <1>2, GotoType DEF Home

\* A place that rests on nothing.
LEMMA FreeClaims ==
    ASSUME NEW s, s.pc \in Free
    PROVE  Claims(s) /\ Claims(s)'
<1>1. s.pc \notin {"receipt", "s_receipt", "r_commit", "s_project", "project", "verify", "after_receipt",
                   "completed", "failed", "committed", "h_project", "r_decision", "r_decide", "awaiting"}
  BY DEF Free, Plain, ToolSteps, ResolveSteps, Returns, Resolutions
<1> QED
  BY <1>1 DEF Claims

\* Going on to a place that rests on nothing.
LEMMA GotoFree ==
    ASSUME TypeOK, NEW a \in Actors, actor[a].eff \in Effects,
           NEW pc \in Free \cap Plain, Fits(actor[a].op, pc)
    PROVE  \E s \in ActorState : s = Goto(a, pc) /\ Home(s) /\ Claims(s) /\ Claims(s)'
<1>1. PICK s \in ActorState : s = Goto(a, pc) /\ Home(s) /\ s.pc = pc
  BY GotoHome
<1>2. Claims(s) /\ Claims(s)'
  BY <1>1, FreeClaims
<1> QED
  BY <1>1, <1>2

\* Reading and going on to a place that rests on nothing.
LEMMA GotoEvidence ==
    ASSUME TypeOK, EvidenceInv, NEW a \in Actors, actor[a].eff \in Effects,
           NEW pc \in Free \cap Plain, Fits(actor[a].op, pc),
           Become(a, Goto(a, pc)), UNCHANGED ledger, Quiet
    PROVE  EvidenceInv'
BY GotoFree, ReadEvidence

\* atomic_publication of a truthful fact.
LEMMA AtomicPublicationEvidence ==
    ASSUME TypeOK, EvidenceInv, NEW a \in Actors, actor[a].eff \in Effects, Quiet,
           NEW k \in Kinds, NEW f \in Fact, Truthful(actor[a].eff, k, f),
           NEW ok \in ActorState, Home(ok),
           AtomicPublication(a, k, f, ok),
           ledger'[actor[a].eff][k] = f => Claims(ok)'
    PROVE  EvidenceInv'
<1>1. PICK e \in Effects : e = actor[a].eff
  OBVIOUS
<1>2. /\ "cancelled" \in Free \cap Plain /\ "error" \in Free \cap Plain
      /\ Fits(actor[a].op, "cancelled") /\ Fits(actor[a].op, "error")
  BY ReturnFits DEF Free, Plain, Returns
<1>3. PICK stop \in ActorState : stop = Goto(a, "cancelled") /\ Home(stop) /\ Claims(stop) /\ Claims(stop)'
  BY <1>2, GotoFree
<1>4. PICK fail \in ActorState : fail = Goto(a, "error") /\ Home(fail) /\ Claims(fail) /\ Claims(fail)'
  BY <1>2, GotoFree
<1>5. CASE AppendUnlessCancelled(a, k, f, ok, stop, fail)
  BY <1>3, <1>4, <1>5, AppendUnlessCancelledEvidence
<1>6. CASE UNCHANGED ledger /\ (Become(a, stop) \/ Become(a, fail))
  BY <1>3, <1>4, <1>6, ReadEvidence
<1>7. CASE UNCHANGED ledger /\ Become(a, Seen(a))
  BY <1>7, SeenEvidence, ReadEvidence
<1>8. CASE UNCHANGED ledger /\ Become(a, ok) /\ ledger[e][k] = f
  <2>1. AtMostWrites(e, k, f) /\ ledger'[e][k] = f
    BY <1>8 DEF AtMostWrites
  <2> QED
    BY <1>1, <1>8, <2>1, PublishEvidence
<1> QED
  BY <1>1, <1>3, <1>4, <1>5, <1>6, <1>7, <1>8 DEF AtomicPublication, NotResumable

\* Facts that say nothing of an outcome.
Dull == Kinds \ {"receipt", "completed", "failed"}

\* append_once of such a fact, going on to places that rest on nothing.
LEMMA AppendOnceDull ==
    ASSUME TypeOK, EvidenceInv, NEW a \in Actors, actor[a].eff \in Effects, Quiet,
           NEW k \in Dull, NEW f \in Fact, NEW p \in Free \cap Plain, NEW q \in Free \cap Plain,
           Fits(actor[a].op, p), Fits(actor[a].op, q),
           AppendOnce(a, k, f, Goto(a, p), Goto(a, q))
    PROVE  EvidenceInv'
<1>1. PICK ok \in ActorState : ok = Goto(a, p) /\ Home(ok) /\ Claims(ok) /\ Claims(ok)'
  BY GotoFree
<1>2. PICK fail \in ActorState : fail = Goto(a, q) /\ Home(fail) /\ Claims(fail) /\ Claims(fail)'
  BY GotoFree
<1>3. Truthful(actor[a].eff, k, f) /\ k \in Kinds
  BY DEF Truthful, Dull
<1>4. AppendOnce(a, k, f, ok, fail)
  BY <1>1, <1>2
<1> QED
  BY <1>1, <1>2, <1>3, <1>4, AppendOnceEvidence

\* append_unless_cancelled of such a fact; with the fact in the ledger, the operation
\* may go on to a place that rests on it.
LEMMA AppendUnlessCancelledDull ==
    ASSUME TypeOK, EvidenceInv, NEW a \in Actors, actor[a].eff \in Effects, Quiet,
           NEW k \in Dull, NEW f \in Fact,
           NEW p \in (Free \cap Plain) \cup {"awaiting"}, p = "awaiting" => k = "waiting",
           NEW q \in Free \cap Plain, NEW r \in Free \cap Plain,
           Fits(actor[a].op, p), Fits(actor[a].op, q), Fits(actor[a].op, r),
           AppendUnlessCancelled(a, k, f, Goto(a, p), Goto(a, q), Goto(a, r))
    PROVE  EvidenceInv'
<1>0. p \in Plain
  BY DEF Plain, Returns
<1>1. PICK ok \in ActorState : ok = Goto(a, p) /\ Home(ok) /\ ok.pc = p /\ ok.eff = actor[a].eff
  BY <1>0, GotoHome
<1>2. PICK stop \in ActorState : stop = Goto(a, q) /\ Home(stop) /\ Claims(stop) /\ Claims(stop)'
  BY GotoFree
<1>3. PICK fail \in ActorState : fail = Goto(a, r) /\ Home(fail) /\ Claims(fail) /\ Claims(fail)'
  BY GotoFree
<1>4. Truthful(actor[a].eff, k, f) /\ k \in Kinds
  BY DEF Truthful, Dull
<1>5. AppendUnlessCancelled(a, k, f, ok, stop, fail)
  BY <1>1, <1>2, <1>3
<1>6. PICK e \in Effects : e = actor[a].eff
  OBVIOUS
<1>7. ledger'[e][k] = f => Claims(ok)'
  <2>1. CASE p \in Free
    BY <1>1, <2>1, FreeClaims
  <2>2. CASE p = "awaiting" /\ k = "waiting"
    BY <1>1, <1>6, <2>2, NullNoFact DEF Claims
  <2> QED
    BY <2>1, <2>2
<1> QED
  BY <1>1, <1>2, <1>3, <1>4, <1>5, <1>6, <1>7, AppendUnlessCancelledEvidence

----------------------------------------------------------------------------
\* execute_invocation.

\* An operation at a step of its own has an effect, its types and what it rests on.
LEMMA Resting ==
    ASSUME TypeOK, EvidenceInv, NEW a \in Actors, actor[a].pc \in Steps
    PROVE  /\ actor[a].eff \in Effects /\ actor[a] \in ActorRecord /\ actor[a] \in ActorState
           /\ actor[a].bind \in PartialBinding /\ actor[a].out \in Outcomes \cup {Null}
           /\ Home(actor[a]) /\ Claims(actor[a])
BY AtStep DEF EvidenceInv, TypeOK

\* Where execute_invocation goes without resting on anything.
LEMMA ToolFree ==
    \A pc \in {"admit", "prepare", "stopped", "conflict", "read_receipt", "error", "cancelled",
               "mark_uncertain", "read_waiting", "read_started", "uncertain", "recover",
               "recovered_wait", "before_effect", "authorize", "denied", "start", "enter", "run", "wait"} :
        pc \in Free \cap Plain /\ Fits("tool", pc)
BY DEF Free, Plain, ToolSteps, Returns, Resolutions, Fits, HydrateSteps, ReconcileSteps, ResolveSteps

\* The facts before the outcome say nothing of it.
LEMMA ToolDullEvidence ==
    ASSUME TypeOK, EvidenceInv, NEW a \in Actors,
           \/ Admit(a) \/ Prepare(a) \/ Authorize(a) \/ Start(a)
           \/ PublishRecoveredWait(a) \/ PublishWait(a) \/ MarkUncertain(a)
    PROVE  EvidenceInv'
<1> DEFINE b == actor[a].bind
<1>0. actor[a].pc \in ToolSteps /\ actor[a].pc \in Steps
  BY DEF Admit, Prepare, Authorize, Start, PublishRecoveredWait, PublishWait, MarkUncertain,
         At, Steps, ToolSteps
<1>1. actor[a].eff \in Effects /\ actor[a].op = "tool"
  BY <1>0, Resting DEF Home, Fits
<1>2. /\ PreparedPayload(b) \in Fact /\ AuthorizedPayload(b) \in Fact /\ WaitPayload(b) \in Fact
      /\ StartedPayload(b) \in Fact /\ Mark \in Fact
  BY <1>0, Resting, PayloadType, MarkType
<1>3. {"admitted", "prepared", "authorized", "started", "waiting", "uncertain"} \subseteq Dull
  BY DEF Dull, Kinds
<1>4. /\ Fits(actor[a].op, "awaiting")
      /\ \A pc \in {"prepare", "stopped", "conflict", "read_receipt", "error", "cancelled",
                    "mark_uncertain", "uncertain", "start", "enter"} :
            pc \in Free \cap Plain /\ pc # "awaiting" /\ Fits(actor[a].op, pc)
  BY <1>1, ToolFree, ReturnFits DEF Returns
<1>5. CASE Admit(a)
  BY <1>1, <1>2, <1>3, <1>4, <1>5, AppendUnlessCancelledDull DEF Admit
<1>6. CASE Prepare(a)
  BY <1>1, <1>2, <1>3, <1>6, ToolFree, AppendOnceDull DEF Prepare
<1>7. CASE Authorize(a)
  BY <1>1, <1>2, <1>3, <1>7, ToolFree, AppendOnceDull DEF Authorize
<1>8. CASE Start(a)
  BY <1>1, <1>2, <1>3, <1>4, <1>8, AppendUnlessCancelledDull DEF Start
<1>9. CASE PublishRecoveredWait(a)
  BY <1>1, <1>2, <1>3, <1>4, <1>9, AppendUnlessCancelledDull DEF PublishRecoveredWait
<1>10. CASE PublishWait(a)
  BY <1>1, <1>2, <1>3, <1>4, <1>10, AppendUnlessCancelledDull DEF PublishWait
<1>11. CASE MarkUncertain(a)
  <2>1. PICK s \in ActorState : s = Goto(a, "uncertain") /\ Home(s) /\ Claims(s) /\ Claims(s)'
    BY <1>1, ToolFree, GotoFree
  <2>2. AtMostWrites(actor[a].eff, "uncertain", Mark) /\ Become(a, s) /\ Quiet
    BY <1>11, <2>1 DEF MarkUncertain, AtMostWrites
  <2>3. Truthful(actor[a].eff, "uncertain", Mark) /\ "uncertain" \in Kinds
    BY KindNames DEF Truthful
  <2> QED
    BY <1>1, <1>2, <2>1, <2>2, <2>3, PublishEvidence
<1> QED
  BY <1>5, <1>6, <1>7, <1>8, <1>9, <1>10, <1>11

\* What execute_invocation reads, and the places that rest on nothing.
LEMMA ToolReadEvidence ==
    ASSUME TypeOK, EvidenceInv, NEW a \in Actors,
           \/ ControlCancelled(a) \/ ReadReceipt(a) \/ VerifyObservation(a) \/ ReadWaiting(a)
           \/ ReadStarted(a) \/ RecoverWait(a) \/ BeforeEffect(a) \/ Outcome(a)
    PROVE  EvidenceInv'
<1>0. actor[a].pc \in ToolSteps /\ actor[a].pc \in Steps
  BY DEF ControlCancelled, ReadReceipt, VerifyObservation, ReadWaiting, ReadStarted, RecoverWait,
         BeforeEffect, Outcome, At, Steps, ToolSteps
<1>1. /\ actor[a].eff \in Effects /\ actor[a].op = "tool" /\ actor[a] \in ActorRecord
      /\ Home(actor[a]) /\ Claims(actor[a])
  BY <1>0, Resting DEF Home, Fits
<1>2. PICK e \in Effects : e = actor[a].eff
  BY <1>1
<1>3. UNCHANGED ledger /\ Quiet
  BY DEF ControlCancelled, ReadReceipt, VerifyObservation, ReadWaiting, ReadStarted, RecoverWait,
         BeforeEffect, Outcome
<1>4. ASSUME NEW pc \in {"error", "cancelled", "mark_uncertain", "read_waiting", "read_started",
                         "uncertain", "recover", "recovered_wait", "before_effect", "authorize",
                         "denied", "wait"},
             Become(a, Goto(a, pc))
      PROVE  EvidenceInv'
  BY <1>1, <1>3, <1>4, ToolFree, GotoEvidence
<1>5. ASSUME NEW o \in Outcomes, NEW pc \in {"verify", "completed", "failed", "receipt"},
             Become(a, [Goto(a, pc) EXCEPT !.out = o]),
             pc # "receipt" => ledger[e]["receipt"] # Null /\ ledger[e]["receipt"].out = o,
             pc = "receipt" => world[e] = o,
             pc \in {"completed", "failed"} => ~Hooks
      PROVE  EvidenceInv'
  <2>1. pc \in Safe
    BY DEF Safe, Plain, ToolSteps, Returns
  <2>2. PICK s \in ActorState : s = [Goto(a, pc) EXCEPT !.out = o]
    BY <1>1, <2>1, GotoOutType
  <2>3. s.op = "tool" /\ s.pc = pc /\ s.eff = e /\ s.out = o
    BY <1>1, <1>2, <2>2 DEF Goto, ActorRecord
  <2>4. Home(s)
    BY <2>3 DEF Home, Fits, HydrateSteps, ReconcileSteps, ResolveSteps
  <2>5. Claims(s)
    BY <1>5, <2>3 DEF Claims
  <2> QED
    BY <1>3, <1>5, <2>2, <2>4, <2>5, ReadEvidence
<1>6. ASSUME NEW pc \in {"awaiting", "completed", "failed"}, Become(a, Goto(a, pc)),
             pc = "awaiting" => ledger[e]["waiting"] # Null,
             pc # "awaiting" => /\ ledger[e]["receipt"] # Null /\ ledger[e]["receipt"].out = actor[a].out
                                /\ e \in observed
      PROVE  EvidenceInv'
  <2>1. pc \in Plain /\ Fits("tool", pc)
    BY ReturnFits DEF Plain, Returns
  <2>2. PICK s \in ActorState : /\ s = Goto(a, pc) /\ Home(s) /\ s.pc = pc /\ s.eff = e
                                /\ s.out = actor[a].out
    BY <1>1, <1>2, <2>1, GotoHome
  <2>3. Claims(s)
    BY <1>6, <2>2 DEF Claims
  <2> QED
    BY <1>3, <1>6, <2>2, <2>3, ReadEvidence
<1>7. CASE ControlCancelled(a)
  BY <1>4, <1>7 DEF ControlCancelled
<1>8. CASE ReadReceipt(a)
  <2> DEFINE f == ledger[e]["receipt"]
  <2>1. CASE Become(a, Goto(a, "read_waiting")) \/ Become(a, Goto(a, "mark_uncertain"))
    BY <1>4, <2>1
  <2>2. CASE f # Null /\ Become(a, [Goto(a, IF Hooks THEN "verify" ELSE Answer(f.out)) EXCEPT !.out = f.out])
    <3>1. f.out \in Outcomes
      BY <2>2 DEF EvidenceInv
    <3>2. PICK pc \in {"verify", "completed", "failed"} :
             pc = (IF Hooks THEN "verify" ELSE Answer(f.out)) /\ (pc # "verify" => ~Hooks)
      BY DEF Answer
    <3> QED
      BY <1>5, <2>2, <3>1, <3>2
  <2> QED
    BY <1>2, <1>8, <2>1, <2>2 DEF ReadReceipt
<1>9. CASE VerifyObservation(a)
  <2>1. ledger[e]["receipt"] # Null /\ ledger[e]["receipt"].out = actor[a].out
    BY <1>1, <1>2, <1>9 DEF VerifyObservation, At, Claims
  <2>2. PICK pc \in {"completed", "failed"} : pc = Answer(actor[a].out)
    BY DEF Answer
  <2> QED
    BY <1>2, <1>4, <1>6, <1>9, <2>1, <2>2 DEF VerifyObservation
<1>10. CASE ReadWaiting(a)
  BY <1>2, <1>4, <1>6, <1>10 DEF ReadWaiting
<1>11. CASE ReadStarted(a)
  <2>1. PICK pc \in {"before_effect", "authorize", "recover", "mark_uncertain"} : Become(a, Goto(a, pc))
    BY <1>11 DEF ReadStarted
  <2> QED
    BY <1>4, <2>1
<1>12. CASE RecoverWait(a)
  BY <1>4, <1>12 DEF RecoverWait
<1>13. CASE BeforeEffect(a)
  BY <1>4, <1>13 DEF BeforeEffect
<1>14. CASE Outcome(a)
  BY <1>2, <1>4, <1>5, <1>14 DEF Outcome
<1> QED
  BY <1>7, <1>8, <1>9, <1>10, <1>11, <1>12, <1>13, <1>14

\* The entry disturbs no outcome: an effect that is entered had none.
LEMMA EnterEvidence ==
    ASSUME TypeOK, EvidenceInv, NEW a \in Actors, Enter(a)
    PROVE  EvidenceInv'
<1>1. /\ actor[a].eff \in Effects /\ actor[a].op = "tool"
      /\ UNCHANGED <<ledger, decision, observed>>
  BY Resting DEF Enter, At, Steps, ToolSteps, Home, Fits
<1>2. \A e \in Effects : world'[e] = world[e] \/ world[e] = "idle"
  BY <1>1 DEF Enter, TypeOK
<1>3. "idle" \notin Outcomes
  BY ConstantsAssumption DEF Outcomes, Words
<1>4. Persist
  BY <1>1, <1>2, <1>3 DEF Persist
<1>5. PICK s \in ActorState : s = Goto(a, "run") /\ Home(s) /\ Claims(s) /\ Claims(s)'
  BY <1>1, ToolFree, GotoFree
<1>6. EvidenceAgrees' /\ (\A d \in Effects : ledger[d]["receipt"] # Null => ledger[d]["receipt"].out \in Outcomes)'
  BY <1>1, <1>4 DEF Persist, EvidenceInv, EvidenceAgrees, ReceiptTruth, ProjectionsFollowReceipt, DecisionsBacked
<1> QED
  BY <1>4, <1>5, <1>6, EvidenceStep DEF Enter

\* The receipt is what the executor answered, and the projection is the receipt.
LEMMA ToolOutcomeEvidence ==
    ASSUME TypeOK, EvidenceInv, NEW a \in Actors,
           PublishReceipt(a) \/ PublishProjection(a) \/ AfterReceipt(a)
    PROVE  EvidenceInv'
<1>0. actor[a].pc \in ToolSteps /\ actor[a].pc \in Steps
  BY DEF PublishReceipt, PublishProjection, AfterReceipt, At, Steps, ToolSteps
<1>1. /\ actor[a].eff \in Effects /\ actor[a].op = "tool" /\ Claims(actor[a])
  BY <1>0, Resting DEF Home, Fits
<1>2. PICK e \in Effects : e = actor[a].eff
  BY <1>1
<1>3. PICK b \in PartialBinding : b = actor[a].bind
  BY <1>0, Resting
<1>4. PICK o \in Outcomes \cup {Null} : o = actor[a].out
  BY <1>0, Resting
<1>5. PICK fail \in ActorState :
         fail = Goto(a, "mark_uncertain") /\ Home(fail) /\ Claims(fail) /\ Claims(fail)'
  BY <1>1, ToolFree, GotoFree
<1>6. /\ \A pc \in {"project", "after_receipt", "completed", "failed"} :
            pc \in Plain /\ Fits(actor[a].op, pc)
      /\ "failed" \in Kinds /\ "completed" \in Kinds
  BY <1>1, ReturnFits, KindNames DEF Plain, ToolSteps, Returns, Fits, HydrateSteps, ReconcileSteps,
     ResolveSteps, Resolutions
<1> DEFINE f == ReceiptPayload(b, o)
<1>7. f \in Fact /\ f.out = o
  BY PayloadType DEF ReceiptPayload, Payload
<1>8. CASE PublishReceipt(a)
  <2>1. Truthful(e, "receipt", f)
    BY <1>1, <1>2, <1>4, <1>7, <1>8 DEF PublishReceipt, At, Claims, Truthful
  <2>2. PICK ok \in ActorState : /\ ok = Goto(a, "project") /\ Home(ok) /\ ok.pc = "project"
                                 /\ ok.eff = e /\ ok.bind = b /\ ok.out = o
    BY <1>1, <1>2, <1>3, <1>4, <1>6, GotoHome
  <2>3. AppendOnce(a, "receipt", f, ok, fail) /\ Quiet
    BY <1>3, <1>4, <1>5, <1>8, <2>2 DEF PublishReceipt
  <2>4. ledger'[e]["receipt"] = f => Claims(ok)'
    BY <2>2 DEF Claims
  <2> HIDE DEF f
  <2> QED
    BY <1>2, <1>5, <1>7, <2>1, <2>2, <2>3, <2>4, KindNames, AppendOnceEvidence
<1>9. CASE PublishProjection(a)
  <2>1. ledger[e]["receipt"] = f
    BY <1>1, <1>2, <1>3, <1>4, <1>9 DEF PublishProjection, At, Claims
  <2>2. PICK k \in {"completed", "failed"} : k = Answer(o)
    BY DEF Answer
  <2>3. PICK pc \in {"after_receipt", "completed", "failed"} :
           pc = (IF Hooks THEN "after_receipt" ELSE Answer(o)) /\ (pc # "after_receipt" => ~Hooks)
    BY <2>2
  <2>4. PICK ok \in ActorState : /\ ok = Goto(a, pc) /\ Home(ok) /\ ok.pc = pc
                                 /\ ok.eff = e /\ ok.out = o
    BY <1>1, <1>2, <1>4, <1>6, GotoHome
  <2>5. AppendOnce(a, k, f, ok, fail) /\ Quiet
    BY <1>3, <1>4, <1>5, <1>9, <2>2, <2>3, <2>4 DEF PublishProjection
  <2>6. Truthful(e, k, f)
    BY <1>7, <2>1, <2>2 DEF Truthful
  <2> HIDE DEF f
  <2>7. AtMostWrites(e, k, f)
    BY <1>2, <1>5, <1>6, <1>7, <2>4, <2>5, AppendOnceStep
  <2>8. ledger'[e]["receipt"] # Null /\ ledger'[e]["receipt"].out = o
    BY <1>6, <1>7, <2>1, <2>5, <2>7, WritePersist, NullNoFact, KindNames DEF Persist
  <2>9. Claims(ok)'
    BY <2>3, <2>4, <2>8 DEF Claims
  <2> QED
    BY <1>2, <1>5, <1>6, <1>7, <2>4, <2>5, <2>6, <2>9, AppendOnceEvidence
<1>10. CASE AfterReceipt(a)
  <2>1. /\ UNCHANGED <<ledger, decision, world>> /\ observed \subseteq observed'
        /\ ledger[e]["receipt"] # Null /\ ledger[e]["receipt"].out = o
    BY <1>1, <1>2, <1>4, <1>10 DEF AfterReceipt, At, Claims
  <2>2. Persist
    BY <2>1 DEF Persist
  <2>3. EvidenceAgrees' /\ (\A d \in Effects : ledger[d]["receipt"] # Null => ledger[d]["receipt"].out \in Outcomes)'
    BY <2>1 DEF EvidenceInv, EvidenceAgrees, ReceiptTruth, ProjectionsFollowReceipt, DecisionsBacked
  <2>4. CASE e \in observed' /\ Become(a, Goto(a, Answer(o)))
    <3>1. PICK pc \in {"completed", "failed"} : pc = Answer(o)
      BY DEF Answer
    <3>2. PICK s \in ActorState : /\ s = Goto(a, pc) /\ Home(s) /\ s.pc = pc
                                  /\ s.eff = e /\ s.out = o
      BY <1>1, <1>2, <1>4, <1>6, GotoHome
    <3>3. Claims(s)'
      BY <2>1, <2>4, <3>2 DEF Claims
    <3> QED
      BY <2>2, <2>3, <2>4, <3>1, <3>2, <3>3, EvidenceStep
  <2>5. CASE Become(a, Goto(a, "error"))
    <3>1. PICK s \in ActorState : s = Goto(a, "error") /\ Home(s) /\ Claims(s)'
      BY <1>1, ToolFree, GotoFree
    <3> QED
      BY <2>2, <2>3, <2>5, <3>1, EvidenceStep
  <2> QED
    BY <1>2, <1>4, <1>10, <2>4, <2>5 DEF AfterReceipt
<1> QED
  BY <1>8, <1>9, <1>10

----------------------------------------------------------------------------
\* hydrate_checkpoint.

\* A hydration projects the receipt it has read, and only that.
LEMMA HydrateEvidence ==
    ASSUME TypeOK, EvidenceInv, NEW a \in Actors, HydrateStep(a)
    PROVE  EvidenceInv'
<1>0. actor[a].pc \in HydrateSteps /\ actor[a].pc \in Steps
  BY DEF HydrateStep, HydrateChain, HydrateReceipt, HydrateProject, HydrateWaiting, HydrateWait,
         At, Steps, HydrateSteps
<1>1. /\ actor[a].eff \in Effects /\ actor[a].op = "hydrate" /\ actor[a] \in ActorRecord
      /\ Claims(actor[a])
  BY <1>0, Resting DEF Home, Fits
<1>2. PICK e \in Effects : e = actor[a].eff
  BY <1>1
<1>3. ASSUME NEW pc \in {"ready", "error", "h_waiting", "h_wait", "uncertain"}
      PROVE  pc \in Free \cap Plain /\ Fits(actor[a].op, pc)
  BY <1>1, ReturnFits DEF Free, Plain, Returns, Resolutions, Fits, ToolSteps, ReconcileSteps, ResolveSteps
<1>4. ASSUME NEW pc \in {"ready", "error", "h_waiting", "h_wait", "uncertain"},
             Become(a, Goto(a, pc)), UNCHANGED ledger, Quiet
      PROVE  EvidenceInv'
  BY <1>1, <1>3, <1>4, GotoEvidence
<1>5. CASE HydrateChain(a)
  <2>1. CASE Become(a, Goto(a, "ready")) \/ Become(a, Goto(a, "error"))
    BY <1>4, <1>5, <2>1 DEF HydrateChain
  <2>2. CASE FromFacts(e) /\ Become(a, [Goto(a, "h_receipt") EXCEPT !.bind = BoundOf(e)])
    <3>1. PICK b \in PartialBinding : b = BoundOf(e)
      BY <2>2, BoundType
    <3> DEFINE s == [Goto(a, "h_receipt") EXCEPT !.bind = b]
    <3>2. /\ s \in ActorRecord /\ s.pc = "h_receipt" /\ s.eff = e /\ s.op = "hydrate"
      BY <1>1, <1>2 DEF Goto, ActorRecord, Steps, HydrateSteps
    <3>3. Become(a, s) /\ UNCHANGED ledger /\ Quiet
      BY <1>5, <2>2, <3>1 DEF HydrateChain
    <3> HIDE DEF s
    <3>4. s \in ActorState
      BY <3>2 DEF ActorState, WellFormed, ReconcileSteps
    <3>5. Home(s)
      BY <3>2 DEF Home, Fits, ToolSteps, ReconcileSteps, ResolveSteps
    <3>6. Claims(s)
      BY <3>2 DEF Claims
    <3> QED
      BY <3>3, <3>4, <3>5, <3>6, ReadEvidence
  <2> QED
    BY <1>2, <1>5, <2>1, <2>2 DEF HydrateChain
<1>6. CASE HydrateReceipt(a)
  <2>1. CASE Become(a, Goto(a, "h_waiting")) \/ Become(a, Goto(a, "error"))
    BY <1>4, <1>6, <2>1 DEF HydrateReceipt
  <2>2. CASE ledger[e]["receipt"] # Null /\ ~(Become(a, Goto(a, "h_waiting")) \/ Become(a, Goto(a, "error")))
    <3>1. PICK f \in Fact : f = ledger[e]["receipt"]
      BY <2>2, KindNames DEF TypeOK
    <3>2. f.out \in Outcomes
      BY <2>2, <3>1 DEF EvidenceInv
    <3> DEFINE s == [Goto(a, "h_project") EXCEPT !.out = f.out, !.saved = f]
    <3>3. /\ s \in ActorRecord /\ s.pc = "h_project" /\ s.eff = e /\ s.op = "hydrate"
          /\ s.out = f.out /\ s.saved = f
      BY <1>1, <1>2, <3>2 DEF Goto, ActorRecord, Steps, HydrateSteps
    <3>4. Become(a, s) /\ UNCHANGED ledger /\ Quiet
      BY <1>2, <1>6, <2>2, <3>1 DEF HydrateReceipt
    <3> HIDE DEF s
    <3>5. s \in ActorState
      BY <3>3 DEF ActorState, WellFormed, ReconcileSteps
    <3>6. Home(s)
      BY <3>3 DEF Home, Fits, ToolSteps, ReconcileSteps, ResolveSteps
    <3>7. Claims(s)
      BY <3>1, <3>3 DEF Claims
    <3> QED
      BY <3>4, <3>5, <3>6, <3>7, ReadEvidence
  <2> QED
    BY <1>2, <1>6, <2>1, <2>2 DEF HydrateReceipt
<1>7. CASE HydrateProject(a)
  <2>1. PICK f \in Fact : f = actor[a].saved
    BY <1>7 DEF HydrateProject, At, TypeOK, ActorState, WellFormed
  <2>2. f = ledger[e]["receipt"] /\ actor[a].out = f.out
    BY <1>1, <1>2, <1>7, <2>1 DEF HydrateProject, At, Claims
  <2>3. PICK k \in {"completed", "failed"} : k = Answer(f.out)
    BY DEF Answer
  <2>4. k \in Kinds /\ k \in Plain /\ Fits(actor[a].op, k)
    BY ReturnFits, KindNames DEF Plain, Returns
  <2>5. PICK ok \in ActorState : /\ ok = Goto(a, k) /\ Home(ok) /\ ok.pc = k /\ ok.op = "hydrate"
                                 /\ ok.eff = e /\ ok.out = f.out
    BY <1>1, <1>2, <2>2, <2>4, GotoHome
  <2>6. AtomicPublication(a, k, f, ok) /\ Quiet
    BY <1>7, <2>1, <2>2, <2>3, <2>5 DEF HydrateProject
  <2>7. Truthful(e, k, f)
    BY <2>2, <2>3 DEF Truthful
  <2>8. AtMostWrites(e, k, f)
    BY <1>2, <2>4, <2>5, <2>6, AtomicPublicationStep
  <2>9. ledger'[e]["receipt"] = f
    BY <2>2, <2>4, <2>6, <2>8, WritePersist, NullNoFact, KindNames DEF Persist
  <2>10. Claims(ok)'
    BY <2>5, <2>9, NullNoFact DEF Claims
  <2> QED
    BY <1>2, <2>4, <2>5, <2>6, <2>7, <2>10, AtomicPublicationEvidence
<1>8. CASE HydrateWaiting(a)
  BY <1>4, <1>8 DEF HydrateWaiting
<1>9. CASE HydrateWait(a)
  <2>1. PICK f \in Fact : f = WaitPayload(actor[a].bind)
    BY <1>0, Resting, PayloadType
  <2>2. PICK ok \in ActorState : /\ ok = Goto(a, "awaiting") /\ Home(ok) /\ ok.pc = "awaiting" /\ ok.eff = e
    BY <1>1, <1>2, ReturnFits, GotoHome DEF Plain, Returns
  <2>3. AtomicPublication(a, "waiting", f, ok) /\ Quiet
    BY <1>9, <2>1, <2>2 DEF HydrateWait
  <2>4. ledger'[e]["waiting"] = f => Claims(ok)'
    BY <2>2, NullNoFact DEF Claims
  <2>5. Truthful(e, "waiting", f) /\ "waiting" \in Kinds
    BY KindNames DEF Truthful
  <2> QED
    BY <1>2, <2>2, <2>3, <2>4, <2>5, AtomicPublicationEvidence
<1> QED
  BY <1>5, <1>6, <1>7, <1>8, <1>9 DEF HydrateStep

----------------------------------------------------------------------------
\* resume with ExternalResolved.

\* The collected result of external work is what the executor did.
LEMMA ResolveEvidence ==
    ASSUME TypeOK, EvidenceInv, NEW a \in Actors, ResolveStep(a)
    PROVE  EvidenceInv'
<1>0. actor[a].pc \in ResolveSteps /\ actor[a].pc \in Steps
  BY DEF ResolveStep, ResolveReceipt, ResolveProject, At, Steps, ResolveSteps
<1>1. actor[a].eff \in Effects /\ actor[a].op = "resolve" /\ Claims(actor[a])
  BY <1>0, Resting DEF Home, Fits
<1>2. PICK e \in Effects : e = actor[a].eff
  BY <1>1
<1>3. PICK b \in PartialBinding : b = actor[a].bind
  BY <1>0, Resting
<1>4. PICK o \in Outputs : o = actor[a].out
  BY <1>0, <1>1 DEF Claims, ResolveSteps
<1> DEFINE f == ReceiptPayload(b, o)
<1>5. f \in Fact /\ f.out = o /\ o \in Outcomes
  BY PayloadType DEF ReceiptPayload, Payload, Outcomes
<1>6. CASE ResolveReceipt(a)
  <2>1. Truthful(e, "receipt", f)
    BY <1>1, <1>2, <1>4, <1>5, <1>6 DEF ResolveReceipt, At, Claims, Truthful
  <2>2. "s_project" \in Plain /\ Fits(actor[a].op, "s_project")
    BY <1>1 DEF Plain, ResolveSteps, Fits, ToolSteps, HydrateSteps, ReconcileSteps
  <2>3. PICK ok \in ActorState : /\ ok = Goto(a, "s_project") /\ Home(ok) /\ ok.pc = "s_project"
                                 /\ ok.eff = e /\ ok.bind = b /\ ok.out = o
    BY <1>1, <1>2, <1>3, <1>4, <2>2, GotoHome
  <2>4. AtomicPublication(a, "receipt", f, ok) /\ Quiet
    BY <1>3, <1>4, <1>6, <2>3 DEF ResolveReceipt
  <2>5. ledger'[e]["receipt"] = f => Claims(ok)'
    BY <2>3 DEF Claims
  <2> HIDE DEF f
  <2> QED
    BY <1>2, <1>5, <2>1, <2>3, <2>4, <2>5, KindNames, AtomicPublicationEvidence
<1>7. CASE ResolveProject(a)
  <2>1. ledger[e]["receipt"] = f
    BY <1>1, <1>2, <1>3, <1>4, <1>7 DEF ResolveProject, At, Claims
  <2>2. Answer(o) = "completed"
    BY ConstantsAssumption DEF Answer, Words
  <2>3. PICK ok \in ActorState : /\ ok = Goto(a, "completed") /\ Home(ok) /\ ok.pc = "completed"
                                 /\ ok.eff = e /\ ok.out = o /\ ok.op = "resolve"
    BY <1>1, <1>2, <1>4, ReturnFits, GotoHome DEF Plain, Returns
  <2>4. AtomicPublication(a, "completed", f, ok) /\ Quiet
    BY <1>3, <1>4, <1>7, <2>3 DEF ResolveProject
  <2>5. Truthful(e, "completed", f)
    BY <1>5, <2>1, <2>2 DEF Truthful
  <2> HIDE DEF f
  <2>6. AtMostWrites(e, "completed", f)
    BY <1>2, <1>5, <2>3, <2>4, KindNames, AtomicPublicationStep
  <2>7. ledger'[e]["receipt"] = f
    BY <1>5, <2>1, <2>4, <2>6, WritePersist, NullNoFact, KindNames DEF Persist
  <2>8. Claims(ok)'
    BY <1>5, <2>3, <2>7, NullNoFact DEF Claims
  <2> QED
    BY <1>2, <1>5, <2>3, <2>4, <2>5, <2>8, KindNames, AtomicPublicationEvidence
<1> QED
  BY <1>6, <1>7 DEF ResolveStep

----------------------------------------------------------------------------
\* reconcile_tool_effect.

\* A reconciler that stays at its own steps.
LEMMA ReconcilePlace ==
    ASSUME NEW s \in ActorRecord, s.op = "reconcile", s.pc \in ReconcileSteps,
           s.eff \in Effects, s.rec \in Recs,
           s.saved # Null => s.saved.out \in Outputs, s.out \in Outputs \cup {Null},
           s.pc \in {"r_commit", "r_decide"} => s.res \in Resolutions
    PROVE  s \in ActorState /\ Home(s)
BY ReconcileStateType DEF Home, Fits, ReconcileSteps, ToolSteps, HydrateSteps, ResolveSteps

\* A reconciler that has answered.
LEMMA ReconcileAnswer ==
    ASSUME NEW s \in ActorRecord, s.op = "reconcile", s.pc \in Resolutions \cup {"error"},
           s.eff \in Effects
    PROVE  s \in ActorState /\ Home(s)
BY DEF Home, Fits, ReconcileSteps, ToolSteps, HydrateSteps, ResolveSteps, Resolutions,
       ActorState, WellFormed, Steps

\* A reconciler reads the receipt, the decision and the executor, and writes nothing.
LEMMA ReconcileReadEvidence ==
    ASSUME TypeOK, EvidenceInv, NEW a \in Actors,
           ReconcileChain(a) \/ ReconcileReceipt(a) \/ ReconcileDecision(a) \/ Inspect(a)
    PROVE  EvidenceInv'
<1>0. actor[a].pc \in ReconcileSteps /\ actor[a].pc \in Steps
  BY DEF ReconcileChain, ReconcileReceipt, ReconcileDecision, Inspect, At, Steps, ReconcileSteps
<1>1. /\ actor[a].eff \in Effects /\ actor[a].op = "reconcile" /\ actor[a] \in ActorRecord
      /\ Claims(actor[a])
  BY <1>0, Resting DEF Home, Fits
<1>2. /\ actor[a].rec \in Recs /\ actor[a].out \in Outputs \cup {Null}
      /\ (actor[a].saved # Null => actor[a].saved.out \in Outputs)
  BY <1>0 DEF TypeOK, ActorState, WellFormed
<1>3. PICK e \in Effects : e = actor[a].eff
  BY <1>1
<1>4. PICK r \in Recs : r = actor[a].rec
  BY <1>2
<1>5. UNCHANGED ledger /\ Quiet
  BY DEF ReconcileChain, ReconcileReceipt, ReconcileDecision, Inspect
<1>6. CASE Become(a, Goto(a, "error"))
  <2>1. "error" \in Free \cap Plain /\ Fits(actor[a].op, "error")
    BY ReturnFits DEF Free, Plain, Returns
  <2> QED
    BY <1>1, <1>5, <1>6, <2>1, GotoEvidence
<1>7. CASE ReconcileChain(a) /\ ~Become(a, Goto(a, "error"))
  <2>1. FromFacts(e) /\ Become(a, [Goto(a, "r_receipt") EXCEPT !.bind = BoundOf(e)])
    BY <1>3, <1>7 DEF ReconcileChain
  <2>2. PICK b \in PartialBinding : b = BoundOf(e)
    BY <2>1, BoundType
  <2> DEFINE s == [Goto(a, "r_receipt") EXCEPT !.bind = b]
  <2>3. /\ s \in ActorRecord /\ s.pc = "r_receipt" /\ s.eff = e /\ s.rec = r /\ s.op = "reconcile"
        /\ s.saved = actor[a].saved /\ s.out = actor[a].out
    BY <1>1, <1>3, <1>4 DEF Goto, ActorRecord, Steps, ReconcileSteps
  <2>4. Become(a, s)
    BY <2>1, <2>2
  <2> HIDE DEF s
  <2>5. s \in ActorState /\ Home(s)
    BY <1>2, <2>3, ReconcilePlace DEF ReconcileSteps
  <2>6. Claims(s)
    BY <2>3 DEF Claims
  <2> QED
    BY <1>5, <2>4, <2>5, <2>6, ReadEvidence
<1>8. CASE ReconcileReceipt(a) /\ ~Become(a, Goto(a, "error"))
  <2>1. PICK f \in Fact \cup {Null} : f = ledger[e]["receipt"]
    BY KindNames DEF TypeOK
  <2> DEFINE s == [Goto(a, "r_decision") EXCEPT !.saved = f]
  <2>2. (f = Null \/ f.out \in Outputs) /\ Become(a, s)
    BY <1>3, <1>8, <2>1 DEF ReconcileReceipt
  <2>3. /\ s \in ActorRecord /\ s.pc = "r_decision" /\ s.eff = e /\ s.rec = r /\ s.op = "reconcile"
        /\ s.saved = f /\ s.out = actor[a].out
    BY <1>1, <1>3, <1>4 DEF Goto, ActorRecord, Steps, ReconcileSteps
  <2> HIDE DEF s
  <2>4. s \in ActorState /\ Home(s)
    BY <1>2, <2>2, <2>3, ReconcilePlace DEF ReconcileSteps
  <2>5. Claims(s)
    BY <2>1, <2>3 DEF Claims
  <2> QED
    BY <1>5, <2>2, <2>4, <2>5, ReadEvidence
<1>9. CASE ReconcileDecision(a)
  <2>1. PICK d \in DecisionFact \cup {Null} : d = decision[e][r]
    BY DEF TypeOK
  <2>2. PICK f \in Fact \cup {Null} : f = actor[a].saved
    BY <1>1 DEF ActorRecord
  <2>3. (f # Null => f = ledger[e]["receipt"] /\ f.out \in Outputs) /\ At(a, "r_decision")
    BY <1>1, <1>2, <1>3, <1>9, <2>2 DEF ReconcileDecision, At, Claims
  <2>4. CASE d # Null
    <3>1. d.res \in Resolutions /\ d.out \in Outputs \cup {Null}
      BY <2>4 DEF DecisionFact
    <3>2. PICK pc \in Resolutions \cup {"error"} :
             pc = (IF DecisionAgrees(d, f, r) THEN d.res ELSE "error")
      BY <3>1
    <3>2a. PICK o \in Outcomes \cup {Null} : o = d.out
      BY <3>1 DEF Outcomes
    <3> DEFINE s == [Goto(a, pc) EXCEPT !.out = o]
    <3>3. Become(a, s)
      BY <1>3, <1>4, <1>9, <2>1, <2>2, <2>4, <3>2, <3>2a DEF ReconcileDecision
    <3>3a. pc \in Returns
      BY DEF Returns
    <3>4. /\ s \in ActorRecord /\ s.pc = pc /\ s.eff = e /\ s.op = "reconcile" /\ s.out = d.out
      BY <1>1, <1>3, <3>2a, <3>3a DEF Goto, ActorRecord
    <3> HIDE DEF s
    <3>5. s \in ActorState /\ Home(s)
      BY <3>4, ReconcileAnswer
    <3>6. pc = "committed" => f # Null /\ f.out = d.out
      BY <3>2 DEF DecisionAgrees
    <3>7. Claims(s)
      BY <2>3, <3>4, <3>6 DEF Claims, Resolutions
    <3> QED
      BY <1>5, <3>3, <3>5, <3>7, ReadEvidence
  <2>5. CASE d = Null /\ f # Null
    <3>1. PICK pc \in {"r_decide", "committed"} : pc = (IF f.via = r THEN "r_decide" ELSE "committed")
      OBVIOUS
    <3> DEFINE s == [Goto(a, pc) EXCEPT !.out = f.out, !.res = "committed"]
    <3>2. Become(a, s)
      BY <1>3, <1>4, <1>9, <2>1, <2>2, <2>5, <3>1 DEF ReconcileDecision
    <3>3. /\ s \in ActorRecord /\ s.pc = pc /\ s.eff = e /\ s.rec = r /\ s.op = "reconcile"
          /\ s.saved = f /\ s.out = f.out /\ s.res = "committed"
      BY ZenonT(40), <1>1, <1>3, <1>4, <2>2, <2>3, <2>5 DEF Goto, ActorRecord, Steps, ReconcileSteps, Returns, Resolutions, Outcomes
    <3> HIDE DEF s
    <3>4. s \in ActorState /\ Home(s)
      <4>1. CASE pc = "r_decide"
        BY <2>3, <2>5, <3>3, <4>1, ReconcilePlace DEF ReconcileSteps, Resolutions
      <4>2. CASE pc = "committed"
        BY <3>3, <4>2, ReconcileAnswer DEF Resolutions
      <4> QED
        BY <4>1, <4>2
    <3>5. Claims(s)
      BY <2>3, <2>5, <3>1, <3>3 DEF Claims
    <3> QED
      BY <1>5, <3>2, <3>4, <3>5, ReadEvidence
  <2>6. CASE d = Null /\ f = Null
    <3> DEFINE s == Goto(a, "r_inspect")
    <3>1. Become(a, s)
      BY <1>3, <1>4, <1>9, <2>1, <2>2, <2>6 DEF ReconcileDecision
    <3>2. /\ s \in ActorRecord /\ s.pc = "r_inspect" /\ s.eff = e /\ s.rec = r /\ s.op = "reconcile"
          /\ s.saved = actor[a].saved /\ s.out = actor[a].out
      BY <1>1, <1>3, <1>4 DEF Goto, ActorRecord, Steps, ReconcileSteps
    <3> HIDE DEF s
    <3>3. s \in ActorState /\ Home(s)
      BY <1>2, <3>2, ReconcilePlace DEF ReconcileSteps
    <3>4. Claims(s)
      BY <3>2 DEF Claims
    <3> QED
      BY <1>5, <3>1, <3>3, <3>4, ReadEvidence
  <2> QED
    BY <2>4, <2>5, <2>6
<1>10. CASE Inspect(a)
  <2>1. PICK w : w = world[e]
    OBVIOUS
  <2>2. CASE w \in Outputs /\ Become(a, [Goto(a, "r_commit") EXCEPT !.out = w, !.res = "committed"])
    <3> DEFINE s == [Goto(a, "r_commit") EXCEPT !.out = w, !.res = "committed"]
    <3>1. /\ s \in ActorRecord /\ s.pc = "r_commit" /\ s.eff = e /\ s.rec = r /\ s.op = "reconcile"
          /\ s.saved = actor[a].saved /\ s.out = w /\ s.res = "committed"
      BY <1>1, <1>3, <1>4, <2>2 DEF Goto, ActorRecord, Steps, ReconcileSteps, Resolutions, Outcomes
    <3>2. Become(a, s)
      BY <2>2
    <3> HIDE DEF s
    <3>3. s \in ActorState /\ Home(s)
      BY <1>2, <2>2, <3>1, ReconcilePlace DEF ReconcileSteps, Resolutions
    <3>4. Claims(s)
      BY <2>1, <2>2, <3>1 DEF Claims, Outcomes
    <3> QED
      BY <1>5, <3>2, <3>3, <3>4, ReadEvidence
  <2>3. ASSUME NEW res \in {"not_committed", "unknown"}, Become(a, [Goto(a, "r_decide") EXCEPT !.res = res])
        PROVE  EvidenceInv'
    <3> DEFINE s == [Goto(a, "r_decide") EXCEPT !.res = res]
    <3>1. /\ s \in ActorRecord /\ s.pc = "r_decide" /\ s.eff = e /\ s.rec = r /\ s.op = "reconcile"
          /\ s.saved = actor[a].saved /\ s.out = actor[a].out /\ s.res = res
      BY <1>1, <1>3, <1>4 DEF Goto, ActorRecord, Steps, ReconcileSteps, Resolutions
    <3>2. Become(a, s)
      BY <2>3
    <3> HIDE DEF s
    <3>3. s \in ActorState /\ Home(s)
      BY <1>2, <3>1, ReconcilePlace DEF ReconcileSteps, Resolutions
    <3>4. Claims(s)
      BY <3>1 DEF Claims
    <3> QED
      BY <1>5, <3>2, <3>3, <3>4, ReadEvidence
  <2> QED
    BY <1>3, <1>6, <1>10, <2>1, <2>2, <2>3 DEF Inspect
<1> QED
  BY <1>6, <1>7, <1>8, <1>9, <1>10

\* The reconciled receipt is what the inspector has attested.
LEMMA ReconcileCommitEvidence ==
    ASSUME TypeOK, EvidenceInv, NEW a \in Actors, ReconcileCommit(a)
    PROVE  EvidenceInv'
<1>0. actor[a].pc = "r_commit" /\ actor[a].pc \in ReconcileSteps /\ actor[a].pc \in Steps
  BY DEF ReconcileCommit, At, Steps, ReconcileSteps
<1>1. /\ actor[a].eff \in Effects /\ actor[a].op = "reconcile" /\ actor[a] \in ActorRecord
      /\ actor[a].bind \in PartialBinding /\ Claims(actor[a])
  BY <1>0, Resting DEF Home, Fits
<1>2. /\ actor[a].rec \in Recs /\ actor[a].res \in Resolutions
      /\ (actor[a].saved # Null => actor[a].saved.out \in Outputs)
  BY <1>0 DEF TypeOK, ActorState, WellFormed
<1>3. PICK e \in Effects : e = actor[a].eff
  BY <1>1
<1>4. PICK r \in Recs : r = actor[a].rec
  BY <1>2
<1>5. PICK o \in Outputs : o = actor[a].out /\ world[e] = o /\ o \in Outcomes
  BY <1>0, <1>1, <1>3 DEF Claims
<1>6. PICK f \in Fact : f = Payload(actor[a].bind, o, r) /\ f.out = o /\ f.via = r
  <2>1. Payload(actor[a].bind, o, r) \in Fact
    BY <1>1, <1>5, PayloadType
  <2> QED
    BY <2>1 DEF Payload
<1>7. Truthful(e, "receipt", f) /\ "receipt" \in Kinds
  BY <1>5, <1>6, KindNames DEF Truthful
<1>8. PICK fail \in ActorState : fail = Goto(a, "error") /\ Home(fail) /\ Claims(fail)'
  <2>1. "error" \in Free \cap Plain /\ Fits(actor[a].op, "error")
    BY ReturnFits DEF Free, Plain, Returns
  <2> QED
    BY <1>1, <2>1, GotoFree
<1> DEFINE s == Goto(a, "r_decide")
<1>9. /\ s \in ActorRecord /\ s.pc = "r_decide" /\ s.eff = e /\ s.rec = r /\ s.op = "reconcile"
      /\ s.saved = actor[a].saved /\ s.out = o /\ s.res = actor[a].res
  BY <1>1, <1>3, <1>4, <1>5 DEF Goto, ActorRecord, Steps, ReconcileSteps
<1>10. /\ AtMostWrites(e, "receipt", f) /\ Quiet
       /\ Become(a, fail) \/ (Become(a, s) /\ (ledger[e]["receipt"] = f \/ Write(e, "receipt", f)))
  BY <1>3, <1>4, <1>5, <1>6, <1>8 DEF ReconcileCommit, StorageFails, AtMostWrites
<1> HIDE DEF s
<1>11. PICK ok \in ActorState : ok = s /\ Home(ok)
  BY <1>2, <1>9, ReconcilePlace DEF ReconcileSteps
<1>12. CASE Become(a, fail)
  BY <1>7, <1>8, <1>10, <1>12, PublishEvidence
<1>13. CASE Become(a, ok) /\ (ledger[e]["receipt"] = f \/ Write(e, "receipt", f))
  <2>1. ledger'[e]["receipt"] = f
    BY <1>7, <1>10, <1>13, WriteType, NullNoFact DEF AtMostWrites
  <2>2. Claims(ok)'
    BY <1>6, <1>9, <1>11, <2>1, NullNoFact DEF Claims
  <2> QED
    BY <1>7, <1>10, <1>11, <1>13, <2>2, PublishEvidence
<1> QED
  BY <1>10, <1>11, <1>12, <1>13

\* A committed decision rests on the receipt the reconciler has published or read.
LEMMA ReconcileDecideEvidence ==
    ASSUME TypeOK, EvidenceInv, NEW a \in Actors, ReconcileDecide(a)
    PROVE  EvidenceInv'
<1>0. actor[a].pc = "r_decide" /\ actor[a].pc \in ReconcileSteps /\ actor[a].pc \in Steps
  BY DEF ReconcileDecide, At, Steps, ReconcileSteps
<1>1. /\ actor[a].eff \in Effects /\ actor[a].op = "reconcile" /\ actor[a] \in ActorRecord
      /\ Claims(actor[a])
  BY <1>0, Resting DEF Home, Fits
<1>2. /\ actor[a].rec \in Recs /\ actor[a].res \in Resolutions /\ actor[a].out \in Outputs \cup {Null}
  BY <1>0 DEF TypeOK, ActorState, WellFormed
<1>3. PICK e \in Effects : e = actor[a].eff
  BY <1>1
<1>4. PICK r \in Recs : r = actor[a].rec
  BY <1>2
<1>5. PICK d \in DecisionFact : d = [res |-> actor[a].res, out |-> actor[a].out]
  BY <1>2 DEF DecisionFact
<1>6. /\ d.res = "committed" => /\ ledger[e]["receipt"] # Null
                                /\ ledger[e]["receipt"].via = r /\ ledger[e]["receipt"].out = d.out
      /\ d.res = actor[a].res /\ d.res \in Resolutions /\ d.out = actor[a].out
  BY <1>0, <1>1, <1>2, <1>3, <1>4, <1>5 DEF Claims
<1>7. UNCHANGED <<ledger, world, observed>> /\ Persist
  BY DEF ReconcileDecide, env, Persist
<1>8. decision' = decision \/ decision' = [decision EXCEPT ![e][r] = d]
  BY <1>3, <1>4, <1>5 DEF ReconcileDecide
<1>9. DecisionsBacked'
  <2>1. \A x \in Effects, y \in Recs : decision'[x][y] = decision[x][y] \/ (x = e /\ y = r /\ decision'[x][y] = d)
    BY <1>8 DEF TypeOK
  <2> QED
    BY <1>6, <1>7, <2>1 DEF EvidenceInv, EvidenceAgrees, DecisionsBacked
<1>10. EvidenceAgrees' /\ (\A x \in Effects : ledger[x]["receipt"] # Null => ledger[x]["receipt"].out \in Outcomes)'
  BY <1>7, <1>9 DEF EvidenceInv, EvidenceAgrees, ReceiptTruth, ProjectionsFollowReceipt
<1>11. PICK pc \in Resolutions \cup {"error"} : Become(a, Goto(a, pc)) /\ pc \in {d.res, "error"}
  BY <1>5, <1>6 DEF ReconcileDecide
<1> DEFINE s == Goto(a, pc)
<1>12. /\ s \in ActorRecord /\ s.pc = pc /\ s.eff = e /\ s.op = "reconcile" /\ s.out = d.out
  <2>1. pc \in Returns
    BY DEF Returns
  <2> QED
    BY <1>1, <1>3, <1>6, <2>1 DEF Goto, ActorRecord
<1>13. Become(a, s)
  BY <1>11
<1> HIDE DEF s
<1>14. PICK t \in ActorState : t = s /\ Home(t)
  BY <1>12, ReconcileAnswer
<1>15. Claims(t)'
  BY <1>6, <1>7, <1>11, <1>12, <1>14 DEF Claims, Resolutions
<1> QED
  BY <1>7, <1>10, <1>13, <1>14, <1>15, EvidenceStep

----------------------------------------------------------------------------
\* The surroundings.

\* A call that begins rests on nothing, or on external work that is done.
LEMMA BeginEvidence ==
    ASSUME TypeOK, EvidenceInv, NEW a \in Actors, Call(a)
    PROVE  EvidenceInv'
<1>0. UNCHANGED ledger /\ Quiet
  BY DEF Call, ToolBegin, HydrateBegin, ReconcileBegin, ResolveBegin, Quiet
<1>1. Idle \in ActorRecord
  BY IdleType DEF ActorState
<1>2. Binding \subseteq PartialBinding /\ SavedCall \subseteq PartialBinding
  BY DEF Binding, SavedCall, PartialBinding
<1>3. ASSUME NEW s \in ActorRecord, s.eff \in Effects, Fits(s.op, s.pc), s.saved = Null,
             s.pc \in {"admit", "prepare", "h_chain", "r_chain", "s_receipt"},
             s.pc = "r_chain" => s.rec \in Recs /\ s.out = Null,
             s.pc = "s_receipt" => s.out \in Outputs /\ world[s.eff] = s.out,
             Become(a, s)
      PROVE  EvidenceInv'
  <2>1. s \in ActorState
    BY <1>3 DEF ActorState, WellFormed, Steps, ToolSteps, HydrateSteps, ResolveSteps, ReconcileSteps
  <2>2. Home(s)
    BY <1>3 DEF Home
  <2>3. Claims(s)
    BY <1>3 DEF Claims, Outcomes
  <2> QED
    BY <1>0, <1>3, <2>1, <2>2, <2>3, ReadEvidence
<1>4. /\ \A pc \in {"admit", "prepare"} : Fits("tool", pc) /\ pc \in Steps
      /\ Fits("hydrate", "h_chain") /\ "h_chain" \in Steps
      /\ Fits("reconcile", "r_chain") /\ "r_chain" \in Steps
      /\ Fits("resolve", "s_receipt") /\ "s_receipt" \in Steps
      /\ \A op \in {"tool", "hydrate", "reconcile", "resolve"} : op \in Ops \ {"idle"}
  BY DEF Fits, Steps, ToolSteps, HydrateSteps, ReconcileSteps, ResolveSteps, Ops
<1>5. ASSUME NEW e \in Effects, NEW b \in Binding, ToolBegin(a, e, b)
      PROVE  EvidenceInv'
  <2>1. PICK pc \in {"admit", "prepare"} : pc = (IF Gate THEN "admit" ELSE "prepare")
    OBVIOUS
  <2>2. PICK s : s = [Idle EXCEPT !.op = "tool", !.pc = pc, !.eff = e, !.bind = b]
    OBVIOUS
  <2>3. Become(a, s)
    BY <1>5, <2>1, <2>2 DEF ToolBegin, Begin
  <2>4. /\ s \in ActorRecord /\ s.eff \in Effects /\ Fits(s.op, s.pc) /\ s.saved = Null
        /\ s.pc = pc
    BY <1>2, <1>4, <2>2 DEF Idle, ActorRecord, Outcomes
  <2> QED
    BY <1>3, <2>3, <2>4
<1>6. ASSUME NEW e \in Effects, NEW b \in SavedCall, HydrateBegin(a, e, b)
      PROVE  EvidenceInv'
  <2>1. PICK s : s = [Idle EXCEPT !.op = "hydrate", !.pc = "h_chain", !.eff = e, !.bind = b]
    OBVIOUS
  <2>2. Become(a, s)
    BY <1>6, <2>1 DEF HydrateBegin, Begin
  <2>4. /\ s \in ActorRecord /\ s.eff \in Effects /\ Fits(s.op, s.pc) /\ s.saved = Null
        /\ s.pc = "h_chain"
    BY <1>2, <1>4, <2>1 DEF Idle, ActorRecord, Outcomes
  <2> QED
    BY <1>3, <2>2, <2>4
<1>7. ASSUME NEW e \in Effects, NEW r \in Recs, ReconcileBegin(a, e, r)
      PROVE  EvidenceInv'
  <2>1. PICK s : s = [Idle EXCEPT !.op = "reconcile", !.pc = "r_chain", !.eff = e, !.rec = r]
    OBVIOUS
  <2>2. Become(a, s)
    BY <1>7, <2>1 DEF ReconcileBegin
  <2>3. NoBinding \in PartialBinding
    BY DEF NoBinding, PartialBinding
  <2>4. /\ s \in ActorRecord /\ s.eff \in Effects /\ Fits(s.op, s.pc) /\ s.saved = Null
        /\ s.pc = "r_chain" /\ s.rec \in Recs /\ s.out = Null
    BY <1>4, <2>1, <2>3 DEF Idle, ActorRecord, Outcomes
  <2> QED
    BY <1>3, <2>2, <2>4
<1>8. ASSUME NEW e \in Effects, NEW b \in Binding, ResolveBegin(a, e, b)
      PROVE  EvidenceInv'
  <2>1. PICK o \in Outputs : o = world[e]
    BY <1>8 DEF ResolveBegin
  <2>2. PICK s : s = [Idle EXCEPT !.op = "resolve", !.pc = "s_receipt", !.eff = e, !.bind = b, !.out = o]
    OBVIOUS
  <2>3. Become(a, s)
    BY <1>8, <2>1, <2>2 DEF ResolveBegin
  <2>4. /\ s \in ActorRecord /\ s.eff \in Effects /\ Fits(s.op, s.pc) /\ s.saved = Null
        /\ s.pc = "s_receipt" /\ s.out \in Outputs /\ world[s.eff] = s.out
    BY <1>2, <1>4, <2>1, <2>2 DEF Idle, ActorRecord, Outcomes
  <2> QED
    BY <1>3, <2>3, <2>4
<1> QED
  BY <1>5, <1>6, <1>7, <1>8 DEF Call

\* Dropping or collecting an operation, cancellation, the end of the Turn and the
\* executor's own progress: what is done stays done.
LEMMA SurroundingsEvidence ==
    ASSUME TypeOK, EvidenceInv,
           \/ \E a \in Actors : Abandon(a) \/ Collect(a)
           \/ \E e \in Effects : Work(e)
           \/ Cancel \/ EndTurn \/ UNCHANGED vars
    PROVE  EvidenceInv'
<1>1. ASSUME NEW a \in Actors, Abandon(a) \/ Collect(a)
      PROVE  EvidenceInv'
  <2>1. Become(a, Idle) /\ UNCHANGED ledger /\ Quiet
    BY <1>1 DEF Abandon, Collect, Quiet
  <2>2. Home(Idle) /\ Claims(Idle)
    BY DEF Idle, Home, Claims, Fits, ToolSteps, HydrateSteps, ReconcileSteps, ResolveSteps
  <2> QED
    BY <2>1, <2>2, IdleType, ReadEvidence
<1>2. ASSUME NEW e \in Effects, Work(e)
      PROVE  EvidenceInv'
  <2>1. UNCHANGED <<ledger, decision, actor, observed>>
    BY <1>2 DEF Work
  <2>2. \A d \in Effects : world[d] \in Outcomes => world'[d] = world[d]
    <3>1. "running" \notin Outcomes /\ "external" \notin Outcomes
      BY ConstantsAssumption DEF Outcomes, Words
    <3> QED
      BY <1>2, <3>1 DEF Work, TypeOK
  <2>3. Persist
    BY <2>1, <2>2 DEF Persist
  <2>4. EvidenceAgrees' /\ (\A d \in Effects : ledger[d]["receipt"] # Null => ledger[d]["receipt"].out \in Outcomes)'
    BY <2>1, <2>2 DEF EvidenceInv, EvidenceAgrees, ReceiptTruth, ProjectionsFollowReceipt, DecisionsBacked
  <2>5. ASSUME NEW a \in Actors PROVE Home(actor'[a]) /\ Claims(actor[a])'
    <3>1. PICK s \in ActorState : s = actor[a] /\ Home(s) /\ Claims(s)
      BY DEF TypeOK, EvidenceInv
    <3>2. Claims(s)'
      BY <2>3, <3>1, ClaimsPersist
    <3> QED
      BY <2>1, <3>1, <3>2 DEF Claims
  <2> QED
    BY <2>4, <2>5 DEF EvidenceInv, Home
<1>3. CASE Cancel \/ EndTurn \/ UNCHANGED vars
  <2>1. UNCHANGED <<ledger, decision, actor, world, observed>>
    BY <1>3 DEF Cancel, EndTurn, vars, env
  <2> QED
    BY <2>1 DEF EvidenceInv, EvidenceAgrees, ReceiptTruth, ProjectionsFollowReceipt, DecisionsBacked,
                Home, Claims
<1> QED
  BY <1>1, <1>2, <1>3

\* Every step keeps the evidence in agreement and every operation on firm ground.
LEMMA EvidenceNext ==
    ASSUME TypeOK, EvidenceInv, [Next]_vars
    PROVE  EvidenceInv'
BY ToolDullEvidence, ToolReadEvidence, EnterEvidence, ToolOutcomeEvidence, HydrateEvidence,
   ReconcileReadEvidence, ReconcileCommitEvidence, ReconcileDecideEvidence, ResolveEvidence,
   BeginEvidence, SurroundingsEvidence
   DEF Next, Step, ToolStep, ReconcileStep

\* The evidence invariant holds throughout.
LEMMA EvidenceInvariant == Spec => []EvidenceInv
<1>1. Init => EvidenceInv
  BY KindNames DEF Init, EvidenceInv, EvidenceAgrees, ReceiptTruth, ProjectionsFollowReceipt, DecisionsBacked,
     Idle, Home, Fits, Claims, ToolSteps, HydrateSteps, ReconcileSteps, ResolveSteps
<1>2. TypeOK /\ EvidenceInv /\ [Next]_vars => EvidenceInv'
  BY EvidenceNext
<1> QED
  BY <1>1, <1>2, TypeCorrect, PTL DEF Spec

\* However tool attempts, collectors and reconcilers race and crash, receipts tell
\* what the executor did, projections repeat the receipt, and a committed decision
\* is backed by the receipt of its own request.
THEOREM EvidenceAgreement == Spec => []EvidenceAgrees
<1>1. EvidenceInv => EvidenceAgrees
  BY DEF EvidenceInv
<1> QED
  BY <1>1, EvidenceInvariant, PTL

\* What an operation answers is in the ledger, and a tool's success with hooks only
\* after the durable observation of its receipt.
THEOREM AnswersRestOnFacts == Spec => []AnswersBacked
<1>1. EvidenceInv => AnswersBacked
  BY DEF EvidenceInv, AnswersBacked, ToolSuccessObserved, Claims
<1> QED
  BY <1>1, EvidenceInvariant, PTL

----------------------------------------------------------------------------
\* Behind the Tool boundary.

\* A step moves one operation, which stays itself and on its effect.
LEMMA OneMoves ==
    ASSUME TypeOK, NEW a \in Actors, NEW s, Become(a, s)
    PROVE  actor'[a] = s /\ \A b \in Actors \ {a} : actor'[b] = actor[b]
BY DEF TypeOK, Become

\* A place an operation reaches by itself.
Same(a, s) == s.op = actor[a].op /\ s.eff = actor[a].eff

\* Going on, or waiting for the append, is such a place.
LEMMA SamePlaces ==
    ASSUME TypeOK, NEW a \in Actors
    PROVE  /\ \A pc : Goto(a, pc).pc = pc /\ Same(a, Goto(a, pc))
           /\ Seen(a).pc = actor[a].pc /\ Same(a, Seen(a))
           /\ \A pc, o : LET s == [Goto(a, pc) EXCEPT !.out = o] IN s.pc = pc /\ Same(a, s)
BY DEF TypeOK, ActorState, ActorRecord, Goto, Seen, Same

\* The facts of the effects never change.
Immutable == \A e \in Effects, k \in Kinds : ledger[e][k] # Null => ledger'[e][k] = ledger[e][k]

\* A publication changes no fact.
LEMMA WriteImmutable ==
    ASSUME TypeOK, NEW e \in Effects, NEW k \in Kinds, NEW f, AtMostWrites(e, k, f)
    PROVE  Immutable
BY DEF TypeOK, AtMostWrites, Write, Immutable

\* Neither does any step of execute_invocation, which stays on its effect.
LEMMA ToolKeeps ==
    ASSUME TypeOK, NEW a \in Actors, ToolStep(a)
    PROVE  /\ Same(a, actor'[a]) /\ Immutable
           /\ \A b \in Actors \ {a} : actor'[b] = actor[b]
           /\ \A e \in Effects \ {actor[a].eff} : ledger'[e] = ledger[e]
<1>0. actor[a].eff \in Effects
  BY AtStep DEF ToolStep, Admit, ControlCancelled, Prepare, ReadReceipt, VerifyObservation, ReadWaiting,
     ReadStarted, RecoverWait, PublishRecoveredWait, BeforeEffect, Authorize, Start, Enter, Outcome,
     PublishWait, PublishReceipt, PublishProjection, AfterReceipt, MarkUncertain, At, Steps, ToolSteps
<1>1. PICK e \in Effects : e = actor[a].eff
  BY <1>0
<1>2. ASSUME NEW k \in Kinds, NEW f, NEW p, NEW q, AppendOnce(a, k, f, Goto(a, p), Goto(a, q))
      PROVE  AtMostWrites(e, k, f) /\ \E s : Become(a, s) /\ Same(a, s)
  BY <1>1, <1>2, SamePlaces DEF AppendOnce, StorageFails, AtMostWrites
<1>3. ASSUME NEW k \in Kinds, NEW f, NEW p, NEW q, NEW r,
             AppendUnlessCancelled(a, k, f, Goto(a, p), Goto(a, q), Goto(a, r))
      PROVE  AtMostWrites(e, k, f) /\ \E s : Become(a, s) /\ Same(a, s)
  BY <1>1, <1>3, SamePlaces DEF AppendUnlessCancelled, StorageFails, AtMostWrites
<1>4. ASSUME NEW k \in Kinds, NEW f, AtMostWrites(e, k, f), NEW s, Become(a, s), Same(a, s)
      PROVE  /\ Same(a, actor'[a]) /\ Immutable
             /\ \A b \in Actors \ {a} : actor'[b] = actor[b]
             /\ \A d \in Effects \ {e} : ledger'[d] = ledger[d]
  <2>1. \A d \in Effects \ {e} : ledger'[d] = ledger[d]
    BY <1>4 DEF AtMostWrites, Write, TypeOK
  <2> QED
    BY <1>4, <2>1, WriteImmutable, OneMoves
<1>5. CASE Admit(a) \/ PublishRecoveredWait(a) \/ Start(a) \/ PublishWait(a)
  BY <1>1, <1>3, <1>4, <1>5, KindNames DEF Admit, PublishRecoveredWait, Start, PublishWait
<1>6. CASE Prepare(a) \/ Authorize(a) \/ PublishReceipt(a) \/ PublishProjection(a)
  BY <1>1, <1>2, <1>4, <1>6, KindNames, AnswerPlain DEF Prepare, Authorize, PublishReceipt, PublishProjection
<1>7. CASE MarkUncertain(a)
  <2>1. AtMostWrites(e, "uncertain", Mark)
    BY <1>1, <1>7 DEF MarkUncertain, AtMostWrites
  <2> QED
    BY <1>1, <1>4, <1>7, <2>1, KindNames, SamePlaces DEF MarkUncertain
<1>8. CASE \/ ControlCancelled(a) \/ ReadReceipt(a) \/ VerifyObservation(a) \/ ReadWaiting(a)
           \/ ReadStarted(a) \/ RecoverWait(a) \/ BeforeEffect(a) \/ Enter(a) \/ Outcome(a) \/ AfterReceipt(a)
  <2>1. AtMostWrites(e, "receipt", Mark)
    BY <1>8 DEF ControlCancelled, ReadReceipt, VerifyObservation, ReadWaiting, ReadStarted, RecoverWait,
       BeforeEffect, Enter, Outcome, AfterReceipt, AtMostWrites
  <2>2. \E s : Become(a, s) /\ Same(a, s)
    BY ZenonT(40), <1>8, SamePlaces DEF ControlCancelled, ReadReceipt, VerifyObservation, ReadWaiting, ReadStarted,
       RecoverWait, BeforeEffect, Enter, Outcome, AfterReceipt
  <2> QED
    BY <1>1, <1>4, <2>1, <2>2, KindNames
<1> QED
  BY <1>5, <1>6, <1>7, <1>8 DEF ToolStep

\* The other operations and the callers change no fact either, and none of them is
\* ever behind the boundary.
LEMMA OthersKeep ==
    ASSUME TypeOK, EvidenceInv, Gate, NEW a \in Actors,
           Call(a) \/ Abandon(a) \/ Collect(a) \/ HydrateStep(a) \/ ReconcileStep(a) \/ ResolveStep(a)
    PROVE  /\ ~Passed(actor'[a]) /\ Immutable
           /\ \A b \in Actors \ {a} : actor'[b] = actor[b]
<1>1. CASE Call(a) \/ Abandon(a) \/ Collect(a)
  <2>1. UNCHANGED ledger
    BY <1>1 DEF Call, ToolBegin, HydrateBegin, ReconcileBegin, ResolveBegin, Abandon, Collect
  <2>2. ASSUME NEW s, Become(a, s), s.op \in Ops, s.pc \in {"idle", "admit"} \/ s.op # "tool"
        PROVE  ~Passed(actor'[a]) /\ \A b \in Actors \ {a} : actor'[b] = actor[b]
    BY <2>2, OneMoves DEF Passed
  <2>3. \E s : Become(a, s) /\ s.op \in Ops /\ (s.pc \in {"idle", "admit"} \/ s.op # "tool")
    <3>1. CASE Abandon(a) \/ Collect(a)
      BY <3>1 DEF Abandon, Collect, Idle, Ops
    <3>2. ASSUME NEW e \in Effects, NEW b \in Binding, ToolBegin(a, e, b)
          PROVE  \E s : Become(a, s) /\ s.op \in Ops /\ (s.pc \in {"idle", "admit"} \/ s.op # "tool")
      <4>1. PICK s : s = [Idle EXCEPT !.op = "tool", !.pc = "admit", !.eff = e, !.bind = b]
        OBVIOUS
      <4>2. Become(a, s)
        BY <3>2, <4>1 DEF ToolBegin, Begin
      <4>3. s.op \in Ops /\ s.pc = "admit"
        BY <4>1 DEF Idle, Ops
      <4> QED
        BY <4>2, <4>3
    <3>3. ASSUME NEW e \in Effects, NEW b \in SavedCall, HydrateBegin(a, e, b)
          PROVE  \E s : Become(a, s) /\ s.op \in Ops /\ (s.pc \in {"idle", "admit"} \/ s.op # "tool")
      <4>1. PICK s : s = [Idle EXCEPT !.op = "hydrate", !.pc = "h_chain", !.eff = e, !.bind = b]
        OBVIOUS
      <4>2. Become(a, s)
        BY <3>3, <4>1 DEF HydrateBegin, Begin
      <4>3. s.op \in Ops /\ s.op # "tool"
        BY <4>1 DEF Idle, Ops
      <4> QED
        BY <4>2, <4>3
    <3>4. ASSUME NEW e \in Effects, NEW r \in Recs, ReconcileBegin(a, e, r)
          PROVE  \E s : Become(a, s) /\ s.op \in Ops /\ (s.pc \in {"idle", "admit"} \/ s.op # "tool")
      <4>1. PICK s : s = [Idle EXCEPT !.op = "reconcile", !.pc = "r_chain", !.eff = e, !.rec = r]
        OBVIOUS
      <4>2. Become(a, s)
        BY <3>4, <4>1 DEF ReconcileBegin
      <4>3. s.op \in Ops /\ s.op # "tool"
        BY <4>1 DEF Idle, Ops
      <4> QED
        BY <4>2, <4>3
    <3>5. ASSUME NEW e \in Effects, NEW b \in Binding, ResolveBegin(a, e, b)
          PROVE  \E s : Become(a, s) /\ s.op \in Ops /\ (s.pc \in {"idle", "admit"} \/ s.op # "tool")
      <4>1. PICK s : s = [Idle EXCEPT !.op = "resolve", !.pc = "s_receipt", !.eff = e, !.bind = b,
                                   !.out = world[e]]
        OBVIOUS
      <4>2. Become(a, s)
        BY <3>5, <4>1 DEF ResolveBegin
      <4>3. s.op \in Ops /\ s.op # "tool"
        BY <4>1 DEF Idle, Ops
      <4> QED
        BY <4>2, <4>3
    <3>6. CASE Call(a)
      BY <3>2, <3>3, <3>4, <3>5, <3>6 DEF Call
    <3> QED
      BY <1>1, <3>1, <3>6
  <2> QED
    BY <2>1, <2>2, <2>3 DEF Immutable
<1>2. CASE HydrateStep(a) \/ ReconcileStep(a) \/ ResolveStep(a)
  <2>0. actor[a].pc \in HydrateSteps \cup ReconcileSteps \cup ResolveSteps /\ actor[a].pc \in Steps
    BY <1>2 DEF HydrateStep, HydrateChain, HydrateReceipt, HydrateProject, HydrateWaiting, HydrateWait,
       ReconcileStep, ReconcileChain, ReconcileReceipt, ReconcileDecision, Inspect, ReconcileCommit,
       ReconcileDecide, ResolveStep, ResolveReceipt, ResolveProject, At, Steps, HydrateSteps,
       ReconcileSteps, ResolveSteps
  <2>1. actor[a].eff \in Effects /\ actor[a].op # "tool" /\ actor[a] \in ActorRecord
    BY <2>0, Resting DEF Home, Fits
  <2>2. PICK e \in Effects : e = actor[a].eff
    BY <2>1
  <2>3. ASSUME NEW k \in Kinds, NEW f, NEW p, AtomicPublication(a, k, f, Goto(a, p))
        PROVE  AtMostWrites(e, k, f) /\ \E s : Become(a, s) /\ Same(a, s)
    BY <2>2, <2>3, SamePlaces DEF AtomicPublication, NotResumable, AppendUnlessCancelled, StorageFails, AtMostWrites
  <2>4. ASSUME NEW k \in Kinds, NEW f, AtMostWrites(e, k, f), NEW s, Become(a, s), Same(a, s)
        PROVE  /\ ~Passed(actor'[a]) /\ Immutable
               /\ \A b \in Actors \ {a} : actor'[b] = actor[b]
    BY <2>1, <2>4, WriteImmutable, OneMoves DEF Same, Passed
  <2>5. CASE HydrateProject(a) \/ HydrateWait(a) \/ ResolveReceipt(a) \/ ResolveProject(a)
    BY <2>3, <2>4, <2>5, KindNames, AnswerPlain DEF HydrateProject, HydrateWait, ResolveReceipt, ResolveProject
  <2>6. CASE ReconcileCommit(a)
    <3>1. AtMostWrites(e, "receipt", Payload(actor[a].bind, actor[a].out, actor[a].rec))
      BY <2>2, <2>6 DEF ReconcileCommit, StorageFails, AtMostWrites
    <3>2. \E s : Become(a, s) /\ Same(a, s)
      BY <2>6, SamePlaces DEF ReconcileCommit, StorageFails
    <3> QED
      BY <2>4, <3>1, <3>2, KindNames
  <2>7. CASE \/ HydrateChain(a) \/ HydrateReceipt(a) \/ HydrateWaiting(a) \/ ReconcileChain(a)
             \/ ReconcileReceipt(a) \/ ReconcileDecision(a) \/ Inspect(a) \/ ReconcileDecide(a)
    <3>1. AtMostWrites(e, "receipt", Mark)
      BY <2>7 DEF HydrateChain, HydrateReceipt, HydrateWaiting, ReconcileChain, ReconcileReceipt,
         ReconcileDecision, Inspect, ReconcileDecide, AtMostWrites
    <3>2. /\ \A pc, b : Same(a, [Goto(a, pc) EXCEPT !.bind = b])
          /\ \A pc, f : Same(a, [Goto(a, pc) EXCEPT !.saved = f])
          /\ \A pc, o, f : Same(a, [Goto(a, pc) EXCEPT !.out = o, !.saved = f])
          /\ \A pc, o, x : Same(a, [Goto(a, pc) EXCEPT !.out = o, !.res = x])
          /\ \A pc, x : Same(a, [Goto(a, pc) EXCEPT !.res = x])
      BY <2>1 DEF Goto, Same, ActorRecord
    <3>3. \E s : Become(a, s) /\ Same(a, s)
      <4>1. CASE HydrateChain(a) \/ HydrateReceipt(a) \/ HydrateWaiting(a)
        BY ZenonT(40), <4>1, <3>2, SamePlaces DEF HydrateChain, HydrateReceipt, HydrateWaiting
      <4>2. CASE ReconcileChain(a) \/ ReconcileReceipt(a) \/ ReconcileDecision(a)
        <5>1. CASE ReconcileChain(a) \/ ReconcileReceipt(a)
          <6>1. \E pc, b, f : \/ Become(a, [Goto(a, pc) EXCEPT !.bind = b])
                             \/ Become(a, [Goto(a, pc) EXCEPT !.saved = f])
                             \/ Become(a, Goto(a, pc))
            BY <5>1 DEF ReconcileChain, ReconcileReceipt
          <6> QED
            BY <6>1, <3>2, SamePlaces
        <5>2. CASE ReconcileDecision(a)
          <6>1. \E pc, o, x : \/ Become(a, [Goto(a, pc) EXCEPT !.out = o])
                             \/ Become(a, [Goto(a, pc) EXCEPT !.out = o, !.res = x])
                             \/ Become(a, Goto(a, pc))
            BY <5>2 DEF ReconcileDecision
          <6> QED
            BY <6>1, <3>2, SamePlaces
        <5> QED
          BY <4>2, <5>1, <5>2
      <4>3. CASE Inspect(a) \/ ReconcileDecide(a)
        BY <4>3, <3>2, SamePlaces DEF Inspect, ReconcileDecide
      <4> QED
        BY <2>7, <4>1, <4>2, <4>3
    <3> QED
      BY <2>4, <3>1, <3>3, KindNames
  <2> QED
    BY <1>2, <2>5, <2>6, <2>7 DEF HydrateStep, ReconcileStep, ResolveStep
<1> QED
  BY <1>1, <1>2

\* A step of an operation that is behind the boundary, or stays outside, keeps the
\* tickets of the others.
LEMMA GateStep ==
    ASSUME TypeOK, EvidenceInv, GateInv, Gate, NEW a \in Actors, Immutable,
           \A b \in Actors \ {a} : actor'[b] = actor[b],
           Passed(actor'[a]) => Passed(actor[a]) /\ actor'[a].eff = actor[a].eff,
           \A e \in Effects : \/ ledger'[e]["started"] = ledger[e]["started"] /\ entries'[e] = entries[e]
                              \/ Passed(actor[a]) /\ e = actor[a].eff,
           Ticket(actor[a])'
    PROVE  GateInv'
<1>1. \A b \in Actors : Passed(actor[b]) => actor[b].eff \in Effects /\ ledger[actor[b].eff]["admitted"] # Null
  BY DEF EvidenceInv, Home, Passed, GateInv, Ticket
<1>2. \A e \in Effects : ledger'[e]["started"] # Null => ledger'[e]["admitted"] # Null
  BY <1>1, KindNames DEF GateInv, Immutable
<1>3. ASSUME NEW b \in Actors PROVE Ticket(actor[b])'
  <2>1. CASE b = a
    BY <2>1
  <2>2. CASE b # a /\ Passed(actor[b])
    <3>1. PICK e \in Effects : e = actor[b].eff /\ e = actor'[b].eff
      BY <1>1, <2>2
    <3>2. ledger'[e]["started"] = ledger[e]["started"] /\ entries'[e] = entries[e]
      BY <2>2, <3>1 DEF GateInv
    <3>3. Ticket(actor[b]) /\ actor'[b] = actor[b]
      BY <2>2 DEF GateInv
    <3> QED
      BY <2>2, <3>1, <3>2, <3>3, KindNames DEF Ticket, Immutable
  <2>3. CASE b # a /\ ~Passed(actor[b])
    BY <2>3 DEF Ticket, Passed
  <2> QED
    BY <2>1, <2>2, <2>3
<1>4. ASSUME NEW b \in Actors, NEW c \in Actors, b # c, Passed(actor'[b]), Passed(actor'[c])
      PROVE  actor'[b].eff # actor'[c].eff
  BY <1>4 DEF GateInv
<1>5. (\A b, c \in Actors : b # c /\ Passed(actor[b]) /\ Passed(actor[c]) => actor[b].eff # actor[c].eff)'
  BY <1>4 DEF Passed
<1> QED
  BY <1>2, <1>3, <1>5 DEF GateInv

\* Where a step of execute_invocation behind the boundary leads.  A refusal is
\* reached before the start, or with the receipt in hand.
LEMMA ToolRefusals ==
    ASSUME TypeOK, EvidenceInv, NEW a \in Actors, ToolStep(a), ~Admit(a),
           actor[a].pc \in Before => ledger[actor[a].eff]["started"] = Null,
           actor[a].pc \notin {"recover", "recovered_wait"}
    PROVE  /\ actor[a].pc # "admit"
           /\ actor'[a].pc \in Before => actor[a].pc \in Before \ {"start"}
           /\ actor'[a].pc \notin {"recover", "recovered_wait"}
           /\ actor'[a].pc \in Refusals =>
                 ledger[actor[a].eff]["receipt"] # Null \/ actor[a].pc \in Before
<1>0. ASSUME NEW pc, NEW o, Become(a, Goto(a, pc)) \/ Become(a, [Goto(a, pc) EXCEPT !.out = o])
      PROVE  actor'[a].pc = pc
  <2>1. CASE Become(a, Goto(a, pc))
    BY <2>1, OneMoves, SamePlaces
  <2>2. CASE Become(a, [Goto(a, pc) EXCEPT !.out = o])
    <3>1. actor'[a] = [Goto(a, pc) EXCEPT !.out = o]
      BY <2>2, OneMoves
    <3> QED
      BY <3>1 DEF Goto, TypeOK, ActorState, ActorRecord
  <2> QED
    BY <1>0, <2>1, <2>2
<1>1. CASE Prepare(a) \/ Authorize(a)
  <2>1. PICK s : /\ Become(a, s) /\ actor[a].pc \in Before \ {"start"}
                 /\ s.pc \in {"read_receipt", "start", "error", actor[a].pc}
    BY <1>1, SamePlaces DEF Prepare, Authorize, AppendOnce, StorageFails, At, Before
  <2> QED
    BY <2>1, OneMoves DEF Before, Refusals
<1>2. CASE ControlCancelled(a) \/ BeforeEffect(a) \/ Start(a)
  <2>1. PICK s : /\ Become(a, s) /\ actor[a].pc \in Before
                 /\ s.pc \in {"authorize", "denied", "error", "cancelled", "enter", "uncertain"}
                 /\ s.pc = "authorize" => actor[a].pc # "start"
    BY <1>2, SamePlaces DEF ControlCancelled, BeforeEffect, Start, AppendUnlessCancelled, StorageFails, At, Before
  <2> QED
    BY <2>1, OneMoves DEF Before, Refusals
<1>3. CASE ReadReceipt(a)
  <2>1. PICK pc \in {"read_waiting", "verify", "completed", "failed", "mark_uncertain"} :
           Become(a, Goto(a, pc)) \/ \E o : Become(a, [Goto(a, pc) EXCEPT !.out = o])
    BY <1>3 DEF ReadReceipt, Answer
  <2>2. actor'[a].pc = pc /\ actor[a].pc = "read_receipt"
    BY <1>3, <2>1, <1>0 DEF ReadReceipt, At
  <2> QED
    BY <2>2 DEF Before, Refusals
<1>4. CASE ReadWaiting(a) \/ ReadStarted(a)
  <2>1. PICK s : /\ Become(a, s) /\ actor[a].pc \in {"read_waiting", "read_started"}
                 /\ s.pc \in {"read_started", "mark_uncertain", "awaiting", "uncertain", "before_effect",
                              "authorize"}
    BY <1>4, SamePlaces DEF ReadWaiting, ReadStarted, At, Before
  <2> QED
    BY <2>1, OneMoves DEF Before, Refusals
<1>5. CASE VerifyObservation(a) \/ AfterReceipt(a)
  <2>1. PICK s : Become(a, s) /\ s.pc \in {"completed", "failed", "error"}
                 /\ actor[a].pc \in {"verify", "after_receipt"}
    BY <1>5, SamePlaces DEF VerifyObservation, AfterReceipt, At, Answer
  <2>2. ledger[actor[a].eff]["receipt"] # Null
    BY <2>1, Resting DEF Steps, ToolSteps, Claims
  <2> QED
    BY <2>1, <2>2, OneMoves DEF Before, Refusals
<1>6. CASE \/ Enter(a) \/ Outcome(a) \/ PublishWait(a) \/ PublishReceipt(a) \/ PublishProjection(a)
           \/ MarkUncertain(a)
  <2> DEFINE P == {"run", "receipt", "wait", "mark_uncertain", "awaiting", "project",
                   "after_receipt", "completed", "failed", "uncertain"}
  <2>1. \/ \E pc \in P : Become(a, Goto(a, pc)) \/ \E o : Become(a, [Goto(a, pc) EXCEPT !.out = o])
        \/ Become(a, Seen(a))
    <3>1. CASE Enter(a) \/ Outcome(a) \/ MarkUncertain(a)
      BY <3>1 DEF Enter, Outcome, MarkUncertain
    <3>2. CASE PublishWait(a)
      BY <3>2 DEF PublishWait, AppendUnlessCancelled, StorageFails
    <3>3. CASE PublishReceipt(a)
      BY <3>3 DEF PublishReceipt, AppendOnce, StorageFails
    <3>4. CASE PublishProjection(a)
      BY <3>4 DEF PublishProjection, AppendOnce, StorageFails, Answer
    <3> QED
      BY <1>6, <3>1, <3>2, <3>3, <3>4
  <2>2. actor[a].pc \in {"enter", "run", "wait", "receipt", "project", "mark_uncertain"}
    BY <1>6 DEF Enter, Outcome, MarkUncertain, PublishWait, PublishReceipt, PublishProjection, At
  <2>3. actor'[a].pc \in P \cup {actor[a].pc}
    <3>1. CASE Become(a, Seen(a))
      BY <3>1, OneMoves, SamePlaces
    <3> QED
      BY <2>1, <3>1, <1>0
  <2> QED
    BY <2>2, <2>3 DEF Before, Refusals
<1>7. ~RecoverWait(a) /\ ~PublishRecoveredWait(a)
  BY DEF RecoverWait, PublishRecoveredWait, At
<1> QED
  BY <1>1, <1>2, <1>3, <1>4, <1>5, <1>6, <1>7 DEF ToolStep

\* An admitted operation keeps its ticket.
LEMMA PassedGate ==
    ASSUME TypeOK, EvidenceInv, EntryInv, EntryInv', GateInv, Gate, NEW a \in Actors, ToolStep(a), ~Admit(a)
    PROVE  GateInv'
<1>0. actor[a].pc \in Steps /\ actor[a].pc \in ToolSteps
  BY DEF ToolStep, Admit, ControlCancelled, Prepare, ReadReceipt, VerifyObservation, ReadWaiting,
     ReadStarted, RecoverWait, PublishRecoveredWait, BeforeEffect, Authorize, Start, Enter, Outcome,
     PublishWait, PublishReceipt, PublishProjection, AfterReceipt, MarkUncertain, At, Steps, ToolSteps
<1>1. PICK e \in Effects : e = actor[a].eff /\ actor[a].op = "tool"
  BY <1>0, Resting DEF Home, Fits
<1>2. /\ Same(a, actor'[a]) /\ Immutable
      /\ \A b \in Actors \ {a} : actor'[b] = actor[b]
      /\ \A d \in Effects \ {e} : ledger'[d] = ledger[d]
  BY <1>1, ToolKeeps
<1>3. actor[a].pc # "admit"
  BY DEF ToolStep, Admit, ControlCancelled, Prepare, ReadReceipt, VerifyObservation, ReadWaiting,
     ReadStarted, RecoverWait, PublishRecoveredWait, BeforeEffect, Authorize, Start, Enter, Outcome,
     PublishWait, PublishReceipt, PublishProjection, AfterReceipt, MarkUncertain, At
<1>4. Passed(actor[a]) /\ Ticket(actor[a])
  BY <1>0, <1>1, <1>3 DEF Passed, GateInv, ToolSteps
<1>5. /\ ledger[e]["admitted"] # Null
      /\ actor[a].pc \in Before => ledger[e]["started"] = Null
      /\ actor[a].pc \notin {"recover", "recovered_wait"}
  BY <1>1, <1>4 DEF Ticket
<1>6. /\ actor'[a].pc \in Before => actor[a].pc \in Before \ {"start"}
      /\ actor'[a].pc \notin {"recover", "recovered_wait"}
      /\ actor'[a].pc \in Refusals => ledger[e]["receipt"] # Null \/ actor[a].pc \in Before
  BY <1>1, <1>5, ToolRefusals
<1>7. /\ \A d \in Effects \ {e} : entries'[d] = entries[d]
      /\ actor[a].pc # "start" => ledger'[e]["started"] = ledger[e]["started"]
      /\ actor[a].pc # "enter" => entries' = entries
      /\ actor'[a].pc \in Refusals => ledger'[e]["started"] = ledger[e]["started"]
  <2>1. CASE Start(a)
    <3>1. entries' = entries /\ actor[a].pc = "start"
      BY <2>1 DEF Start, At, Quiet, env
    <3>2. CASE Become(a, Goto(a, "cancelled")) /\ UNCHANGED ledger
      BY <3>1, <3>2
    <3>3. CASE Become(a, Goto(a, "enter")) \/ Become(a, Goto(a, "uncertain"))
      BY <3>1, <3>3, SamePlaces, OneMoves DEF Refusals
    <3> QED
      BY <2>1, <3>2, <3>3 DEF Start, AppendUnlessCancelled, StorageFails
  <2>2. CASE Enter(a)
    BY <1>1, <2>2 DEF Enter, At, TypeOK
  <2>3. CASE ~Start(a) /\ ~Enter(a)
    BY <2>3, ToolPublicationsTame, ToolReadsTame DEF ToolStep, Tame
  <2> QED
    BY <2>1, <2>2, <2>3
<1>8. "enter" \notin Before
  BY DEF Before
<1>9. Ticket(actor[a])'
  <2>1. actor'[a].eff = e
    BY <1>1, <1>2 DEF Same
  <2>2. ledger'[e]["admitted"] # Null /\ (ledger[e]["receipt"] # Null => ledger'[e]["receipt"] # Null)
    BY <1>2, <1>5, KindNames DEF Immutable
  <2>3. actor'[a].pc \in Before => ledger'[e]["started"] = Null
    BY <1>5, <1>6, <1>7
  <2>4. actor'[a].pc \in Refusals => ledger'[e]["receipt"] # Null \/ entries'[e] = 0
    BY <1>5, <1>6, <1>7, <2>2 DEF EntryInv
  <2> QED
    BY <1>6, <2>1, <2>2, <2>3, <2>4 DEF Ticket
<1>10. actor'[a].eff = actor[a].eff
  BY <1>2 DEF Same
<1>11. \A d \in Effects : \/ ledger'[d]["started"] = ledger[d]["started"] /\ entries'[d] = entries[d]
                          \/ Passed(actor[a]) /\ d = actor[a].eff
  BY <1>1, <1>2, <1>4, <1>7
<1> QED
  BY <1>2, <1>4, <1>9, <1>10, <1>11, GateStep

\* The admission is granted once: nobody else is behind the boundary on this effect.
LEMMA AdmitGate ==
    ASSUME TypeOK, EvidenceInv, EntryInv, GateInv, Gate, NEW a \in Actors, Admit(a)
    PROVE  GateInv'
<1>0. actor[a].pc = "admit" /\ actor[a].pc \in Steps
  BY DEF Admit, At, Steps, ToolSteps
<1>1. PICK e \in Effects : e = actor[a].eff
  BY <1>0, Resting
<1>2. /\ Same(a, actor'[a]) /\ Immutable
      /\ \A b \in Actors \ {a} : actor'[b] = actor[b]
      /\ \A d \in Effects \ {e} : ledger'[d] = ledger[d]
  BY <1>1, ToolKeeps DEF ToolStep
<1>3. Tame
  BY ToolPublicationsTame
<1>4. /\ entries' = entries
      /\ \A d \in Effects : ledger'[d]["started"] = ledger[d]["started"]
  BY <1>3 DEF Tame
<1>5. CASE ~Passed(actor'[a])
  <2>1. Ticket(actor[a])'
    BY <1>5 DEF Ticket, Passed
  <2> QED
    BY <1>2, <1>4, <1>5, <2>1, GateStep
<1>6. CASE Passed(actor'[a])
  <2>1. \/ Become(a, Goto(a, "stopped")) \/ Become(a, Goto(a, "conflict"))
        \/ /\ Become(a, Goto(a, "prepare"))
           /\ ledger[e]["admitted"] = Null /\ Write(e, "admitted", Mark)
    BY <1>1 DEF Admit, AppendUnlessCancelled, StorageFails
  <2>2. actor'[a].pc = "prepare" /\ ledger[e]["admitted"] = Null /\ Write(e, "admitted", Mark)
    <3>1. ASSUME NEW pc, Become(a, Goto(a, pc)) PROVE actor'[a].pc = pc
      BY <3>1, OneMoves, SamePlaces
    <3> QED
      BY <1>6, <2>1, <3>1 DEF Passed
  <2>3. ledger'[e]["admitted"] # Null /\ ledger[e]["started"] = Null
    <3>1. ledger'[e]["admitted"] = Mark
      BY <2>2, KindNames, MarkType, WriteType
    <3> QED
      BY <2>2, <3>1, MarkType, NullNoFact DEF GateInv
  <2>4. \A b \in Actors \ {a} : Passed(actor[b]) => actor[b].eff # e /\ actor[b].eff \in Effects
    BY <2>2 DEF GateInv, Ticket, EvidenceInv, Home, Passed
  <2>5. \A d \in Effects : ledger'[d]["started"] # Null => ledger'[d]["admitted"] # Null
    BY <1>2, <1>4, KindNames DEF GateInv, Immutable
  <2>6. actor'[a].eff = e
    BY <1>1, <1>2 DEF Same
  <2>7. Ticket(actor[a])'
    BY <1>4, <2>2, <2>3, <2>6 DEF Ticket, Refusals
  <2>8. ASSUME NEW b \in Actors \ {a} PROVE Ticket(actor[b])'
    <3>1. CASE Passed(actor[b])
      <4>1. PICK d \in Effects : d = actor[b].eff /\ d = actor'[b].eff /\ d # e
        BY <1>2, <2>4, <3>1
      <4>2. Ticket(actor[b]) /\ ledger'[d] = ledger[d] /\ actor'[b] = actor[b]
        BY <1>2, <4>1 DEF GateInv
      <4> QED
        BY <1>4, <3>1, <4>1, <4>2 DEF Ticket
    <3>2. CASE ~Passed(actor[b])
      BY <1>2, <3>2 DEF Ticket, Passed
    <3> QED
      BY <3>1, <3>2
  <2>9. ASSUME NEW b \in Actors, NEW c \in Actors, b # c, Passed(actor'[b]), Passed(actor'[c])
        PROVE  actor'[b].eff # actor'[c].eff
    BY <1>2, <2>4, <2>6, <2>9 DEF GateInv
  <2>10. (\A b, c \in Actors : b # c /\ Passed(actor[b]) /\ Passed(actor[c]) => actor[b].eff # actor[c].eff)'
    BY <2>9 DEF Passed
  <2>11. \A b \in Actors : Ticket(actor[b])'
    BY <2>7, <2>8
  <2> QED
    BY <2>5, <2>10, <2>11 DEF GateInv
<1> QED
  BY <1>5, <1>6

\* Every step keeps the gate.
LEMMA GateNext ==
    ASSUME TypeOK, EvidenceInv, EntryInv, EntryInv', GateInv, [Next]_vars
    PROVE  GateInv'
<1> SUFFICES ASSUME Gate PROVE GateInv'
  BY DEF GateInv
<1>1. ASSUME NEW a \in Actors, ToolStep(a)
      PROVE  GateInv'
  BY <1>1, PassedGate, AdmitGate
<1>2. ASSUME NEW a \in Actors,
             Call(a) \/ Abandon(a) \/ Collect(a) \/ HydrateStep(a) \/ ReconcileStep(a) \/ ResolveStep(a)
      PROVE  GateInv'
  <2>1. /\ ~Passed(actor'[a]) /\ Immutable
        /\ \A b \in Actors \ {a} : actor'[b] = actor[b]
    BY <1>2, OthersKeep
  <2>2. Tame
    BY <1>2, HydrateTame, ReconcileTame, ResolveTame, SurroundingsTame
  <2>3. Ticket(actor[a])'
    BY <2>1 DEF Ticket, Passed
  <2>4. \A e \in Effects : ledger'[e]["started"] = ledger[e]["started"] /\ entries'[e] = entries[e]
    BY <2>2 DEF Tame
  <2> QED
    BY <2>1, <2>3, <2>4, GateStep
<1>3. CASE (\E e \in Effects : Work(e)) \/ Cancel \/ EndTurn \/ UNCHANGED vars
  <2>1. UNCHANGED <<ledger, actor, entries>>
    BY <1>3 DEF Work, Cancel, EndTurn, vars, env
  <2> QED
    BY <2>1 DEF GateInv, Ticket, Passed
<1> QED
  BY <1>1, <1>2, <1>3 DEF Next, Step

\* The gate holds throughout.
LEMMA GateInvariant == Spec => []GateInv
<1>1. Init => GateInv
  BY KindNames DEF Init, GateInv, Ticket, Passed, Idle
<1>2. TypeOK /\ EvidenceInv /\ EntryInv /\ EntryInv' /\ GateInv /\ [Next]_vars => GateInv'
  BY GateNext
<1> QED
  BY <1>1, <1>2, TypeCorrect, EvidenceInvariant, EntryInvariant, PTL DEF Spec

\* Behind the Tool boundary a refusal tells the model the truth: without a receipt
\* the executor was never entered for the effect, by this call or any other.
THEOREM RefusalsAreHonest == Spec => []RefusalMeansNotEntered
<1>1. GateInv => RefusalMeansNotEntered
  BY DEF GateInv, Ticket, Passed, Refusals, RefusalMeansNotEntered
<1> QED
  BY <1>1, GateInvariant, PTL

===============================================================================
