-------------------------- MODULE ModelOpeningProofs --------------------------
(***************************************************************************)
(* Proofs about ModelOpening for every number of attempts, crashes and     *)
(* Steps: a generation is entered at most once and only on a durable       *)
(* opening that the strict reader accepts.  The last section is about the  *)
(* call that a generation makes, which ModelCall describes: what its       *)
(* opening loop sends, and that a stop is not overtaken by an answer.      *)
(***************************************************************************)
EXTENDS ModelOpening, SequenceTheorems, FiniteSetTheorems, WellFoundedInduction, TLAPS

----------------------------------------------------------------------------
\* Types.

EventKinds == ModelFacts \cup Terminals
              \cup {"ExecutionBound", "ExecutionStarted", "ExecutionInputAdmitted", "ExecutionCancelled"}
\* Who gave an event its number.
Authors == {f[a] : f \in Names, a \in Attempts} \cup EventKinds \cup {"opening"}
Outcomes == {"none", "ToolCalls", "FinalAnswer"}
Events == [kind : EventKinds, id : Authors \X Nat, step : Steps, req : Nat, open : Nat, out : Outcomes]

Stages == {"none", "Requested", "Preparing", "Committing", "Admitted", "Consumed", "Completed"}
Entries == [st : Stages, req : Nat, open : Nat]

Places == {"idle", "step", "request", "publish", "open", "prepare", "store", "stream", "complete",
           "ack", "done", "dead"} \cup Terminals
Positions == [pc : Places, s : Steps, req : Nat, n : Nat, out : Outcomes]

Workers == [pc : {"none", "inspect", "fact", "append", "verify", "consume", "done", "err"}, open : Nat]

TypeOK ==
    /\ ledger \in Seq(Events)
    /\ facts \in [Steps -> Nat]
    /\ reg \in [Attempts -> [Steps -> Entries]]
    /\ drv \in [Attempts -> Positions]
    /\ wrk \in [Attempts -> Workers]
    /\ cancelled \subseteq Attempts
    /\ expired \in BOOLEAN
    /\ rec \in Names
    /\ next \in [Attempts -> Nat]
    /\ gen \in [Steps -> Nat]

\* The constants' types, as the provers use them.
LEMMA StepsType == 0 \in Steps /\ Steps \subseteq Nat /\ \A s \in Steps : s + 1 < MaxSteps => s + 1 \in Steps
BY OpeningAssumption DEF Steps

\* The events of the model are events.
LEMMA EventType ==
    ASSUME NEW kind \in EventKinds, NEW id \in Authors \X Nat, NEW step \in Steps, NEW req \in Nat,
           NEW open \in Nat, NEW out \in Outcomes
    PROVE  /\ Event(kind, id, step, req, open, out) \in Events
           /\ Event(kind, id, step, req, open, out).kind = kind
           /\ Event(kind, id, step, req, open, out).id = id
           /\ Event(kind, id, step, req, open, out).step = step
BY DEF Event, Events

\* The events of the executor are events.
LEMMA PlainType ==
    ASSUME NEW kind \in EventKinds
    PROVE  Plain(kind) \in Events /\ Plain(kind).kind = kind
<1>1. <<kind, 0>> \in Authors \X Nat
  BY DEF Authors
<1>2. "none" \in Outcomes
  BY DEF Outcomes
<1> QED
  BY <1>1, <1>2, StepsType, EventType DEF Plain

\* A recorded event carries its attempt's name and number.
LEMMA RecordedType ==
    ASSUME TypeOK, NEW a \in Attempts, NEW kind \in EventKinds, NEW s \in Steps, NEW req \in Nat,
           NEW open \in Nat, NEW out \in Outcomes
    PROVE  Recorded(a, kind, s, req, open, out) \in Events /\ Recorded(a, kind, s, req, open, out).kind = kind
<1>1. <<rec[a], next[a]>> \in Authors \X Nat
  BY DEF TypeOK, Authors
<1> QED
  BY <1>1, EventType DEF Recorded

\* Appending an event.
LEMMA AppendEvent ==
    ASSUME NEW es \in Seq(Events), NEW e \in Events
    PROVE  /\ Append(es, e) \in Seq(Events) /\ Len(Append(es, e)) = Len(es) + 1
           /\ \A i \in 1..Len(es) : Append(es, e)[i] = es[i]
           /\ Append(es, e)[Len(es) + 1] = e
           /\ Len(es) \in Nat
BY AppendProperties, LenProperties

\* Only one attempt moves.
Alone(a) ==
    \A b \in Attempts \ {a} : drv'[b] = drv[b] /\ reg'[b] = reg[b] /\ wrk'[b] = wrk[b]

\* The ledger grows by one event that is no opening, or not at all.
Recording(e) == ledger' = ledger \/ (ledger' = Append(ledger, e) /\ e.kind # "ModelOpeningAdmitted")

\* LedgerRecorder.append moves one attempt and appends at most its event.
LEMMA RecordStepType ==
    ASSUME TypeOK, NEW a \in Attempts, NEW e \in Events, NEW to \in Positions, Record(a, e, to)
    PROVE  /\ ledger' \in Seq(Events) /\ next' \in [Attempts -> Nat]
           /\ drv' \in [Attempts -> Positions]
           /\ \A b \in Attempts \ {a} : drv'[b] = drv[b]
           /\ \/ drv'[a] = [drv[a] EXCEPT !.pc = "TurnFailed"] /\ ledger' = ledger
              \/ drv'[a] = to /\ ledger' = Append(ledger, e)
<1>1. "TurnFailed" \in Places
  BY DEF Places, Terminals
<1>2. Append(ledger, e) \in Seq(Events)
  BY AppendEvent DEF TypeOK
<1>3. [drv[a] EXCEPT !.pc = "TurnFailed"] \in Positions
  BY <1>1 DEF TypeOK, Positions
<1>4. CASE Conflict(e)
  <2>1. PICK d \in Positions : d = [drv[a] EXCEPT !.pc = "TurnFailed"]
    BY <1>3
  <2>2. drv' = [drv EXCEPT ![a] = d] /\ UNCHANGED <<ledger, next>>
    BY <1>4, <2>1 DEF Record
  <2> QED
    BY <2>1, <2>2 DEF TypeOK
<1>5. CASE ~Conflict(e)
  <2>1. /\ ledger' = Append(ledger, e) /\ next' = [next EXCEPT ![a] = next[a] + 1]
        /\ drv' = [drv EXCEPT ![a] = to]
    BY <1>5 DEF Record
  <2>2. next' \in [Attempts -> Nat]
    BY <2>1 DEF TypeOK
  <2>3. drv' \in [Attempts -> Positions] /\ drv'[a] = to /\ \A b \in Attempts \ {a} : drv'[b] = drv[b]
    BY <2>1 DEF TypeOK
  <2> QED
    BY <1>2, <2>1, <2>2, <2>3
<1> QED
  BY <1>4, <1>5

\* Moving the Turn of one attempt to another place keeps the types.
LEMMA PlaceType ==
    ASSUME TypeOK, NEW a \in Attempts, NEW d \in Positions, drv' = [drv EXCEPT ![a] = d]
    PROVE  /\ drv' \in [Attempts -> Positions] /\ drv'[a] = d
           /\ \A b \in Attempts \ {a} : drv'[b] = drv[b]
BY DEF TypeOK

----------------------------------------------------------------------------
\* The inductive invariant.

\* The Step an attempt is at work on, its registry entry and its storage worker.
Busy(a, s) == reg[a][s].st \notin {"none", "Completed"}

Owning == {"open", "prepare", "store", "stream", "complete", "ack"}
Settled == {"done"} \cup Terminals

Matches(w, st) ==
    /\ w \in {"inspect", "fact"} => st = "Preparing"
    /\ w \in {"append", "verify"} => st = "Committing"
    /\ w = "consume" => st = "Admitted"
    /\ w = "done" => st = "Consumed"

Orderly(a) ==
    /\ drv[a].pc \in Owning => Busy(a, drv[a].s)
    /\ drv[a].pc = "prepare" => reg[a][drv[a].s].st = "Preparing"
    /\ wrk[a].pc # "none" => drv[a].pc \in {"store"} \cup Settled
    /\ \A s \in Steps : Busy(a, s) =>
          /\ drv[a].pc \in Owning \cup Settled
          /\ drv[a].pc \in Owning => s = drv[a].s
          /\ Matches(wrk[a].pc, reg[a][s].st)
    /\ \A s, t \in Steps : Busy(a, s) /\ Busy(a, t) => s = t

\* An attempt whose worker has appended the opening of s holds the permit for s.
Holder(a, s) == wrk[a].pc \in {"verify", "consume", "done"} /\ Busy(a, s)

\* A permit is backed by the Step's opening, verified before it is admitted, and unused.
Permit(a, s) ==
    Holder(a, s) =>
        /\ gen[s] = 0
        /\ wrk[a].pc = "verify" => wrk[a].open \in Openings(s)
        /\ wrk[a].pc \in {"consume", "done"} =>
              reg[a][s].open \in Openings(s) /\ Verified(Through(reg[a][s].open))

\* A Step has one opening, under the one id that the Ledger grants once.
OpeningsUnique ==
    /\ \A i \in 1..Len(ledger) : ledger[i].kind = "ModelOpeningAdmitted" =>
          ledger[i].id = <<"opening", ledger[i].step>>
    /\ \A s \in Steps : \A i, j \in Openings(s) : i = j

\* One permit per Step, spent by its generation.
OneShot ==
    /\ OpeningsUnique
    /\ \A a \in Attempts : Orderly(a)
    /\ \A a \in Attempts, s \in Steps : Permit(a, s)
    /\ \A a, b \in Attempts, s \in Steps : Holder(a, s) /\ Holder(b, s) => a = b
    /\ \A s \in Steps : gen[s] > 0 => gen[s] = 1 /\ \E i \in Openings(s) : Verified(Through(i))

----------------------------------------------------------------------------
\* What stays when the stores grow.

FactsKept == \A s \in Steps : facts[s] # 0 => facts'[s] = facts[s]
LedgerGrows == ledger' = ledger \/ \E e \in Events : ledger' = Append(ledger, e)

\* A grown ledger has the old events at the old positions.
LEMMA GrowsType ==
    ASSUME TypeOK, LedgerGrows
    PROVE  /\ ledger' \in Seq(Events) /\ Len(ledger) \in Nat /\ Len(ledger') \in Nat
           /\ Len(ledger) <= Len(ledger')
           /\ \A i \in 1..Len(ledger) : i \in 1..Len(ledger') /\ ledger'[i] = ledger[i]
<1>1. ledger \in Seq(Events) /\ Len(ledger) \in Nat
  BY LenProperties DEF TypeOK
<1>2. CASE ledger' = ledger
  BY <1>1, <1>2
<1>3. ASSUME NEW e \in Events, ledger' = Append(ledger, e)
      PROVE  /\ ledger' \in Seq(Events) /\ Len(ledger') = Len(ledger) + 1
             /\ \A i \in 1..Len(ledger) : ledger'[i] = ledger[i]
  BY <1>1, <1>3, AppendEvent
<1>4. CASE \E e \in Events : ledger' = Append(ledger, e)
  <2>1. /\ ledger' \in Seq(Events) /\ Len(ledger') = Len(ledger) + 1
        /\ \A i \in 1..Len(ledger) : ledger'[i] = ledger[i]
    BY <1>3, <1>4
  <2> QED
    BY <1>1, <2>1
<1> QED
  BY <1>2, <1>4 DEF LedgerGrows

\* The prefix through an old position is the same.
LEMMA ThroughGrows ==
    ASSUME TypeOK, LedgerGrows, NEW i \in 1..Len(ledger)
    PROVE  Through(i)' = Through(i) /\ Through(i) \in Seq(Events) /\ Len(Through(i)) = i
<1>1. /\ ledger' \in Seq(Events) /\ ledger \in Seq(Events) /\ i \in 1..Len(ledger')
      /\ i \in 1..(Len(ledger) + 1) /\ Len(ledger) \in Nat /\ Len(ledger') \in Nat
      /\ \A j \in 1..i : ledger'[j] = ledger[j]
  <2>1. ledger \in Seq(Events)
    BY DEF TypeOK
  <2>2. /\ ledger' \in Seq(Events) /\ Len(ledger) \in Nat /\ Len(ledger') \in Nat
        /\ Len(ledger) <= Len(ledger')
        /\ \A j \in 1..Len(ledger) : ledger'[j] = ledger[j]
    BY GrowsType
  <2> QED
    BY <2>1, <2>2
<1>2. /\ SubSeq(ledger, 1, i) \in Seq(Events) /\ Len(SubSeq(ledger, 1, i)) = i
      /\ \A j \in 1..i : SubSeq(ledger, 1, i)[j] = ledger[j]
  BY <1>1
<1>3. /\ SubSeq(ledger', 1, i) \in Seq(Events) /\ Len(SubSeq(ledger', 1, i)) = i
      /\ \A j \in 1..i : SubSeq(ledger', 1, i)[j] = ledger'[j]
  BY <1>1
<1>4. SubSeq(ledger', 1, i) = SubSeq(ledger, 1, i)
  BY <1>1, <1>2, <1>3, SeqEqual
<1> QED
  BY <1>2, <1>4 DEF Through

\* What the strict reader accepts, it accepts again: preparations are never replaced.
LEMMA VerifiedAgain ==
    ASSUME TypeOK, FactsKept, NEW es \in Seq(Events), Verified(es)
    PROVE  Verified(es)'
<1>1. \A i \in 1..Len(es) : es[i].step \in Steps
  <2>1. \A i \in 1..Len(es) : es[i] \in Events
    BY ElementOfSeq
  <2> QED
    BY <2>1 DEF Events
<1>2. \A i \in 1..Len(es) : OpeningOk(es, i) => OpeningOk(es, i)'
  BY <1>1 DEF OpeningOk, FactFor, PreparationBinds, FactsKept
<1> QED
  BY <1>2 DEF Verified

\* A verified prefix stays verified.
LEMMA VerifiedStays ==
    ASSUME TypeOK, LedgerGrows, FactsKept, NEW i \in 1..Len(ledger), Verified(Through(i))
    PROVE  Verified(Through(i))'
<1>1. PICK es \in Seq(Events) : es = Through(i) /\ es = Through(i)'
  BY ThroughGrows
<1>2. Verified(es)'
  BY <1>1, VerifiedAgain
<1> QED
  BY <1>1, <1>2

\* An opening stays where it is, and a record of another kind adds none.
LEMMA OpeningsGrow ==
    ASSUME TypeOK, LedgerGrows, NEW s \in Steps
    PROVE  /\ Openings(s) \subseteq Openings(s)' /\ Openings(s) \subseteq 1..Len(ledger)
           /\ \A i \in Openings(s)' : i \in 1..Len(ledger) => i \in Openings(s)
BY GrowsType DEF Openings

----------------------------------------------------------------------------
\* Type correctness, action by action.

\* The places of the Turn, for the provers.
LEMMA PlacesHold ==
    ASSUME TypeOK, NEW a \in Attempts, NEW pc \in Places, NEW s \in Steps, NEW n \in Nat, NEW req \in Nat,
           NEW out \in Outcomes
    PROVE  /\ drv[a] \in Positions /\ drv[a].s \in Steps /\ drv[a].n \in Nat /\ drv[a].req \in Nat
           /\ drv[a].out \in Outcomes /\ drv[a].pc \in Places
           /\ [drv[a] EXCEPT !.pc = pc] \in Positions
           /\ [drv[a] EXCEPT !.pc = pc, !.s = s] \in Positions
           /\ [drv[a] EXCEPT !.pc = pc, !.n = n] \in Positions
           /\ [drv[a] EXCEPT !.n = n] \in Positions
           /\ [drv[a] EXCEPT !.pc = pc, !.req = req] \in Positions
           /\ [drv[a] EXCEPT !.pc = pc, !.out = out] \in Positions
           /\ [Idle EXCEPT !.pc = pc, !.s = s] \in Positions
           /\ [Idle EXCEPT !.pc = pc] \in Positions
<1>1. drv[a] \in Positions
  BY DEF TypeOK
<1>2. Idle \in Positions
  BY StepsType DEF Idle, Positions, Places, Outcomes
<1>3. PICK d \in Positions : d = drv[a]
  BY <1>1
<1>4. PICK f \in Positions : f = Idle
  BY <1>2
<1>5. /\ d.s \in Steps /\ d.n \in Nat /\ d.req \in Nat /\ d.out \in Outcomes /\ d.pc \in Places
      /\ [d EXCEPT !.pc = pc] \in Positions /\ [d EXCEPT !.pc = pc, !.s = s] \in Positions
  BY DEF Positions
<1>6. [d EXCEPT !.pc = pc, !.n = n] \in Positions /\ [d EXCEPT !.n = n] \in Positions
  BY DEF Positions
<1>7. [d EXCEPT !.pc = pc, !.req = req] \in Positions /\ [d EXCEPT !.pc = pc, !.out = out] \in Positions
  BY DEF Positions
<1>8. [f EXCEPT !.pc = pc, !.s = s] \in Positions /\ [f EXCEPT !.pc = pc] \in Positions
  BY DEF Positions
<1> QED
  BY <1>3, <1>4, <1>5, <1>6, <1>7, <1>8

\* The initial state is well typed.
LEMMA InitType == Init => TypeOK
<1> SUFFICES ASSUME Init PROVE TypeOK
  OBVIOUS
<1>1. /\ Plain("ExecutionBound") \in Events /\ Plain("ExecutionStarted") \in Events
      /\ Plain("ExecutionInputAdmitted") \in Events
  BY PlainType DEF EventKinds
<1>2. ledger \in Seq(Events)
  <2>1. \A x, y, z \in Events : <<x, y, z>> \in Seq(Events)
    OBVIOUS
  <2> QED
    BY <1>1, <2>1 DEF Init
<1>3. Idle \in Positions /\ NoEntry \in Entries /\ NoWorker \in Workers
  BY StepsType DEF Idle, Positions, Places, Outcomes, NoEntry, Entries, Stages, NoWorker, Workers
<1> QED
  BY <1>2, <1>3 DEF Init, TypeOK

\* A recorded event and the place it leads to keep the types.
LEMMA RecordType ==
    ASSUME TypeOK, NEW a \in Attempts, NEW e \in Events, NEW to \in Positions, Record(a, e, to),
           UNCHANGED <<facts, reg, wrk, cancelled, expired, rec, gen>>
    PROVE  TypeOK'
<1>1. ledger' \in Seq(Events) /\ next' \in [Attempts -> Nat] /\ drv' \in [Attempts -> Positions]
  BY RecordStepType
<1> QED
  BY <1>1 DEF TypeOK

\* A move of the Turn alone keeps the types.
LEMMA MoveType ==
    ASSUME TypeOK, NEW a \in Attempts, NEW d \in Positions, drv' = [drv EXCEPT ![a] = d],
           UNCHANGED <<ledger, facts, cancelled, expired, rec, next>>,
           reg' \in [Attempts -> [Steps -> Entries]], wrk' \in [Attempts -> Workers], gen' \in [Steps -> Nat]
    PROVE  TypeOK'
<1>1. drv' \in [Attempts -> Positions]
  BY PlaceType
<1> QED
  BY <1>1 DEF TypeOK

\* The stages of a registry entry.
LEMMA EntryType ==
    ASSUME TypeOK, NEW a \in Attempts, NEW s \in Steps, NEW st \in Stages, NEW open \in Nat, NEW req \in Nat
    PROVE  /\ reg[a][s] \in Entries /\ reg[a][s].req \in Nat /\ reg[a][s].open \in Nat
           /\ [reg[a][s] EXCEPT !.st = st] \in Entries
           /\ [reg[a][s] EXCEPT !.st = st, !.open = open] \in Entries
           /\ [st |-> st, req |-> req, open |-> open] \in Entries
<1>1. reg[a][s] \in Entries
  BY DEF TypeOK
<1> QED
  BY <1>1 DEF Entries

\* Changing one registry entry keeps the registries typed.
LEMMA RegType ==
    ASSUME TypeOK, NEW a \in Attempts, NEW s \in Steps, NEW x \in Entries, reg' = [reg EXCEPT ![a][s] = x]
    PROVE  /\ reg' \in [Attempts -> [Steps -> Entries]] /\ reg'[a][s] = x
           /\ \A t \in Steps \ {s} : reg'[a][t] = reg[a][t]
           /\ \A b \in Attempts \ {a} : reg'[b] = reg[b]
BY DEF TypeOK

\* Moving one worker keeps the workers typed.
LEMMA WorkerType ==
    ASSUME TypeOK, NEW a \in Attempts, NEW w \in Workers, wrk' = [wrk EXCEPT ![a] = w]
    PROVE  /\ wrk' \in [Attempts -> Workers] /\ wrk'[a] = w
           /\ \A b \in Attempts \ {a} : wrk'[b] = wrk[b]
BY DEF TypeOK

\* The Turn's recording steps.
LEMMA RecorderType ==
    ASSUME TypeOK, NEW a \in Attempts,
           RecordStep(a) \/ RecordRequest(a) \/ StreamEvent(a) \/ RecordCompletion(a)
    PROVE  TypeOK'
<1>1. drv[a] \in Positions /\ drv[a].s \in Steps /\ drv[a].n \in Nat /\ drv[a].out \in Outcomes
  BY DEF TypeOK, Positions
<1>2. Len(ledger) + 1 \in Nat /\ reg[a][drv[a].s].req \in Nat /\ reg[a][drv[a].s].open \in Nat
  BY <1>1, LenProperties DEF TypeOK, Entries
<1>3. {"request", "publish", "ack", "TurnFailed"} \subseteq Places
  BY DEF Places, Terminals
<1>4. {"StepStarted", "ModelRequested", "ModelStreamEvent", "StepCompleted"} \subseteq EventKinds
      /\ "none" \in Outcomes
  BY DEF EventKinds, ModelFacts, Outcomes
<1>5. CASE RecordStep(a)
  <2>1. Recorded(a, "StepStarted", drv[a].s, 0, 0, "none") \in Events
    BY <1>1, <1>4, RecordedType
  <2>2. [drv[a] EXCEPT !.pc = "request"] \in Positions
    BY <1>1, <1>3 DEF Positions
  <2> QED
    BY <1>5, <2>1, <2>2, RecordType DEF RecordStep
<1>6. CASE RecordRequest(a)
  <2>1. Recorded(a, "ModelRequested", drv[a].s, 0, 0, "none") \in Events
    BY <1>1, <1>4, RecordedType
  <2>2. [drv[a] EXCEPT !.pc = "publish", !.req = Len(ledger) + 1] \in Positions
    BY <1>1, <1>2, <1>3 DEF Positions
  <2> QED
    BY <1>6, <2>1, <2>2, RecordType DEF RecordRequest
<1>7. CASE StreamEvent(a)
  <2>1. Recorded(a, "ModelStreamEvent", drv[a].s, 0, 0, "none") \in Events
    BY <1>1, <1>4, RecordedType
  <2>2. [drv[a] EXCEPT !.n = drv[a].n + 1] \in Positions
    BY <1>1, <1>2, <1>3 DEF Positions
  <2>3. Record(a, Recorded(a, "ModelStreamEvent", drv[a].s, 0, 0, "none"), [drv[a] EXCEPT !.n = drv[a].n + 1])
    BY <1>7 DEF StreamEvent
  <2> QED
    BY <1>7, <2>1, <2>2, <2>3, RecordType DEF StreamEvent
<1>8. CASE RecordCompletion(a)
  <2> DEFINE x == reg[a][drv[a].s]
  <2>1. Recorded(a, "StepCompleted", drv[a].s, x.req, x.open, drv[a].out) \in Events
    BY <1>1, <1>2, <1>4, RecordedType
  <2>2. [drv[a] EXCEPT !.pc = "ack", !.n = Len(ledger) + 1] \in Positions
    BY <1>1, <1>2, <1>3 DEF Positions
  <2>3. CASE x.st = "Consumed"
    BY <1>8, <2>1, <2>2, <2>3, RecordType DEF RecordCompletion
  <2>4. CASE x.st # "Consumed"
    <3>1. PICK d \in Positions : d = [drv[a] EXCEPT !.pc = "TurnFailed"]
      BY <1>1, <1>3 DEF Positions
    <3>2. drv' = [drv EXCEPT ![a] = d] /\ UNCHANGED <<ledger, facts, reg, wrk, cancelled, expired, rec, next, gen>>
      BY <1>8, <2>4, <3>1 DEF RecordCompletion
    <3> QED
      BY <3>2, MoveType DEF TypeOK
  <2> QED
    BY <2>3, <2>4
<1> QED
  BY <1>5, <1>6, <1>7, <1>8

\* The Turn's steps that write no event, except its last.
LEMMA TurnType ==
    ASSUME TypeOK, NEW a \in Attempts,
           \/ \E s \in Steps : FromAdmission(a, s)
           \/ RecordRequested(a) \/ Begin(a) \/ Prepare(a) \/ Generate(a) \/ Stop(a) \/ StreamEnd(a)
           \/ RecordCompleted(a)
    PROVE  TypeOK'
<1>1. drv[a] \in Positions /\ drv[a].s \in Steps /\ drv[a].n \in Nat /\ drv[a].out \in Outcomes /\ drv[a].req \in Nat
  BY DEF TypeOK, Positions
<1>2. {"step", "open", "prepare", "store", "stream", "complete"} \cup Terminals \subseteq Places
      /\ {"TurnFailed", "TurnCompleted", "TurnCancelled", "TurnTimedOut"} \subseteq Places
      /\ {"ToolCalls", "FinalAnswer"} \subseteq Outcomes /\ StopOf(a) \in Places
  BY DEF Places, Terminals, Outcomes, StopOf
<1>3. \A pc \in Places : [drv[a] EXCEPT !.pc = pc] \in Positions
  BY <1>1 DEF Positions
<1>4. {"none", "Requested", "Preparing", "Completed"} \subseteq Stages
  BY DEF Stages
<1>5. ASSUME NEW s \in Steps, FromAdmission(a, s)
      PROVE  TypeOK'
  <2>1. PICK d \in Positions : d = [drv[a] EXCEPT !.pc = "step", !.s = s]
    BY <1>1, <1>2 DEF Positions
  <2>2. drv' = [drv EXCEPT ![a] = d] /\ UNCHANGED <<ledger, facts, reg, wrk, cancelled, expired, rec, next, gen>>
    BY <1>5, <2>1 DEF FromAdmission
  <2> QED
    BY <2>2, MoveType DEF TypeOK
<1>6. CASE RecordRequested(a)
  <2>1. CASE MayPublish(a)
    <3>1. PICK d \in Positions : d = [drv[a] EXCEPT !.pc = "open"]
      BY <1>2, <1>3
    <3>2. PICK x \in Entries : x = [st |-> "Requested", req |-> drv[a].req, open |-> 0]
      BY <1>1, <1>4 DEF Entries
    <3>3. drv' = [drv EXCEPT ![a] = d] /\ reg' = [reg EXCEPT ![a][drv[a].s] = x]
          /\ UNCHANGED <<ledger, facts, wrk, cancelled, expired, rec, next, gen>>
      BY <1>6, <2>1, <3>1, <3>2 DEF RecordRequested
    <3>4. reg' \in [Attempts -> [Steps -> Entries]]
      BY <1>1, <3>3, RegType
    <3> QED
      BY <3>3, <3>4, MoveType DEF TypeOK
  <2>2. CASE ~MayPublish(a)
    <3>1. PICK d \in Positions : d = [drv[a] EXCEPT !.pc = "TurnFailed"]
      BY <1>2, <1>3
    <3>2. drv' = [drv EXCEPT ![a] = d] /\ UNCHANGED <<ledger, facts, reg, wrk, cancelled, expired, rec, next, gen>>
      BY <1>6, <2>2, <3>1 DEF RecordRequested
    <3> QED
      BY <3>2, MoveType DEF TypeOK
  <2> QED
    BY <2>1, <2>2
<1>7. CASE Begin(a)
  <2>1. CASE ~Live(a)
    <3>1. PICK d \in Positions : d = [drv[a] EXCEPT !.pc = StopOf(a)]
      BY <1>2, <1>3
    <3>2. drv' = [drv EXCEPT ![a] = d] /\ UNCHANGED <<ledger, facts, reg, wrk, cancelled, expired, rec, next, gen>>
      BY <1>7, <2>1, <3>1 DEF Begin
    <3> QED
      BY <3>2, MoveType DEF TypeOK
  <2>2. CASE Live(a)
    <3>1. PICK d \in Positions : d = [drv[a] EXCEPT !.pc = "prepare"]
      BY <1>2, <1>3
    <3>2. PICK x \in Entries : x = [reg[a][drv[a].s] EXCEPT !.st = "Preparing"]
      BY <1>1, <1>4, EntryType
    <3>3. drv' = [drv EXCEPT ![a] = d] /\ reg' = [reg EXCEPT ![a][drv[a].s] = x]
          /\ UNCHANGED <<ledger, facts, wrk, cancelled, expired, rec, next, gen>>
      BY <1>7, <2>2, <3>1, <3>2 DEF Begin
    <3>4. reg' \in [Attempts -> [Steps -> Entries]]
      BY <1>1, <3>3, RegType
    <3> QED
      BY <3>3, <3>4, MoveType DEF TypeOK
  <2> QED
    BY <2>1, <2>2
<1>8. CASE Prepare(a)
  <2>1. CASE drv' = [drv EXCEPT ![a].pc = "TurnFailed"] /\ UNCHANGED wrk
    <3>1. PICK d \in Positions : d = [drv[a] EXCEPT !.pc = "TurnFailed"]
      BY <1>2, <1>3
    <3>2. drv' = [drv EXCEPT ![a] = d] /\ UNCHANGED <<ledger, facts, reg, wrk, cancelled, expired, rec, next, gen>>
      BY <1>8, <2>1, <3>1 DEF Prepare
    <3> QED
      BY <3>2, MoveType DEF TypeOK
  <2>2. CASE drv' = [drv EXCEPT ![a].pc = "store"] /\ wrk' = [wrk EXCEPT ![a].pc = "inspect"]
    <3>1. PICK d \in Positions : d = [drv[a] EXCEPT !.pc = "store"]
      BY <1>2, <1>3
    <3>2. PICK w \in Workers : w = [wrk[a] EXCEPT !.pc = "inspect"]
      BY DEF TypeOK, Workers
    <3>3. drv' = [drv EXCEPT ![a] = d] /\ wrk' = [wrk EXCEPT ![a] = w]
          /\ UNCHANGED <<ledger, facts, reg, cancelled, expired, rec, next, gen>>
      BY <1>8, <2>2, <3>1, <3>2 DEF Prepare
    <3>4. wrk' \in [Attempts -> Workers]
      BY <3>3, WorkerType
    <3> QED
      BY <3>3, <3>4, MoveType DEF TypeOK
  <2> QED
    BY <1>8, <2>1, <2>2 DEF Prepare
<1>9. CASE Generate(a)
  <2>1. wrk' \in [Attempts -> Workers]
    BY <1>9, WorkerType DEF Generate, NoWorker, Workers
  <2>2. CASE wrk[a].pc = "done" /\ Live(a)
    <3>1. PICK d \in Positions : d = [drv[a] EXCEPT !.pc = "stream", !.n = 0]
      BY <1>1, <1>2 DEF Positions
    <3>2. drv' = [drv EXCEPT ![a] = d] /\ gen' = [gen EXCEPT ![drv[a].s] = gen[drv[a].s] + 1]
          /\ UNCHANGED <<ledger, facts, reg, cancelled, expired, rec, next>>
      BY <1>9, <2>2, <3>1 DEF Generate
    <3>3. gen' \in [Steps -> Nat]
      BY <1>1, <3>2 DEF TypeOK
    <3> QED
      BY <2>1, <3>2, <3>3, MoveType DEF TypeOK
  <2>3. CASE ~(wrk[a].pc = "done" /\ Live(a))
    <3>1. PICK d \in Positions : d = [drv[a] EXCEPT !.pc = "TurnFailed"]
      BY <1>2, <1>3
    <3>2. drv' = [drv EXCEPT ![a] = d] /\ UNCHANGED <<ledger, facts, reg, cancelled, expired, rec, next, gen>>
      BY <1>9, <2>3, <3>1 DEF Generate
    <3> QED
      BY <2>1, <3>2, MoveType DEF TypeOK
  <2> QED
    BY <2>2, <2>3
<1>10. CASE Stop(a)
  <2>1. PICK d \in Positions : d = [drv[a] EXCEPT !.pc = StopOf(a)]
    BY <1>2, <1>3
  <2>2. drv' = [drv EXCEPT ![a] = d] /\ UNCHANGED <<ledger, facts, reg, wrk, cancelled, expired, rec, next, gen>>
    BY <1>10, <2>1 DEF Stop
  <2> QED
    BY <2>2, MoveType DEF TypeOK
<1>11. CASE StreamEnd(a)
  <2>1. ASSUME NEW out \in {"ToolCalls", "FinalAnswer"}, drv' = [drv EXCEPT ![a].pc = "complete", ![a].out = out]
        PROVE  TypeOK'
    <3>1. PICK d \in Positions : d = [drv[a] EXCEPT !.pc = "complete", !.out = out]
      BY <1>1, <1>2 DEF Positions
    <3>2. drv' = [drv EXCEPT ![a] = d] /\ UNCHANGED <<ledger, facts, reg, wrk, cancelled, expired, rec, next, gen>>
      BY <1>11, <2>1, <3>1 DEF StreamEnd
    <3> QED
      BY <3>2, MoveType DEF TypeOK
  <2>2. CASE drv' = [drv EXCEPT ![a].pc = "TurnFailed"]
    <3>1. PICK d \in Positions : d = [drv[a] EXCEPT !.pc = "TurnFailed"]
      BY <1>2, <1>3
    <3>2. drv' = [drv EXCEPT ![a] = d] /\ UNCHANGED <<ledger, facts, reg, wrk, cancelled, expired, rec, next, gen>>
      BY <1>11, <2>2, <3>1 DEF StreamEnd
    <3> QED
      BY <3>2, MoveType DEF TypeOK
  <2> QED
    BY <1>11, <2>1, <2>2 DEF StreamEnd
<1>12. CASE RecordCompleted(a)
  <2>1. \E d \in Positions : drv' = [drv EXCEPT ![a] = d]
    <3>1. PICK d \in Positions : d = [drv[a] EXCEPT !.pc = "TurnFailed"]
      BY <1>2, <1>3
    <3>2. PICK f \in Positions : f = [drv[a] EXCEPT !.pc = "TurnCompleted"]
      BY <1>2, <1>3
    <3>3. drv[a].s + 1 < MaxSteps => [Idle EXCEPT !.pc = "step", !.s = drv[a].s + 1] \in Positions
      BY <1>1, <1>2, StepsType DEF Idle, Positions, Outcomes
    <3>4. \/ drv' = [drv EXCEPT ![a] = d] \/ drv' = [drv EXCEPT ![a] = f]
          \/ /\ drv[a].s + 1 < MaxSteps
             /\ drv' = [drv EXCEPT ![a] = [Idle EXCEPT !.pc = "step", !.s = drv[a].s + 1]]
      BY <1>12, <3>1, <3>2 DEF RecordCompleted
    <3> QED
      BY <3>3, <3>4
  <2>2. reg' \in [Attempts -> [Steps -> Entries]]
    <3>1. PICK x \in Entries : x = [reg[a][drv[a].s] EXCEPT !.st = "Completed"]
      BY <1>1, <1>4, EntryType
    <3>2. reg' = reg \/ reg' = [reg EXCEPT ![a][drv[a].s] = x]
      BY <1>12, <3>1 DEF RecordCompleted
    <3> QED
      BY <1>1, <3>2, RegType DEF TypeOK
  <2> QED
    BY <1>12, <2>1, <2>2, MoveType DEF RecordCompleted, TypeOK
<1> QED
  BY <1>5, <1>6, <1>7, <1>8, <1>9, <1>10, <1>11, <1>12

\* The Turn's terminal event, a cancellation, a deadline and a crash.
LEMMA SurroundingType ==
    ASSUME TypeOK, NEW a \in Attempts, Finish(a) \/ Cancel(a) \/ Crash(a) \/ CancelExecution \/ Expire
    PROVE  TypeOK'
<1>1. Idle \in Positions /\ NoWorker \in Workers /\ NoEntry \in Entries
  BY StepsType DEF Idle, Positions, Places, Outcomes, NoWorker, Workers, NoEntry, Entries, Stages
<1>2. "done" \in Places /\ "dead" \in Places
  BY DEF Places
<1>3. CASE Finish(a)
  <2>1. drv[a].pc \in EventKinds /\ "none" \in Outcomes
    BY <1>3 DEF Finish, EventKinds, Outcomes
  <2>2. Recorded(a, drv[a].pc, 0, 0, 0, "none") \in Events
    BY <2>1, StepsType, RecordedType
  <2>3. ledger' \in Seq(Events)
    BY <1>3, <2>2, AppendEvent DEF Finish, TypeOK
  <2>4. PICK d \in Positions : d = [Idle EXCEPT !.pc = "done"]
    BY <1>1, <1>2 DEF Positions
  <2>5. drv' = [drv EXCEPT ![a] = d]
    BY <1>3, <2>4 DEF Finish
  <2>6. drv' \in [Attempts -> Positions]
    BY <2>5, PlaceType
  <2> QED
    BY <1>3, <2>3, <2>6 DEF Finish, TypeOK
<1>4. CASE Cancel(a)
  BY <1>4 DEF Cancel, TypeOK
<1>5. CASE Crash(a)
  <2>1. PICK d \in Positions : d = [Idle EXCEPT !.pc = "dead"]
    BY <1>1, <1>2 DEF Positions
  <2>2. drv' = [drv EXCEPT ![a] = d] /\ reg' = [reg EXCEPT ![a] = [s \in Steps |-> NoEntry]]
        /\ wrk' = [wrk EXCEPT ![a] = NoWorker]
        /\ UNCHANGED <<ledger, facts, cancelled, expired, rec, next, gen>>
    BY <1>5, <2>1 DEF Crash
  <2>3. wrk' \in [Attempts -> Workers]
    BY <1>1, <2>2, WorkerType
  <2>4. reg' \in [Attempts -> [Steps -> Entries]]
    BY <1>1, <2>2 DEF TypeOK
  <2> QED
    BY <2>2, <2>3, <2>4, MoveType DEF TypeOK
<1>6. CASE CancelExecution
  <2>1. Plain("ExecutionCancelled") \in Events
    BY PlainType DEF EventKinds
  <2>2. ledger' \in Seq(Events)
    BY <1>6, <2>1, AppendEvent DEF CancelExecution, TypeOK
  <2> QED
    BY <1>6, <2>2 DEF CancelExecution, TypeOK
<1>7. CASE Expire
  BY <1>7 DEF Expire, TypeOK
<1> QED
  BY <1>3, <1>4, <1>5, <1>6, <1>7

\* The opening's event.
LEMMA OpeningType ==
    ASSUME TypeOK, NEW a \in Attempts, NEW s \in Steps
    PROVE  LET e == Event("ModelOpeningAdmitted", <<"opening", s>>, s, Req(a, s), 0, "none")
           IN  e \in Events /\ e.kind = "ModelOpeningAdmitted" /\ e.step = s /\ e.id = <<"opening", s>>
<1>1. Req(a, s) \in Nat
  BY DEF TypeOK, Req, Entries
<1>2. <<"opening", s>> \in Authors \X Nat
  BY StepsType DEF Authors
<1>3. "ModelOpeningAdmitted" \in EventKinds /\ "none" \in Outcomes
  BY DEF EventKinds, ModelFacts, Outcomes
<1> QED
  BY <1>1, <1>2, <1>3, EventType

\* The storage worker's steps.
LEMMA WorkerStepType ==
    ASSUME TypeOK, NEW a \in Attempts, Worker(a)
    PROVE  TypeOK'
<1>1. \A pc \in {"fact", "append", "consume", "done", "err"} : [wrk[a] EXCEPT !.pc = pc] \in Workers
  BY DEF TypeOK, Workers
<1>2. {"Committing", "Admitted", "Consumed"} \subseteq Stages
  BY DEF Stages
<1>3. ASSUME NEW ok \in BOOLEAN, NEW to \in {"fact", "append", "consume", "done"}, WorkerTo(a, ok, to)
      PROVE  wrk' \in [Attempts -> Workers]
  <2>1. PICK w \in Workers : w = [wrk[a] EXCEPT !.pc = IF ok THEN to ELSE "err"]
    BY <1>1
  <2>2. wrk' = [wrk EXCEPT ![a] = w]
    BY <1>3, <2>1 DEF WorkerTo
  <2> QED
    BY <2>2, WorkerType
<1>4. ASSUME WorkerInspect(a)
      PROVE  TypeOK'
  <2>1. PICK s \in Steps : WorkerTo(a, Live(a) /\ Verified(Through(Req(a, s))), "fact")
    BY <1>4 DEF WorkerInspect
  <2>2. PICK ok \in BOOLEAN : ok <=> Live(a) /\ Verified(Through(Req(a, s)))
    OBVIOUS
  <2>3. WorkerTo(a, ok, "fact")
    BY <2>1, <2>2 DEF WorkerTo
  <2>4. wrk' \in [Attempts -> Workers]
    BY <1>3, <2>3
  <2> QED
    BY <1>4, <2>4 DEF WorkerInspect, TypeOK
<1>5. ASSUME WorkerFact(a)
      PROVE  TypeOK'
  <2>1. PICK s \in Steps : LET ok == Live(a) /\ facts[s] \in {0, Req(a, s)} IN
           /\ facts' = IF ok THEN [facts EXCEPT ![s] = Req(a, s)] ELSE facts
           /\ reg' = IF ok THEN [reg EXCEPT ![a][s].st = "Committing"] ELSE reg
           /\ WorkerTo(a, ok, "append")
    BY <1>5 DEF WorkerFact
  <2>2. PICK ok \in BOOLEAN : ok <=> Live(a) /\ facts[s] \in {0, Req(a, s)}
    OBVIOUS
  <2>3. WorkerTo(a, ok, "append")
    BY <2>1, <2>2 DEF WorkerTo
  <2>4. wrk' \in [Attempts -> Workers]
    BY <1>3, <2>3
  <2>5. PICK x \in Entries : x = [reg[a][s] EXCEPT !.st = "Committing"]
    BY <1>2, EntryType
  <2>6. reg' = reg \/ reg' = [reg EXCEPT ![a][s] = x]
    BY <2>1, <2>5
  <2>7. reg' \in [Attempts -> [Steps -> Entries]]
    BY <2>6, RegType DEF TypeOK
  <2>8. facts' \in [Steps -> Nat]
    BY <2>1 DEF TypeOK, Req, Entries
  <2> QED
    BY <1>5, <2>4, <2>7, <2>8 DEF WorkerFact, TypeOK
<1>6. ASSUME WorkerAppend(a)
      PROVE  TypeOK'
  <2>1. PICK s \in Steps :
           /\ \/ ledger' = ledger
              \/ ledger' = Append(ledger, Event("ModelOpeningAdmitted", <<"opening", s>>, s, Req(a, s), 0, "none"))
           /\ \/ wrk' = [wrk EXCEPT ![a] = [pc |-> "verify", open |-> Len(ledger) + 1]]
              \/ wrk' = [wrk EXCEPT ![a] = [pc |-> "err", open |-> 0]]
           /\ UNCHANGED <<facts, reg, drv, cancelled, expired, rec, next, gen>>
    BY <1>6 DEF WorkerAppend
  <2>2. ledger' \in Seq(Events)
    <3>1. PICK e \in Events : e = Event("ModelOpeningAdmitted", <<"opening", s>>, s, Req(a, s), 0, "none")
      BY OpeningType
    <3>2. Append(ledger, e) \in Seq(Events)
      BY AppendEvent DEF TypeOK
    <3> QED
      BY <2>1, <3>1, <3>2 DEF TypeOK
  <2>3. [pc |-> "verify", open |-> Len(ledger) + 1] \in Workers /\ [pc |-> "err", open |-> 0] \in Workers
    BY LenProperties DEF Workers, TypeOK
  <2>4. wrk' \in [Attempts -> Workers]
    BY <2>1, <2>3, WorkerType
  <2> QED
    BY <2>1, <2>2, <2>4 DEF TypeOK
<1>7. ASSUME WorkerAdmit(a)
      PROVE  TypeOK'
  <2>1. PICK s \in Steps : LET ok == Verified(Through(wrk[a].open)) IN
           /\ reg' = IF ok THEN [reg EXCEPT ![a][s] = [reg[a][s] EXCEPT !.st = "Admitted", !.open = wrk[a].open]] ELSE reg
           /\ WorkerTo(a, ok, "consume")
    BY <1>7 DEF WorkerAdmit
  <2>2. PICK ok \in BOOLEAN : ok <=> Verified(Through(wrk[a].open))
    OBVIOUS
  <2>3. WorkerTo(a, ok, "consume")
    BY <2>1, <2>2 DEF WorkerTo
  <2>4. wrk' \in [Attempts -> Workers]
    BY <1>3, <2>3
  <2>5. wrk[a].open \in Nat
    BY DEF TypeOK, Workers
  <2>6. PICK x \in Entries : x = [reg[a][s] EXCEPT !.st = "Admitted", !.open = wrk[a].open]
    BY <1>2, <2>5, EntryType
  <2>7. reg' = reg \/ reg' = [reg EXCEPT ![a][s] = x]
    BY <2>1, <2>6
  <2>8. reg' \in [Attempts -> [Steps -> Entries]]
    BY <2>7, RegType DEF TypeOK
  <2> QED
    BY <1>7, <2>4, <2>8 DEF WorkerAdmit, TypeOK
<1>8. ASSUME WorkerConsume(a)
      PROVE  TypeOK'
  <2>1. PICK s \in Steps, ok \in BOOLEAN :
           /\ reg' = IF ok THEN [reg EXCEPT ![a][s].st = "Consumed"] ELSE reg
           /\ WorkerTo(a, ok, "done")
    <3>1. PICK s \in Steps :
             LET ok == /\ Live(a) /\ Len(ledger) <= MaxEvents
                       /\ Kinds(ledger, Terminals \cup {"ExecutionCancelled"}, 0, Len(ledger) + 1) = {}
             IN /\ reg' = IF ok THEN [reg EXCEPT ![a][s].st = "Consumed"] ELSE reg
                /\ wrk' = [wrk EXCEPT ![a].pc = IF ok THEN "done" ELSE "err"]
      BY <1>8 DEF WorkerConsume, WorkerTo
    <3> QED
      BY <3>1 DEF WorkerTo
  <2>2. wrk' \in [Attempts -> Workers]
    BY <1>3, <2>1
  <2>3. PICK x \in Entries : x = [reg[a][s] EXCEPT !.st = "Consumed"]
    BY <1>2, EntryType
  <2>4. reg' = reg \/ reg' = [reg EXCEPT ![a][s] = x]
    BY <2>1, <2>3
  <2>5. reg' \in [Attempts -> [Steps -> Entries]]
    BY <2>4, RegType DEF TypeOK
  <2> QED
    BY <1>8, <2>2, <2>5 DEF WorkerConsume, TypeOK
<1> QED
  BY <1>4, <1>5, <1>6, <1>7, <1>8 DEF Worker

\* Every step keeps the types.
LEMMA NextType == TypeOK /\ [Next]_vars => TypeOK'
<1>1. CASE TypeOK /\ UNCHANGED vars
  BY <1>1 DEF TypeOK, vars
<1>2. CASE TypeOK /\ Next
  <2>1. CASE \E a \in Attempts : Finish(a) \/ Cancel(a) \/ Crash(a)
    BY <1>2, <2>1, SurroundingType
  <2>2. CASE CancelExecution \/ Expire
    <3>1. 1 \in Attempts
      BY OpeningAssumption DEF Attempts
    <3> QED
      BY <1>2, <2>2, <3>1, SurroundingType
  <2>3. CASE \E a \in Attempts : RecordStep(a) \/ RecordRequest(a) \/ StreamEvent(a) \/ RecordCompletion(a)
    BY <1>2, <2>3, RecorderType
  <2>4. CASE \E a \in Attempts :
                 \/ \E s \in Steps : FromAdmission(a, s)
                 \/ RecordRequested(a) \/ Begin(a) \/ Prepare(a) \/ Generate(a) \/ Stop(a) \/ StreamEnd(a)
                 \/ RecordCompleted(a)
    BY <1>2, <2>4, TurnType
  <2>5. CASE \E a \in Attempts : Worker(a)
    BY <1>2, <2>5, WorkerStepType
  <2> QED
    BY <1>2, <2>1, <2>2, <2>3, <2>4, <2>5 DEF Next, Turn
<1> QED
  BY <1>1, <1>2

\* Every attempt, worker, registry and stored event stays well formed.
THEOREM TypeCorrect == Spec => []TypeOK
<1>1. Init => TypeOK
  BY InitType
<1>2. TypeOK /\ [Next]_vars => TypeOK'
  BY NextType
<1> QED
  BY <1>1, <1>2, PTL DEF Spec

----------------------------------------------------------------------------
\* One permit per Step: steps that admit no opening.

\* The ledger gains no opening.
Quiet == ledger' = ledger \/ \E e \in Events : e.kind # "ModelOpeningAdmitted" /\ ledger' = Append(ledger, e)

\* A step that admits no opening leaves every Step's openings as they are.
LEMMA QuietOpenings ==
    ASSUME TypeOK, Quiet
    PROVE  /\ LedgerGrows /\ \A s \in Steps : Openings(s)' = Openings(s)
           /\ OpeningsUnique => OpeningsUnique'
<1>1. LedgerGrows
  BY DEF Quiet, LedgerGrows
<1>2. ledger \in Seq(Events) /\ Len(ledger) \in Nat
  BY LenProperties DEF TypeOK
<1>3. \A i \in 1..Len(ledger') : ledger'[i].kind = "ModelOpeningAdmitted" => i \in 1..Len(ledger) /\ ledger'[i] = ledger[i]
  <2>1. ASSUME NEW e \in Events, e.kind # "ModelOpeningAdmitted", ledger' = Append(ledger, e)
        PROVE  \A i \in 1..Len(ledger') : ledger'[i].kind = "ModelOpeningAdmitted" => i \in 1..Len(ledger) /\ ledger'[i] = ledger[i]
    <3>1. /\ Len(ledger') = Len(ledger) + 1 /\ ledger'[Len(ledger) + 1] = e
          /\ \A i \in 1..Len(ledger) : ledger'[i] = ledger[i]
      BY <1>2, <2>1, AppendEvent
    <3> QED
      BY <1>2, <2>1, <3>1
  <2> QED
    BY <2>1 DEF Quiet
<1>4. \A i \in 1..Len(ledger) : i \in 1..Len(ledger') /\ ledger'[i] = ledger[i]
  BY <1>1, GrowsType
<1>5. \A s \in Steps : Openings(s)' = Openings(s)
  BY <1>3, <1>4 DEF Openings
<1>6. OpeningsUnique => OpeningsUnique'
  BY <1>3, <1>5 DEF OpeningsUnique
<1> QED
  BY <1>1, <1>5, <1>6

\* The attempts that do not move stay orderly and hold what they held.
LEMMA OthersStay ==
    ASSUME TypeOK, NEW a \in Attempts, Alone(a), NEW b \in Attempts \ {a}
    PROVE  /\ Orderly(b) => Orderly(b)'
           /\ \A s \in Steps : Holder(b, s)' <=> Holder(b, s)
BY DEF Alone, Orderly, Busy, Holder

\* A permit not touched stays backed, as long as the Step did not generate.
LEMMA PermitStays ==
    ASSUME TypeOK, NEW a \in Attempts, NEW s \in Steps, Permit(a, s), LedgerGrows, FactsKept,
           wrk'[a] = wrk[a], reg'[a][s] = reg[a][s], gen'[s] = gen[s]
    PROVE  Permit(a, s)'
<1> SUFFICES ASSUME Holder(a, s)'
             PROVE  /\ gen'[s] = 0
                    /\ wrk'[a].pc = "verify" => wrk'[a].open \in Openings(s)'
                    /\ wrk'[a].pc \in {"consume", "done"} =>
                          reg'[a][s].open \in Openings(s)' /\ Verified(Through(reg[a][s].open))'
  BY DEF Permit
<1>1. Holder(a, s)
  BY DEF Holder, Busy
<1>2. gen'[s] = 0 /\ (wrk'[a].pc = "verify" => wrk'[a].open \in Openings(s)')
  BY <1>1, OpeningsGrow DEF Permit
<1>3. CASE wrk[a].pc \in {"consume", "done"}
  <2>1. PICK i \in 1..Len(ledger) : i = reg[a][s].open /\ i \in Openings(s) /\ Verified(Through(i))
    BY <1>1, <1>3, OpeningsGrow DEF Permit
  <2>2. Verified(Through(i))' /\ i \in Openings(s)' /\ i = reg'[a][s].open
    BY <2>1, VerifiedStays, OpeningsGrow
  <2> QED
    BY <1>2, <2>2
<1> QED
  BY <1>2, <1>3

\* A verified opening stays one.
LEMMA OpenedStays ==
    ASSUME TypeOK, LedgerGrows, FactsKept, NEW s \in Steps, \E i \in Openings(s) : Verified(Through(i))
    PROVE  (\E i \in Openings(s) : Verified(Through(i)))'
<1>1. PICK i \in Openings(s) : Verified(Through(i))
  OBVIOUS
<1>2. i \in 1..Len(ledger) /\ i \in Openings(s)'
  BY OpeningsGrow
<1>3. Verified(Through(i))'
  BY <1>1, <1>2, VerifiedStays
<1> QED
  BY <1>2, <1>3

\* A step that neither opens nor generates keeps the invariant, when the attempt that
\* moves stays orderly and gains no permit.
LEMMA OneShotStep ==
    ASSUME TypeOK, OneShot, NEW a \in Attempts, Alone(a), Quiet, FactsKept, gen' = gen,
           Orderly(a)', \A s \in Steps : Permit(a, s)' /\ (Holder(a, s)' => Holder(a, s))
    PROVE  OneShot'
<1>1. LedgerGrows /\ OpeningsUnique'
  BY QuietOpenings DEF OneShot
<1>2. \A b \in Attempts : Orderly(b)'
  BY OthersStay DEF OneShot
<1>3. ASSUME NEW b \in Attempts, NEW s \in Steps
      PROVE  Permit(b, s)'
  <2>1. CASE b = a
    BY <2>1
  <2>2. CASE b # a
    <3>1. Permit(b, s) /\ wrk'[b] = wrk[b] /\ reg'[b][s] = reg[b][s] /\ gen'[s] = gen[s]
      BY <2>2 DEF OneShot, Alone
    <3> QED
      BY <1>1, <3>1, PermitStays
  <2> QED
    BY <2>1, <2>2
<1>4. \A b \in Attempts, s \in Steps : Holder(b, s)' => Holder(b, s)
  BY OthersStay
<1>5. \A b, c \in Attempts, s \in Steps : Holder(b, s)' /\ Holder(c, s)' => b = c
  BY <1>4 DEF OneShot
<1>6. \A s \in Steps : gen'[s] > 0 => gen'[s] = 1 /\ (\E i \in Openings(s) : Verified(Through(i)))'
  BY <1>1, OpenedStays DEF OneShot
<1> QED
  BY <1>1, <1>2, <1>3, <1>5, <1>6 DEF OneShot

\* Moving the Turn of one attempt keeps the invariant, when it takes up no Step and
\* leaves none behind.
LEMMA MoveOneShot ==
    ASSUME TypeOK, OneShot, NEW a \in Attempts, NEW d \in Positions,
           drv'[a] = d, \A b \in Attempts \ {a} : drv'[b] = drv[b], Quiet, UNCHANGED <<facts, reg, wrk, gen>>,
           d.pc \in Owning => drv[a].pc \in Owning /\ d.s = drv[a].s,
           d.pc = "prepare" => drv[a].pc = "prepare",
           drv[a].pc \in {"store"} \cup Settled => d.pc \in {"store"} \cup Settled,
           drv[a].pc \in Owning \cup Settled => d.pc \in Owning \cup Settled
    PROVE  OneShot'
<1>1. Alone(a) /\ FactsKept
  BY DEF Alone, FactsKept
<1>2. Orderly(a)
  BY DEF OneShot
<1>3. Orderly(a)'
  BY <1>2 DEF Orderly, Busy, Owning
<1>4. \A s \in Steps : Permit(a, s)'
  BY <1>1, QuietOpenings, PermitStays DEF OneShot
<1>5. \A s \in Steps : Holder(a, s)' => Holder(a, s)
  BY DEF Holder, Busy
<1> QED
  BY <1>1, <1>3, <1>4, <1>5, OneShotStep

\* Recording an event that is no opening.
LEMMA RecordOneShot ==
    ASSUME TypeOK, OneShot, NEW a \in Attempts, NEW e \in Events, NEW to \in Positions, Record(a, e, to),
           e.kind # "ModelOpeningAdmitted", UNCHANGED <<facts, reg, wrk, gen>>,
           drv[a].pc \notin {"store"} \cup Settled, to.pc # "prepare",
           to.pc \in Owning => drv[a].pc \in Owning /\ to.s = drv[a].s,
           drv[a].pc \in Owning => to.pc \in Owning \cup Settled
    PROVE  OneShot'
<1>1. /\ \A b \in Attempts \ {a} : drv'[b] = drv[b]
      /\ \/ drv'[a] = [drv[a] EXCEPT !.pc = "TurnFailed"] /\ ledger' = ledger
         \/ drv'[a] = to /\ ledger' = Append(ledger, e)
  BY RecordStepType
<1>2. CASE drv'[a] = to /\ ledger' = Append(ledger, e)
  <2>1. Quiet
    BY <1>2 DEF Quiet
  <2> QED
    BY <1>1, <1>2, <2>1, MoveOneShot
<1>3. CASE drv'[a] = [drv[a] EXCEPT !.pc = "TurnFailed"] /\ ledger' = ledger
  <2>1. PICK d \in Positions : d = [drv[a] EXCEPT !.pc = "TurnFailed"] /\ d.pc = "TurnFailed"
    <3>1. [drv[a] EXCEPT !.pc = "TurnFailed"] \in Positions /\ [drv[a] EXCEPT !.pc = "TurnFailed"].pc = "TurnFailed"
      BY DEF TypeOK, Positions, Places, Terminals
    <3> QED
      BY <3>1
  <2>2. Quiet /\ drv'[a] = d
    BY <1>3, <2>1 DEF Quiet
  <2>3. d.pc \in Settled /\ d.pc \notin Owning
    BY <2>1 DEF Settled, Owning, Terminals
  <2>4. d.pc # "prepare"
    BY <2>1
  <2> QED
    BY <1>1, <2>2, <2>3, <2>4, MoveOneShot
<1> QED
  BY <1>1, <1>2, <1>3

\* A Turn that ends, or never began, moves alone.
LEMMA EndOneShot ==
    ASSUME TypeOK, OneShot, NEW a \in Attempts, NEW d \in Positions,
           drv' = [drv EXCEPT ![a] = d], Quiet, UNCHANGED <<facts, reg, wrk, gen>>, d.pc \in Settled
    PROVE  OneShot'
<1>1. d.pc \notin Owning /\ d.pc # "prepare"
  BY DEF Settled, Owning, Terminals
<1>2. drv'[a] = d /\ \A b \in Attempts \ {a} : drv'[b] = drv[b]
  BY PlaceType
<1> QED
  BY <1>1, <1>2, MoveOneShot

\* The recording steps.
LEMMA RecorderOneShot ==
    ASSUME TypeOK, OneShot, NEW a \in Attempts,
           RecordStep(a) \/ RecordRequest(a) \/ StreamEvent(a) \/ RecordCompletion(a)
    PROVE  OneShot'
<1>1. drv[a] \in Positions /\ drv[a].s \in Steps /\ drv[a].n \in Nat /\ drv[a].out \in Outcomes
  BY DEF TypeOK, Positions
<1>2. Len(ledger) + 1 \in Nat /\ reg[a][drv[a].s].req \in Nat /\ reg[a][drv[a].s].open \in Nat
  BY <1>1, LenProperties DEF TypeOK, Entries
<1>3. {"request", "publish", "ack", "TurnFailed"} \subseteq Places
  BY DEF Places, Terminals
<1>4. {"StepStarted", "ModelRequested", "ModelStreamEvent", "StepCompleted"} \subseteq EventKinds
      /\ "none" \in Outcomes
  BY DEF EventKinds, ModelFacts, Outcomes
<1>5. CASE RecordStep(a)
  <2>1. PICK e \in Events : e = Recorded(a, "StepStarted", drv[a].s, 0, 0, "none") /\ e.kind = "StepStarted"
    <3>1. Recorded(a, "StepStarted", drv[a].s, 0, 0, "none") \in Events /\ (Recorded(a, "StepStarted", drv[a].s, 0, 0, "none")).kind = "StepStarted"
      <4>1. 0 \in Nat /\ "StepStarted" \in EventKinds /\ "none" \in Outcomes /\ drv[a].s \in Steps
        BY <1>1, <1>4
      <4> QED
        BY <4>1, RecordedType
    <3> QED
      BY <3>1
  <2>2. PICK to \in Positions : to = [drv[a] EXCEPT !.pc = "request"] /\ to.pc = "request"
    <3>1. [drv[a] EXCEPT !.pc = "request"] \in Positions /\ [drv[a] EXCEPT !.pc = "request"].pc = "request"
      BY <1>1, <1>3 DEF Positions
    <3> QED
      BY <3>1
  <2>3. Record(a, e, to) /\ drv[a].pc = "step" /\ UNCHANGED <<facts, reg, wrk, gen>>
    BY <1>5, <2>1, <2>2 DEF RecordStep
  <2>4. /\ drv[a].pc \notin {"store"} \cup Settled /\ drv[a].pc \notin Owning /\ to.pc \notin Owning
        /\ to.pc # "prepare"
    BY <2>2, <2>3 DEF Settled, Owning, Terminals
  <2> QED
    BY <2>1, <2>3, <2>4, RecordOneShot
<1>6. CASE RecordRequest(a)
  <2>1. PICK e \in Events : e = Recorded(a, "ModelRequested", drv[a].s, 0, 0, "none") /\ e.kind = "ModelRequested"
    <3>1. Recorded(a, "ModelRequested", drv[a].s, 0, 0, "none") \in Events /\ (Recorded(a, "ModelRequested", drv[a].s, 0, 0, "none")).kind = "ModelRequested"
      <4>1. 0 \in Nat /\ "ModelRequested" \in EventKinds /\ "none" \in Outcomes /\ drv[a].s \in Steps
        BY <1>1, <1>4
      <4> QED
        BY <4>1, RecordedType
    <3> QED
      BY <3>1
  <2>2. PICK to \in Positions : to = [drv[a] EXCEPT !.pc = "publish", !.req = Len(ledger) + 1] /\ to.pc = "publish"
    <3>1. [drv[a] EXCEPT !.pc = "publish", !.req = Len(ledger) + 1] \in Positions /\ [drv[a] EXCEPT !.pc = "publish", !.req = Len(ledger) + 1].pc = "publish"
      BY <1>1, <1>2, <1>3 DEF Positions
    <3> QED
      BY <3>1
  <2>3. Record(a, e, to) /\ drv[a].pc = "request" /\ UNCHANGED <<facts, reg, wrk, gen>>
    BY <1>6, <2>1, <2>2 DEF RecordRequest
  <2>4. /\ drv[a].pc \notin {"store"} \cup Settled /\ drv[a].pc \notin Owning /\ to.pc \notin Owning
        /\ to.pc # "prepare"
    BY <2>2, <2>3 DEF Settled, Owning, Terminals
  <2> QED
    BY <2>1, <2>3, <2>4, RecordOneShot
<1>7. CASE StreamEvent(a)
  <2>1. PICK e \in Events : e = Recorded(a, "ModelStreamEvent", drv[a].s, 0, 0, "none") /\ e.kind = "ModelStreamEvent"
    BY <1>1, <1>4, RecordedType
  <2>2. PICK to \in Positions : to = [drv[a] EXCEPT !.n = drv[a].n + 1] /\ to.pc = drv[a].pc /\ to.s = drv[a].s
    <3>1. [drv[a] EXCEPT !.n = drv[a].n + 1] \in Positions /\ [drv[a] EXCEPT !.n = drv[a].n + 1].pc = drv[a].pc /\ [drv[a] EXCEPT !.n = drv[a].n + 1].s = drv[a].s
      BY <1>1, <1>2, <1>3 DEF Positions
    <3> QED
      BY <3>1
  <2>3. Record(a, e, to) /\ drv[a].pc = "stream" /\ UNCHANGED <<facts, reg, wrk, gen>>
    BY <1>7, <2>1, <2>2 DEF StreamEvent
  <2>4. /\ drv[a].pc \notin {"store"} \cup Settled /\ drv[a].pc \in Owning /\ to.pc \in Owning
        /\ to.pc # "prepare"
    BY <2>2, <2>3 DEF Settled, Owning, Terminals
  <2> QED
    BY <2>1, <2>2, <2>3, <2>4, RecordOneShot
<1>8. CASE RecordCompletion(a)
  <2> DEFINE x == reg[a][drv[a].s]
  <2>1. CASE x.st = "Consumed"
    <3>1. PICK e \in Events : e = Recorded(a, "StepCompleted", drv[a].s, x.req, x.open, drv[a].out) /\ e.kind = "StepCompleted"
      <4>1. PICK r \in Nat, o \in Nat : r = x.req /\ o = x.open
        BY <1>2
      <4>2. /\ Recorded(a, "StepCompleted", drv[a].s, r, o, drv[a].out) \in Events
            /\ Recorded(a, "StepCompleted", drv[a].s, r, o, drv[a].out).kind = "StepCompleted"
        BY <1>1, <1>4, RecordedType
      <4> QED
        BY <4>1, <4>2
    <3>2. PICK to \in Positions : to = [drv[a] EXCEPT !.pc = "ack", !.n = Len(ledger) + 1] /\ to.pc = "ack" /\ to.s = drv[a].s
      <4>1. [drv[a] EXCEPT !.pc = "ack", !.n = Len(ledger) + 1] \in Positions /\ [drv[a] EXCEPT !.pc = "ack", !.n = Len(ledger) + 1].pc = "ack" /\ [drv[a] EXCEPT !.pc = "ack", !.n = Len(ledger) + 1].s = drv[a].s
        BY <1>1, <1>2, <1>3 DEF Positions
      <4> QED
        BY <4>1
    <3>3. Record(a, e, to) /\ drv[a].pc = "complete" /\ UNCHANGED <<facts, reg, wrk, gen>>
      BY <1>8, <2>1, <3>1, <3>2 DEF RecordCompletion
    <3>4. /\ drv[a].pc \notin {"store"} \cup Settled /\ drv[a].pc \in Owning /\ to.pc \in Owning
          /\ to.pc # "prepare"
      BY <3>2, <3>3 DEF Settled, Owning, Terminals
    <3> QED
      BY <3>1, <3>2, <3>3, <3>4, RecordOneShot
  <2>2. CASE x.st # "Consumed"
    <3>1. PICK d \in Positions : d = [drv[a] EXCEPT !.pc = "TurnFailed"] /\ d.pc = "TurnFailed"
      <4>1. [drv[a] EXCEPT !.pc = "TurnFailed"] \in Positions /\ [drv[a] EXCEPT !.pc = "TurnFailed"].pc = "TurnFailed"
        BY <1>1, <1>3 DEF Positions
      <4> QED
        BY <4>1
    <3>2. drv' = [drv EXCEPT ![a] = d] /\ UNCHANGED <<facts, reg, wrk, gen>> /\ Quiet
      BY <1>8, <2>2, <3>1 DEF RecordCompletion, Quiet
    <3> QED
      BY <3>1, <3>2, EndOneShot DEF Settled, Terminals
  <2> QED
    BY <2>1, <2>2
<1> QED
  BY <1>5, <1>6, <1>7, <1>8

\* The Turn gives up: preparation refused, a stop, a provider error, a refused record.
LEMMA FailOneShot ==
    ASSUME TypeOK, OneShot, NEW a \in Attempts, NEW pc \in Terminals,
           drv' = [drv EXCEPT ![a].pc = pc], UNCHANGED <<ledger, facts, reg, wrk, gen>>
    PROVE  OneShot'
<1>1. PICK d \in Positions : d = [drv[a] EXCEPT !.pc = pc] /\ d.pc = pc
  <2>1. [drv[a] EXCEPT !.pc = pc] \in Positions /\ [drv[a] EXCEPT !.pc = pc].pc = pc
    BY DEF TypeOK, Positions, Places
  <2> QED
    BY <2>1
<1>2. drv' = [drv EXCEPT ![a] = d] /\ Quiet
  BY <1>1 DEF Quiet
<1> QED
  BY <1>1, <1>2, EndOneShot DEF Settled

\* The last event, a cancellation and the deadline.
LEMMA SurroundingOneShot ==
    ASSUME TypeOK, OneShot, NEW a \in Attempts, Finish(a) \/ Cancel(a) \/ CancelExecution \/ Expire
    PROVE  OneShot'
<1>1. drv[a] \in Positions
  BY DEF TypeOK
<1>2. CASE Finish(a)
  <2>1. drv[a].pc \in EventKinds /\ "none" \in Outcomes
    BY <1>2 DEF Finish, EventKinds, Outcomes
  <2>2. /\ Recorded(a, drv[a].pc, 0, 0, 0, "none") \in Events
        /\ Recorded(a, drv[a].pc, 0, 0, 0, "none").kind = drv[a].pc
    BY <2>1, StepsType, RecordedType
  <2>3. Quiet
    BY <1>2, <2>2 DEF Finish, Quiet, Terminals
  <2>4. PICK d \in Positions : d = [Idle EXCEPT !.pc = "done"] /\ d.pc = "done"
    <3>1. [Idle EXCEPT !.pc = "done"] \in Positions /\ [Idle EXCEPT !.pc = "done"].pc = "done"
      BY StepsType DEF Idle, Positions, Places, Outcomes
    <3> QED
      BY <3>1
  <2>5. drv' = [drv EXCEPT ![a] = d] /\ UNCHANGED <<facts, reg, wrk, gen>>
    BY <1>2, <2>4 DEF Finish
  <2> QED
    BY <2>3, <2>4, <2>5, EndOneShot DEF Settled
<1>3. CASE Cancel(a) \/ CancelExecution \/ Expire
  <2>1. Plain("ExecutionCancelled") \in Events /\ Plain("ExecutionCancelled").kind # "ModelOpeningAdmitted"
    BY PlainType DEF EventKinds
  <2>2. Quiet /\ UNCHANGED <<facts, reg, wrk, gen, drv>>
    BY <1>3, <2>1 DEF Cancel, CancelExecution, Expire, Quiet
  <2> QED
    BY <1>1, <2>2, MoveOneShot
<1> QED
  BY <1>2, <1>3

\* A step after which the attempt's worker holds no permit.
LEMMA UnheldOneShot ==
    ASSUME TypeOK, OneShot, NEW a \in Attempts, Alone(a), UNCHANGED <<ledger, gen>>, FactsKept, Orderly(a)',
           wrk'[a].pc \notin {"verify", "consume", "done"}
    PROVE  OneShot'
<1>1. \A s \in Steps : ~Holder(a, s)'
  BY DEF Holder
<1>2. \A s \in Steps : Permit(a, s)'
  BY <1>1 DEF Permit
<1>3. Quiet /\ gen' = gen
  BY DEF Quiet
<1> QED
  BY <1>1, <1>2, <1>3, OneShotStep

\* The Turn's steps that change neither registry nor worker.
LEMMA PlainTurnOneShot ==
    ASSUME TypeOK, OneShot, NEW a \in Attempts,
           (\E s \in Steps : FromAdmission(a, s)) \/ Stop(a) \/ StreamEnd(a)
    PROVE  OneShot'
<1>1. drv[a] \in Positions /\ drv[a].s \in Steps
  BY DEF TypeOK, Positions
<1>2. "TurnFailed" \in Terminals /\ StopOf(a) \in Terminals
  BY DEF StopOf, Terminals
<1>3. ASSUME NEW s \in Steps, FromAdmission(a, s)
      PROVE  OneShot'
  <2>1. [drv[a] EXCEPT !.pc = "step", !.s = s] \in Positions /\ [drv[a] EXCEPT !.pc = "step", !.s = s].pc = "step"
    BY <1>1 DEF Positions, Places
  <2>2. PICK d \in Positions : d = [drv[a] EXCEPT !.pc = "step", !.s = s] /\ d.pc = "step"
    BY <2>1
  <2>3. drv' = [drv EXCEPT ![a] = d] /\ UNCHANGED <<facts, reg, wrk, gen>> /\ Quiet /\ drv[a].pc = "idle"
    BY <1>3, <2>2 DEF FromAdmission, Quiet
  <2>4. drv'[a] = d /\ \A b \in Attempts \ {a} : drv'[b] = drv[b]
    BY <2>3, PlaceType
  <2>5. d.pc \notin Owning /\ drv[a].pc \notin Owning \cup Settled /\ drv[a].pc # "store" /\ d.pc # "prepare"
    BY <2>2, <2>3 DEF Owning, Settled, Terminals
  <2> QED
    BY <2>3, <2>4, <2>5, MoveOneShot
<1>4. CASE Stop(a)
  BY <1>2, <1>4, FailOneShot DEF Stop
<1>5. CASE StreamEnd(a)
  <2>1. CASE drv' = [drv EXCEPT ![a].pc = "TurnFailed"]
    BY <1>2, <1>5, <2>1, FailOneShot DEF StreamEnd
  <2>2. ASSUME NEW out \in {"ToolCalls", "FinalAnswer"}, drv' = [drv EXCEPT ![a].pc = "complete", ![a].out = out]
        PROVE  OneShot'
    <3>1. /\ [drv[a] EXCEPT !.pc = "complete", !.out = out] \in Positions
          /\ [drv[a] EXCEPT !.pc = "complete", !.out = out].pc = "complete"
          /\ [drv[a] EXCEPT !.pc = "complete", !.out = out].s = drv[a].s
      BY <1>1 DEF Positions, Places, Outcomes
    <3>2. PICK d \in Positions : d = [drv[a] EXCEPT !.pc = "complete", !.out = out] /\ d.pc = "complete" /\ d.s = drv[a].s
      BY <3>1
    <3>3. drv' = [drv EXCEPT ![a] = d] /\ UNCHANGED <<facts, reg, wrk, gen>> /\ Quiet /\ drv[a].pc = "stream"
      BY <1>5, <2>2, <3>2 DEF StreamEnd, Quiet
    <3>4. drv'[a] = d /\ \A b \in Attempts \ {a} : drv'[b] = drv[b]
      BY <3>3, PlaceType
    <3>5. d.pc \in Owning /\ drv[a].pc \in Owning /\ drv[a].pc \notin {"store"} \cup Settled /\ d.pc # "prepare"
      BY <3>2, <3>3 DEF Owning, Settled, Terminals
    <3> QED
      BY <3>2, <3>3, <3>4, <3>5, MoveOneShot
  <2> QED
    BY <1>5, <2>1, <2>2 DEF StreamEnd
<1> QED
  BY <1>3, <1>4, <1>5

\* record_requested takes up a Step: the attempt had none.
LEMMA RecordRequestedOneShot ==
    ASSUME TypeOK, OneShot, NEW a \in Attempts, RecordRequested(a)
    PROVE  OneShot'
<1>1. drv[a] \in Positions /\ drv[a].s \in Steps /\ drv[a].req \in Nat /\ "TurnFailed" \in Terminals
  BY DEF TypeOK, Positions, Terminals
<1>2. CASE MayPublish(a)
  <2>1. PICK d \in Positions : d = [drv[a] EXCEPT !.pc = "open"]
    BY <1>1 DEF Positions, Places
  <2>2. PICK x \in Entries : x = [st |-> "Requested", req |-> drv[a].req, open |-> 0]
    BY <1>1 DEF Entries, Stages
  <2>3. /\ drv' = [drv EXCEPT ![a] = d] /\ reg' = [reg EXCEPT ![a][drv[a].s] = x] /\ drv[a].pc = "publish"
        /\ UNCHANGED <<ledger, facts, wrk, gen>>
    BY <1>2, <2>1, <2>2 DEF RecordRequested
  <2>4. drv'[a] = d /\ \A b \in Attempts \ {a} : drv'[b] = drv[b]
    BY <2>3, PlaceType
  <2>5. /\ reg'[a][drv[a].s] = x /\ \A t \in Steps \ {drv[a].s} : reg'[a][t] = reg[a][t]
        /\ \A b \in Attempts \ {a} : reg'[b] = reg[b]
    BY ZenonT(40), <1>1, <2>3, RegType
  <2>6. d.pc = "open" /\ d.s = drv[a].s /\ x.st = "Requested"
    BY <1>1, <2>1, <2>2 DEF Positions
  <2>7. drv[a].pc \notin Owning \cup Settled \cup {"store"} /\ d.pc \in Owning
    BY <2>3, <2>6 DEF Owning, Settled, Terminals
  <2>8. wrk[a].pc = "none" /\ \A s \in Steps : ~Busy(a, s)
    BY <2>7 DEF OneShot, Orderly
  <2>9. \A s \in Steps : Busy(a, s)' => s = drv[a].s
    BY <2>5, <2>8 DEF Busy
  <2>10. reg'[a][d.s].st \notin {"none", "Completed"}
    BY <2>5, <2>6
  <2>11. Orderly(a)'
    BY <1>1, <2>3, <2>4, <2>6, <2>7, <2>8, <2>9, <2>10 DEF Orderly, Matches, Busy
  <2>12. Alone(a) /\ FactsKept
    BY <2>3, <2>4, <2>5 DEF Alone, FactsKept
  <2> QED
    BY <2>3, <2>8, <2>11, <2>12, UnheldOneShot
<1>3. CASE ~MayPublish(a)
  BY <1>1, <1>3, FailOneShot DEF RecordRequested
<1> QED
  BY <1>2, <1>3

\* begin: the Step being prepared is the one the attempt took up.
LEMMA BeginOneShot ==
    ASSUME TypeOK, OneShot, NEW a \in Attempts, Begin(a)
    PROVE  OneShot'
<1>1. drv[a] \in Positions /\ drv[a].s \in Steps /\ StopOf(a) \in Terminals
  BY DEF TypeOK, Positions, Terminals, StopOf
<1>2. CASE Live(a)
  <2>1. PICK d \in Positions : d = [drv[a] EXCEPT !.pc = "prepare"]
    BY <1>1 DEF Positions, Places
  <2>2. PICK x \in Entries : x = [reg[a][drv[a].s] EXCEPT !.st = "Preparing"]
    BY <1>1, EntryType DEF Stages
  <2>3. /\ drv' = [drv EXCEPT ![a] = d] /\ reg' = [reg EXCEPT ![a][drv[a].s] = x] /\ drv[a].pc = "open"
        /\ UNCHANGED <<ledger, facts, wrk, gen>>
    BY <1>2, <2>1, <2>2 DEF Begin
  <2>4. drv'[a] = d /\ \A b \in Attempts \ {a} : drv'[b] = drv[b]
    BY <2>3, PlaceType
  <2>5. /\ reg'[a][drv[a].s] = x /\ \A t \in Steps \ {drv[a].s} : reg'[a][t] = reg[a][t]
        /\ \A b \in Attempts \ {a} : reg'[b] = reg[b]
    BY ZenonT(40), <1>1, <2>3, RegType
  <2>6. d.pc = "prepare" /\ d.s = drv[a].s
    BY <1>1, <2>1 DEF Positions
  <2>7. x.st = "Preparing"
    BY <1>1, <2>2 DEF TypeOK, Entries
  <2>8. drv[a].pc \notin Settled \cup {"store"} /\ drv[a].pc \in Owning /\ d.pc \in Owning
    BY <2>3, <2>6 DEF Owning, Settled, Terminals
  <2>9. wrk[a].pc = "none" /\ \A s \in Steps : Busy(a, s) => s = drv[a].s
    BY <2>8 DEF OneShot, Orderly
  <2>10. \A s \in Steps : Busy(a, s)' => s = drv[a].s
    BY <2>5, <2>9 DEF Busy
  <2>11. reg'[a][d.s].st \notin {"none", "Completed"}
    BY <2>5, <2>6, <2>7
  <2>12. Orderly(a)'
    BY <1>1, <2>3, <2>4, <2>5, <2>6, <2>7, <2>8, <2>9, <2>10, <2>11 DEF Orderly, Matches, Busy
  <2>13. Alone(a) /\ FactsKept
    BY <2>3, <2>4, <2>5 DEF Alone, FactsKept
  <2> QED
    BY <2>3, <2>9, <2>12, <2>13, UnheldOneShot
<1>3. CASE ~Live(a)
  BY <1>1, <1>3, FailOneShot DEF Begin
<1> QED
  BY <1>2, <1>3

\* prepare_and_admit starts the worker on the Step being prepared.
LEMMA PrepareOneShot ==
    ASSUME TypeOK, OneShot, NEW a \in Attempts, Prepare(a)
    PROVE  OneShot'
<1>1. drv[a] \in Positions /\ drv[a].s \in Steps /\ "TurnFailed" \in Terminals /\ wrk[a] \in Workers
  BY DEF TypeOK, Positions, Terminals
<1>2. CASE drv' = [drv EXCEPT ![a].pc = "TurnFailed"] /\ UNCHANGED wrk
  BY <1>1, <1>2, FailOneShot DEF Prepare
<1>3. CASE drv' = [drv EXCEPT ![a].pc = "store"] /\ wrk' = [wrk EXCEPT ![a].pc = "inspect"]
  <2>1. PICK d \in Positions : d = [drv[a] EXCEPT !.pc = "store"]
    BY <1>1 DEF Positions, Places
  <2>2. PICK w \in Workers : w = [wrk[a] EXCEPT !.pc = "inspect"]
    BY <1>1 DEF Workers
  <2>3. /\ drv' = [drv EXCEPT ![a] = d] /\ wrk' = [wrk EXCEPT ![a] = w] /\ drv[a].pc = "prepare"
        /\ UNCHANGED <<ledger, facts, reg, gen>>
    BY <1>3, <2>1, <2>2 DEF Prepare
  <2>4. drv'[a] = d /\ \A b \in Attempts \ {a} : drv'[b] = drv[b]
    BY <2>3, PlaceType
  <2>5. wrk'[a] = w /\ \A b \in Attempts \ {a} : wrk'[b] = wrk[b]
    BY <2>3, WorkerType
  <2>6. d.pc = "store" /\ d.s = drv[a].s /\ w.pc = "inspect"
    BY <1>1, <2>1, <2>2 DEF Positions, Workers
  <2>7. drv[a].pc \in Owning /\ d.pc \in Owning
    BY <2>3, <2>6 DEF Owning
  <2>8. /\ Busy(a, drv[a].s) /\ reg[a][drv[a].s].st = "Preparing"
        /\ \A s \in Steps : Busy(a, s) => s = drv[a].s
    BY <2>3, <2>7 DEF OneShot, Orderly
  <2>9. Orderly(a)'
    BY <1>1, <2>3, <2>4, <2>5, <2>6, <2>7, <2>8 DEF Orderly, Matches, Busy
  <2>10. Alone(a) /\ FactsKept
    BY <2>3, <2>4, <2>5 DEF Alone, FactsKept
  <2> QED
    BY <2>3, <2>5, <2>6, <2>9, <2>10, UnheldOneShot
<1> QED
  BY <1>2, <1>3 DEF Prepare

\* record_completed settles the attempt's Step and leaves it with none.
LEMMA RecordCompletedOneShot ==
    ASSUME TypeOK, OneShot, NEW a \in Attempts, RecordCompleted(a)
    PROVE  OneShot'
<1>1. drv[a] \in Positions /\ drv[a].s \in Steps /\ "TurnFailed" \in Terminals /\ drv[a].pc = "ack"
  BY DEF TypeOK, Positions, Terminals, RecordCompleted
<1>2. UNCHANGED <<ledger, facts, wrk, gen>>
  BY DEF RecordCompleted
<1>3. CASE drv' = [drv EXCEPT ![a].pc = "TurnFailed"] /\ UNCHANGED reg
  BY <1>1, <1>2, <1>3, FailOneShot
<1>4. CASE /\ reg' = [reg EXCEPT ![a][drv[a].s].st = "Completed"]
           /\ drv' = IF drv[a].out = "ToolCalls" /\ drv[a].s + 1 < MaxSteps
                     THEN [drv EXCEPT ![a] = [Idle EXCEPT !.pc = "step", !.s = drv[a].s + 1]]
                     ELSE [drv EXCEPT ![a].pc = "TurnCompleted"]
  <2>1. PICK x \in Entries : x = [reg[a][drv[a].s] EXCEPT !.st = "Completed"]
    BY <1>1, EntryType DEF Stages
  <2>2. reg' = [reg EXCEPT ![a][drv[a].s] = x]
    BY <1>4, <2>1
  <2>3. /\ reg'[a][drv[a].s] = x /\ \A t \in Steps \ {drv[a].s} : reg'[a][t] = reg[a][t]
        /\ \A b \in Attempts \ {a} : reg'[b] = reg[b]
    BY ZenonT(40), <1>1, <2>2, RegType
  <2>4. x.st = "Completed"
    BY <1>1, <2>1 DEF TypeOK, Entries
  <2>5. drv[a].pc \in Owning /\ drv[a].pc \notin Settled \cup {"store"}
    BY <1>1 DEF Owning, Settled, Terminals
  <2>6. wrk[a].pc = "none" /\ \A s \in Steps : Busy(a, s) => s = drv[a].s
    BY <2>5 DEF OneShot, Orderly
  <2>7. \A s \in Steps : ~Busy(a, s)'
    BY <2>3, <2>4, <2>6 DEF Busy
  <2>8. drv'[a].pc \in {"step", "TurnCompleted"} /\ \A b \in Attempts \ {a} : drv'[b] = drv[b]
    BY <1>1, <1>4 DEF TypeOK, Positions, Idle
  <2>9. drv'[a].pc \notin Owning /\ drv'[a].pc # "prepare"
    BY <2>8 DEF Owning
  <2>10. Orderly(a)'
    BY <1>2, <2>6, <2>7, <2>9 DEF Orderly
  <2>11. Alone(a) /\ FactsKept
    BY <1>2, <2>3, <2>8 DEF Alone, FactsKept
  <2> QED
    BY <1>2, <2>6, <2>10, <2>11, UnheldOneShot
<1> QED
  BY <1>3, <1>4 DEF RecordCompleted

\* A crash takes the registry and the worker with the Turn.
LEMMA CrashOneShot ==
    ASSUME TypeOK, OneShot, NEW a \in Attempts, Crash(a)
    PROVE  OneShot'
<1>1. /\ drv'[a].pc = "dead" /\ \A b \in Attempts \ {a} : drv'[b] = drv[b]
      /\ wrk'[a].pc = "none" /\ \A b \in Attempts \ {a} : wrk'[b] = wrk[b]
      /\ UNCHANGED <<ledger, facts, gen>>
  BY DEF Crash, TypeOK, Idle, NoWorker
<1>2. /\ \A b \in Attempts \ {a} : reg'[b] = reg[b]
      /\ \A s \in Steps : reg'[a][s].st = "none"
  BY DEF Crash, TypeOK, NoEntry
<1>3. \A s \in Steps : ~Busy(a, s)'
  BY <1>2 DEF Busy
<1>4. Orderly(a)'
  BY <1>1, <1>3 DEF Orderly, Owning
<1>5. Alone(a) /\ FactsKept
  BY <1>1, <1>2 DEF Alone, FactsKept
<1> QED
  BY <1>1, <1>4, <1>5, UnheldOneShot

\* The one generation spends the permit.
LEMMA GenerateOneShot ==
    ASSUME TypeOK, OneShot, NEW a \in Attempts, Generate(a)
    PROVE  OneShot'
<1>1. drv[a] \in Positions /\ drv[a].s \in Steps /\ drv[a].pc = "store" /\ wrk[a].pc \in {"done", "err"}
  BY DEF TypeOK, Positions, Generate
<1>2. UNCHANGED <<ledger, facts, reg>> /\ wrk' = [wrk EXCEPT ![a] = NoWorker] /\ NoWorker \in Workers
  BY DEF Generate, NoWorker, Workers
<1>3. wrk'[a].pc = "none" /\ \A b \in Attempts \ {a} : wrk'[b] = wrk[b]
  BY <1>2, WorkerType DEF NoWorker
<1>4. PICK s0 \in Steps : s0 = drv[a].s
  BY <1>1
<1>5. /\ Busy(a, s0) /\ \A s \in Steps : Busy(a, s) => s = s0
      /\ \A s \in Steps : Busy(a, s) => Matches(wrk[a].pc, reg[a][s].st)
  BY <1>1, <1>4 DEF OneShot, Orderly, Owning
<1>6. CASE ~(wrk[a].pc = "done" /\ Live(a))
  <2>1. /\ drv'[a].pc = "TurnFailed" /\ \A b \in Attempts \ {a} : drv'[b] = drv[b]
        /\ gen' = gen
    BY <1>1, <1>6 DEF Generate, TypeOK, Positions
  <2>2. "TurnFailed" \notin Owning /\ "TurnFailed" \in Settled
    BY DEF Owning, Settled, Terminals
  <2>3. Orderly(a)'
    BY <1>2, <1>3, <1>5, <2>1, <2>2 DEF Orderly, Busy, Matches
  <2>4. Alone(a) /\ FactsKept
    BY <1>2, <1>3, <2>1 DEF Alone, FactsKept
  <2> QED
    BY <1>2, <1>3, <2>1, <2>3, <2>4, UnheldOneShot
<1>7. CASE wrk[a].pc = "done" /\ Live(a)
  <2>1. /\ drv'[a].pc = "stream" /\ drv'[a].s = s0 /\ \A b \in Attempts \ {a} : drv'[b] = drv[b]
    BY <1>1, <1>4, <1>7 DEF Generate, TypeOK, Positions
  <2>2. gen'[s0] = gen[s0] + 1 /\ \A s \in Steps \ {s0} : gen'[s] = gen[s]
    BY <1>4, <1>7 DEF Generate, TypeOK
  <2>3. Orderly(a)'
    BY <1>2, <1>3, <1>5, <2>1 DEF Orderly, Busy, Matches, Owning
  <2>4. Alone(a) /\ FactsKept /\ Quiet
    BY <1>2, <1>3, <2>1 DEF Alone, FactsKept, Quiet
  <2>5. LedgerGrows /\ OpeningsUnique'
    BY <2>4, QuietOpenings DEF OneShot
  <2>6. Holder(a, s0)
    BY <1>5, <1>7 DEF Holder
  <2>7. gen[s0] = 0 /\ reg[a][s0].open \in Openings(s0) /\ Verified(Through(reg[a][s0].open))
    BY <1>7, <2>6 DEF OneShot, Permit
  <2>8. \A s \in Steps : ~Holder(a, s)'
    BY <1>3 DEF Holder
  <2>9. \A b \in Attempts, s \in Steps : Holder(b, s)' => b # a /\ Holder(b, s) /\ s # s0
    BY <2>4, <2>6, <2>8, OthersStay DEF OneShot
  <2>10. \A b \in Attempts : Orderly(b)'
    BY <2>3, <2>4, OthersStay DEF OneShot
  <2>11. ASSUME NEW b \in Attempts, NEW s \in Steps
         PROVE  Permit(b, s)'
    <3>1. CASE ~Holder(b, s)'
      BY <3>1 DEF Permit
    <3>2. CASE Holder(b, s)'
      <4>1. Permit(b, s) /\ wrk'[b] = wrk[b] /\ reg'[b][s] = reg[b][s] /\ gen'[s] = gen[s]
        BY <2>2, <2>4, <2>9, <3>2 DEF OneShot, Alone
      <4> QED
        BY <2>4, <2>5, <4>1, PermitStays
    <3> QED
      BY <3>1, <3>2
  <2>12. \A b, c \in Attempts, s \in Steps : Holder(b, s)' /\ Holder(c, s)' => b = c
    BY <2>9 DEF OneShot
  <2>13. ASSUME NEW s \in Steps, gen'[s] > 0
         PROVE  gen'[s] = 1 /\ (\E i \in Openings(s) : Verified(Through(i)))'
    <3>1. gen'[s] = 1 /\ \E i \in Openings(s) : Verified(Through(i))
      BY <2>2, <2>7, <2>13 DEF OneShot
    <3> QED
      BY <2>4, <2>5, <3>1, OpenedStays
  <2> QED
    BY <2>5, <2>10, <2>11, <2>12, <2>13 DEF OneShot
<1> QED
  BY <1>6, <1>7

----------------------------------------------------------------------------
\* One permit per Step: the storage worker.

\* A worker at work on the attempt's Step leaves the attempt orderly.
LEMMA WorkerOrderly ==
    ASSUME TypeOK, NEW a \in Attempts, Orderly(a), NEW s \in Steps, Busy(a, s), drv' = drv,
           wrk[a].pc # "none", reg'[a][s].st \notin {"none", "Completed"},
           \A t \in Steps \ {s} : reg'[a][t] = reg[a][t],
           Matches(wrk'[a].pc, reg'[a][s].st)
    PROVE  Orderly(a)' /\ \A t \in Steps : Busy(a, t)' => t = s
<1>1. drv[a].pc \in {"store"} \cup Settled
  BY DEF Orderly
<1>2. drv[a].pc # "prepare"
  BY <1>1 DEF Settled, Terminals
<1>3. \A t \in Steps : Busy(a, t) => t = s
  BY DEF Orderly
<1>4. \A t \in Steps : Busy(a, t)' => t = s
  BY <1>3 DEF Busy
<1>5. drv[a].pc \in Owning \cup Settled /\ (drv[a].pc \in Owning => s = drv[a].s)
  BY DEF Orderly
<1>6. drv'[a].pc \in Owning => reg'[a][drv'[a].s].st \notin {"none", "Completed"}
  BY <1>5
<1> QED
  BY <1>1, <1>2, <1>4, <1>5, <1>6 DEF Orderly, Busy

\* What WorkerTo does to the workers.
LEMMA WorkerMoves ==
    ASSUME TypeOK, NEW a \in Attempts, NEW ok \in BOOLEAN, NEW to \in {"fact", "append", "consume", "done"},
           WorkerTo(a, ok, to)
    PROVE  /\ wrk'[a].pc = IF ok THEN to ELSE "err"
           /\ \A b \in Attempts \ {a} : wrk'[b] = wrk[b]
BY DEF WorkerTo, TypeOK, Workers

\* A worker that stops with an error holds nothing.
LEMMA WorkerErrOneShot ==
    ASSUME TypeOK, OneShot, NEW a \in Attempts, NEW s \in Steps, Busy(a, s), wrk[a].pc # "none",
           UNCHANGED <<ledger, facts, reg, drv, gen>>, wrk'[a].pc = "err",
           \A b \in Attempts \ {a} : wrk'[b] = wrk[b]
    PROVE  OneShot'
<1>1. Orderly(a)'
  <2>1. reg'[a][s].st \notin {"none", "Completed"} /\ Matches(wrk'[a].pc, reg'[a][s].st)
    BY DEF Busy, Matches
  <2> QED
    BY <2>1, WorkerOrderly DEF OneShot
<1>2. Alone(a) /\ FactsKept
  BY DEF Alone, FactsKept
<1> QED
  BY <1>1, <1>2, UnheldOneShot

\* inspect_current(requested)
LEMMA WorkerInspectOneShot ==
    ASSUME TypeOK, OneShot, NEW a \in Attempts, WorkerInspect(a)
    PROVE  OneShot'
<1>1. PICK s \in Steps : /\ wrk[a].pc = "inspect" /\ reg[a][s].st = "Preparing"
                         /\ WorkerTo(a, Live(a) /\ Verified(Through(Req(a, s))), "fact")
                         /\ UNCHANGED <<ledger, facts, reg, drv, gen>>
  BY DEF WorkerInspect
<1>2. PICK ok \in BOOLEAN : ok <=> Live(a) /\ Verified(Through(Req(a, s)))
  OBVIOUS
<1>3. WorkerTo(a, ok, "fact")
  BY <1>1, <1>2 DEF WorkerTo
<1>4. wrk'[a].pc \in {"fact", "err"} /\ \A b \in Attempts \ {a} : wrk'[b] = wrk[b]
  BY <1>3, WorkerMoves
<1>5. Busy(a, s) /\ Matches(wrk'[a].pc, reg'[a][s].st)
  BY <1>1, <1>4 DEF Busy, Matches
<1>6. Orderly(a)'
  BY <1>1, <1>5, WorkerOrderly DEF OneShot, Busy
<1>7. Alone(a) /\ FactsKept
  BY <1>1, <1>4 DEF Alone, FactsKept
<1> QED
  BY <1>1, <1>4, <1>6, <1>7, UnheldOneShot

\* The preparation record is written once and never replaced.
LEMMA WorkerFactOneShot ==
    ASSUME TypeOK, OneShot, NEW a \in Attempts, WorkerFact(a)
    PROVE  OneShot'
<1>1. PICK s \in Steps :
         /\ wrk[a].pc = "fact" /\ reg[a][s].st = "Preparing"
         /\ LET ok == Live(a) /\ facts[s] \in {0, Req(a, s)} IN
            /\ facts' = IF ok THEN [facts EXCEPT ![s] = Req(a, s)] ELSE facts
            /\ reg' = IF ok THEN [reg EXCEPT ![a][s].st = "Committing"] ELSE reg
            /\ WorkerTo(a, ok, "append")
         /\ UNCHANGED <<ledger, drv, gen>>
  BY DEF WorkerFact
<1>2. PICK ok \in BOOLEAN : ok <=> Live(a) /\ facts[s] \in {0, Req(a, s)}
  OBVIOUS
<1>3. WorkerTo(a, ok, "append")
  BY <1>1, <1>2 DEF WorkerTo
<1>4. wrk'[a].pc = (IF ok THEN "append" ELSE "err") /\ \A b \in Attempts \ {a} : wrk'[b] = wrk[b]
  BY <1>3, WorkerMoves
<1>5. Busy(a, s)
  BY <1>1 DEF Busy
<1>6. CASE ~ok
  BY <1>1, <1>2, <1>4, <1>5, <1>6, WorkerErrOneShot
<1>7. CASE ok
  <2>1. PICK x \in Entries : x = [reg[a][s] EXCEPT !.st = "Committing"]
    BY EntryType DEF Stages
  <2>2. reg' = [reg EXCEPT ![a][s] = x] /\ x.st = "Committing"
    BY <1>1, <1>2, <1>7, <2>1 DEF TypeOK, Entries
  <2>3. /\ reg'[a][s] = x /\ \A t \in Steps \ {s} : reg'[a][t] = reg[a][t]
        /\ \A b \in Attempts \ {a} : reg'[b] = reg[b]
    BY <2>2, RegType
  <2>4. FactsKept
    BY <1>1, <1>2, <1>7 DEF FactsKept, TypeOK
  <2>5. Matches(wrk'[a].pc, reg'[a][s].st)
    BY <1>4, <1>7, <2>2, <2>3 DEF Matches
  <2>6. Orderly(a)'
    BY <1>1, <1>5, <2>2, <2>3, <2>5, WorkerOrderly DEF OneShot
  <2>7. Alone(a)
    BY <1>1, <1>4, <2>3 DEF Alone
  <2> QED
    BY <1>1, <1>4, <1>7, <2>4, <2>6, <2>7, UnheldOneShot
<1> QED
  BY <1>6, <1>7

\* inspect_current(opening) turns a stored opening into an admitted one.
LEMMA WorkerAdmitOneShot ==
    ASSUME TypeOK, OneShot, NEW a \in Attempts, WorkerAdmit(a)
    PROVE  OneShot'
<1>1. PICK s \in Steps :
         LET ok == Verified(Through(wrk[a].open)) IN
         /\ wrk[a].pc = "verify" /\ reg[a][s].st = "Committing"
         /\ reg' = IF ok THEN [reg EXCEPT ![a][s] = [reg[a][s] EXCEPT !.st = "Admitted", !.open = wrk[a].open]] ELSE reg
         /\ WorkerTo(a, ok, "consume")
         /\ UNCHANGED <<ledger, facts, drv, gen>>
  BY DEF WorkerAdmit
<1>2. PICK ok \in BOOLEAN : ok <=> Verified(Through(wrk[a].open))
  OBVIOUS
<1>3. WorkerTo(a, ok, "consume")
  BY <1>1, <1>2 DEF WorkerTo
<1>4. wrk'[a].pc = (IF ok THEN "consume" ELSE "err") /\ \A b \in Attempts \ {a} : wrk'[b] = wrk[b]
  BY <1>3, WorkerMoves
<1>5. Busy(a, s)
  BY <1>1 DEF Busy
<1>6. CASE ~ok
  BY <1>1, <1>2, <1>4, <1>5, <1>6, WorkerErrOneShot
<1>7. CASE ok
  <2>1. PICK x \in Entries : x = [reg[a][s] EXCEPT !.st = "Admitted", !.open = wrk[a].open]
    <3>1. wrk[a].open \in Nat
      BY DEF TypeOK, Workers
    <3> QED
      BY <3>1, EntryType DEF Stages
  <2>2. reg' = [reg EXCEPT ![a][s] = x] /\ x.st = "Admitted" /\ x.open = wrk[a].open
    BY <1>1, <1>2, <1>7, <2>1 DEF TypeOK, Entries
  <2>3. /\ reg'[a][s] = x /\ \A t \in Steps \ {s} : reg'[a][t] = reg[a][t]
        /\ \A b \in Attempts \ {a} : reg'[b] = reg[b]
    BY <2>2, RegType
  <2>4. FactsKept /\ Quiet
    BY <1>1 DEF FactsKept, Quiet
  <2>5. Matches(wrk'[a].pc, reg'[a][s].st)
    BY <1>4, <1>7, <2>2, <2>3 DEF Matches
  <2>6. Orderly(a)' /\ \A t \in Steps : Busy(a, t)' => t = s
    BY <1>1, <1>5, <2>2, <2>3, <2>5, WorkerOrderly DEF OneShot
  <2>7. Alone(a)
    BY <1>1, <1>4, <2>3 DEF Alone
  <2>8. Holder(a, s)
    BY <1>1, <1>5 DEF Holder
  <2>9. PICK i \in 1..Len(ledger) : i = wrk[a].open /\ i \in Openings(s) /\ Verified(Through(i)) /\ gen[s] = 0
    BY <1>1, <1>2, <1>7, <2>8 DEF OneShot, Permit, Openings
  <2>10. LedgerGrows
    BY <2>4, QuietOpenings
  <2>11. Verified(Through(i))' /\ i \in Openings(s)' /\ i = reg'[a][s].open
    BY <2>2, <2>3, <2>4, <2>9, <2>10, VerifiedStays, OpeningsGrow
  <2>12. wrk'[a].pc = "consume" /\ gen'[s] = 0
    BY <1>1, <1>4, <1>7, <2>9
  <2>13. Permit(a, s)'
    BY <2>11, <2>12 DEF Permit
  <2>14. \A t \in Steps : Holder(a, t)' => t = s
    BY <2>6 DEF Holder
  <2>15. \A t \in Steps : Permit(a, t)' /\ (Holder(a, t)' => Holder(a, t))
    BY <2>8, <2>13, <2>14 DEF Permit
  <2> QED
    BY <1>1, <2>4, <2>6, <2>7, <2>15, OneShotStep
<1> QED
  BY <1>6, <1>7

\* consume_permit keeps what the permit rests on.
LEMMA WorkerConsumeOneShot ==
    ASSUME TypeOK, OneShot, NEW a \in Attempts, WorkerConsume(a)
    PROVE  OneShot'
<1>1. PICK s \in Steps, ok \in BOOLEAN :
         /\ wrk[a].pc = "consume" /\ reg[a][s].st = "Admitted"
         /\ reg' = IF ok THEN [reg EXCEPT ![a][s].st = "Consumed"] ELSE reg
         /\ WorkerTo(a, ok, "done")
         /\ UNCHANGED <<ledger, facts, drv, gen>>
  <2>1. PICK s \in Steps :
           LET ok == /\ Live(a) /\ Len(ledger) <= MaxEvents
                     /\ Kinds(ledger, Terminals \cup {"ExecutionCancelled"}, 0, Len(ledger) + 1) = {}
           IN /\ wrk[a].pc = "consume" /\ reg[a][s].st = "Admitted"
              /\ reg' = IF ok THEN [reg EXCEPT ![a][s].st = "Consumed"] ELSE reg
              /\ wrk' = [wrk EXCEPT ![a].pc = IF ok THEN "done" ELSE "err"]
              /\ UNCHANGED <<ledger, facts, drv, gen>>
    BY DEF WorkerConsume, WorkerTo
  <2> QED
    BY <2>1 DEF WorkerTo
<1>4. wrk'[a].pc = (IF ok THEN "done" ELSE "err") /\ \A b \in Attempts \ {a} : wrk'[b] = wrk[b]
  BY <1>1, WorkerMoves
<1>5. Busy(a, s)
  BY <1>1 DEF Busy
<1>6. CASE ~ok
  BY <1>1, <1>4, <1>5, <1>6, WorkerErrOneShot
<1>7. CASE ok
  <2>1. PICK x \in Entries : x = [reg[a][s] EXCEPT !.st = "Consumed"]
    BY EntryType DEF Stages
  <2>2. reg' = [reg EXCEPT ![a][s] = x] /\ x.st = "Consumed" /\ x.open = reg[a][s].open
    BY <1>1, <1>7, <2>1 DEF TypeOK, Entries
  <2>3. /\ reg'[a][s] = x /\ \A t \in Steps \ {s} : reg'[a][t] = reg[a][t]
        /\ \A b \in Attempts \ {a} : reg'[b] = reg[b]
    BY <2>2, RegType
  <2>4. FactsKept /\ Quiet
    BY <1>1 DEF FactsKept, Quiet
  <2>5. Matches(wrk'[a].pc, reg'[a][s].st)
    BY <1>4, <1>7, <2>2, <2>3 DEF Matches
  <2>6. Orderly(a)' /\ \A t \in Steps : Busy(a, t)' => t = s
    BY <1>1, <1>5, <2>2, <2>3, <2>5, WorkerOrderly DEF OneShot
  <2>7. Alone(a)
    BY <1>1, <1>4, <2>3 DEF Alone
  <2>8. Holder(a, s)
    BY <1>1, <1>5 DEF Holder
  <2>9. PICK i \in 1..Len(ledger) : i = reg[a][s].open /\ i \in Openings(s) /\ Verified(Through(i)) /\ gen[s] = 0
    BY <1>1, <2>8 DEF OneShot, Permit, Openings
  <2>10. LedgerGrows
    BY <2>4, QuietOpenings
  <2>11. Verified(Through(i))' /\ i \in Openings(s)' /\ i = reg'[a][s].open
    BY <2>2, <2>3, <2>4, <2>9, <2>10, VerifiedStays, OpeningsGrow
  <2>12. wrk'[a].pc = "done" /\ gen'[s] = 0
    BY <1>1, <1>4, <1>7, <2>9
  <2>13. Permit(a, s)'
    BY <2>11, <2>12 DEF Permit
  <2>14. \A t \in Steps : Holder(a, t)' => t = s
    BY <2>6 DEF Holder
  <2>15. \A t \in Steps : Permit(a, t)' /\ (Holder(a, t)' => Holder(a, t))
    BY <2>8, <2>13, <2>14 DEF Permit
  <2> QED
    BY <1>1, <2>4, <2>6, <2>7, <2>15, OneShotStep
<1> QED
  BY <1>6, <1>7

\* The Ledger grants the id of a Step's opening once, so nobody generated or may still
\* generate when it is granted.
LEMMA OpeningFirst ==
    ASSUME TypeOK, OneShot, NEW s \in Steps, \A i \in 1..Len(ledger) : ledger[i].id # <<"opening", s>>
    PROVE  Openings(s) = {} /\ gen[s] = 0 /\ \A b \in Attempts : ~Holder(b, s)
<1>1. Openings(s) = {}
  BY DEF OneShot, OpeningsUnique, Openings
<1>2. gen[s] = 0
  <2>1. gen[s] \in Nat
    BY DEF TypeOK
  <2>2. ~(gen[s] > 0)
    BY <1>1 DEF OneShot
  <2> QED
    BY <2>1, <2>2
<1>3. \A b \in Attempts : ~Holder(b, s)
  BY <1>1 DEF OneShot, Permit, Holder
<1> QED
  BY <1>1, <1>2, <1>3

\* append_unless_cancelled: the opening is granted to the worker, or the answer is lost.
LEMMA WorkerAppendOneShot ==
    ASSUME TypeOK, OneShot, NEW a \in Attempts, WorkerAppend(a)
    PROVE  OneShot'
<1>1. PICK s \in Steps, lost \in BOOLEAN :
         LET e == Event("ModelOpeningAdmitted", <<"opening", s>>, s, Req(a, s), 0, "none")
             ok == ~Conflict(e) /\ Kinds(ledger, {"ExecutionCancelled"}, 0, Len(ledger) + 1) = {}
         IN /\ wrk[a].pc = "append" /\ reg[a][s].st = "Committing"
            /\ ledger' = IF ok THEN Append(ledger, e) ELSE ledger
            /\ wrk' = [wrk EXCEPT ![a] = IF ok /\ ~lost THEN [pc |-> "verify", open |-> Len(ledger) + 1]
                                         ELSE [pc |-> "err", open |-> 0]]
            /\ UNCHANGED <<facts, reg, drv, gen>>
  BY DEF WorkerAppend
<1>2. PICK e \in Events : /\ e = Event("ModelOpeningAdmitted", <<"opening", s>>, s, Req(a, s), 0, "none")
                          /\ e.kind = "ModelOpeningAdmitted" /\ e.step = s /\ e.id = <<"opening", s>>
  BY OpeningType
<1>3. PICK w \in Workers : /\ w.pc \in {"verify", "err"} /\ (w.pc = "verify" => w.open = Len(ledger) + 1)
                           /\ wrk' = [wrk EXCEPT ![a] = w] /\ (w.pc = "verify" => ledger' # ledger)
                           /\ \/ ledger' = ledger
                              \/ ledger' = Append(ledger, e) /\ \A i \in 1..Len(ledger) : ledger[i].id # <<"opening", s>>
  <2> DEFINE ok == ~Conflict(e) /\ Kinds(ledger, {"ExecutionCancelled"}, 0, Len(ledger) + 1) = {}
  <2>1. /\ [pc |-> "verify", open |-> Len(ledger) + 1] \in Workers /\ [pc |-> "err", open |-> 0] \in Workers
        /\ Len(Append(ledger, e)) = Len(ledger) + 1 /\ Len(ledger) \in Nat
    BY LenProperties, AppendEvent DEF Workers, TypeOK
  <2>2. Append(ledger, e) # ledger
    BY <2>1
  <2>3. CASE ok /\ ~lost
    <3>1. PICK v \in Workers : v = [pc |-> "verify", open |-> Len(ledger) + 1]
      BY <2>1
    <3>2. ledger' = Append(ledger, e) /\ wrk' = [wrk EXCEPT ![a] = v] /\ v.pc = "verify" /\ v.open = Len(ledger) + 1
      BY <1>1, <1>2, <2>3, <3>1
    <3>3. \A i \in 1..Len(ledger) : ledger[i].id # <<"opening", s>>
      BY <1>2, <2>3 DEF Conflict
    <3> QED
      BY <2>2, <3>2, <3>3
  <2>4. CASE ~(ok /\ ~lost)
    <3>1. PICK v \in Workers : v = [pc |-> "err", open |-> 0]
      BY <2>1
    <3>2. wrk' = [wrk EXCEPT ![a] = v] /\ v.pc = "err"
      BY <1>1, <1>2, <2>4, <3>1
    <3>3. \/ ledger' = ledger
          \/ ledger' = Append(ledger, e) /\ \A i \in 1..Len(ledger) : ledger[i].id # <<"opening", s>>
      BY <1>1, <1>2 DEF Conflict
    <3> QED
      BY <3>2, <3>3
  <2> QED
    BY <2>3, <2>4
<1>4. wrk'[a] = w /\ \A b \in Attempts \ {a} : wrk'[b] = wrk[b]
  BY <1>3, WorkerType
<1>5. Busy(a, s) /\ wrk[a].pc # "none" /\ UNCHANGED <<facts, reg, drv, gen>> /\ reg[a][s].st = "Committing"
  BY <1>1 DEF Busy
<1>6. CASE ledger' = ledger
  BY <1>3, <1>4, <1>5, <1>6, WorkerErrOneShot
<1>7. CASE ledger' = Append(ledger, e) /\ \A i \in 1..Len(ledger) : ledger[i].id # <<"opening", s>>
  <2>1. Openings(s) = {} /\ gen[s] = 0 /\ \A b \in Attempts : ~Holder(b, s)
    BY <1>7, OpeningFirst
  <2>2. /\ ledger \in Seq(Events) /\ Len(ledger) \in Nat /\ Len(ledger') = Len(ledger) + 1
        /\ ledger'[Len(ledger) + 1] = e /\ \A i \in 1..Len(ledger) : ledger'[i] = ledger[i]
    BY <1>7, AppendEvent DEF TypeOK
  <2>3. LedgerGrows /\ FactsKept /\ Alone(a)
    BY <1>4, <1>5, <1>7 DEF LedgerGrows, FactsKept, Alone
  <2>4. Openings(s)' = {Len(ledger) + 1}
    <3>1. \A i \in 1..Len(ledger) : ~(ledger[i].kind = "ModelOpeningAdmitted" /\ ledger[i].step = s)
      BY <2>1 DEF Openings
    <3> QED
      BY <1>2, <2>2, <3>1 DEF Openings
  <2>5. \A t \in Steps \ {s} : Openings(t)' = Openings(t)
    BY <1>2, <2>2 DEF Openings
  <2>6. OpeningsUnique'
    <3>1. \A i \in 1..Len(ledger') : ledger'[i].kind = "ModelOpeningAdmitted" => ledger'[i].id = <<"opening", ledger'[i].step>>
      BY SMTT(40), <1>2, <2>2 DEF OneShot, OpeningsUnique
    <3>2. \A t \in Steps : \A i, j \in Openings(t)' : i = j
      BY <2>4, <2>5 DEF OneShot, OpeningsUnique
    <3> QED
      BY <3>1, <3>2 DEF OpeningsUnique
  <2>7. Orderly(a)' /\ \A t \in Steps : Busy(a, t)' => t = s
    <3>1. Matches(wrk'[a].pc, reg'[a][s].st) /\ reg'[a][s].st \notin {"none", "Completed"}
      BY <1>3, <1>4, <1>5 DEF Matches
    <3> QED
      BY <1>5, <3>1, WorkerOrderly DEF OneShot
  <2>8. \A b \in Attempts : Orderly(b)'
    BY <2>3, <2>7, OthersStay DEF OneShot
  <2>9. \A t \in Steps : Holder(a, t)' => t = s /\ w.pc = "verify"
    BY <1>3, <1>4, <2>7 DEF Holder
  <2>10. \A b \in Attempts \ {a}, t \in Steps : Holder(b, t)' => Holder(b, t) /\ t # s
    BY <2>1, <2>3, OthersStay
  <2>11. ASSUME NEW b \in Attempts, NEW t \in Steps
         PROVE  Permit(b, t)'
    <3>1. CASE b = a
      <4>1. Holder(a, t)' => gen'[t] = 0 /\ wrk'[a].pc = "verify" /\ wrk'[a].open \in Openings(t)'
        BY <1>3, <1>4, <1>5, <2>1, <2>4, <2>9
      <4> QED
        BY <3>1, <4>1 DEF Permit
    <3>2. CASE b # a
      <4>1. Permit(b, t) /\ wrk'[b] = wrk[b] /\ reg'[b][t] = reg[b][t] /\ gen'[t] = gen[t]
        BY <1>5, <2>3, <3>2 DEF OneShot, Alone
      <4> QED
        BY <2>3, <4>1, PermitStays
    <3> QED
      BY <3>1, <3>2
  <2>12. \A b, c \in Attempts, t \in Steps : Holder(b, t)' /\ Holder(c, t)' => b = c
    BY <2>9, <2>10 DEF OneShot
  <2>13. \A t \in Steps : gen'[t] > 0 => gen'[t] = 1 /\ (\E i \in Openings(t) : Verified(Through(i)))'
    BY <1>5, <2>3, OpenedStays DEF OneShot
  <2> QED
    BY <2>6, <2>8, <2>11, <2>12, <2>13 DEF OneShot
<1> QED
  BY <1>3, <1>6, <1>7

----------------------------------------------------------------------------
\* The theorems.

\* Nobody holds a permit at the start.
LEMMA InitOneShot == Init => OneShot
<1> SUFFICES ASSUME Init PROVE OneShot
  OBVIOUS
<1>1. \A i \in 1..Len(ledger) : ledger[i].kind # "ModelOpeningAdmitted"
  <2>1. Len(ledger) = 3 /\ ledger[1].kind = "ExecutionBound" /\ ledger[2].kind = "ExecutionStarted"
        /\ ledger[3].kind = "ExecutionInputAdmitted"
    BY DEF Init, Plain, Event
  <2> QED
    BY <2>1
<1>2. OpeningsUnique
  BY <1>1 DEF OpeningsUnique, Openings
<1>3. /\ \A a \in Attempts, s \in Steps : ~Busy(a, s)
      /\ \A a \in Attempts : drv[a].pc = "idle" /\ wrk[a].pc = "none"
  BY DEF Init, Busy, NoEntry, Idle, NoWorker
<1>4. \A a \in Attempts : Orderly(a)
  BY <1>3 DEF Orderly, Owning
<1>5. \A a \in Attempts, s \in Steps : ~Holder(a, s)
  BY <1>3 DEF Holder
<1>6. \A s \in Steps : gen[s] = 0
  BY DEF Init
<1> QED
  BY <1>2, <1>4, <1>5, <1>6 DEF OneShot, Permit

\* Every step keeps one permit per Step.
LEMMA NextOneShot == TypeOK /\ OneShot /\ [Next]_vars => OneShot'
<1> SUFFICES ASSUME TypeOK, OneShot, [Next]_vars
             PROVE  OneShot'
  OBVIOUS
<1>1. 1 \in Attempts
  BY OpeningAssumption DEF Attempts
<1>2. CASE UNCHANGED vars
  <2>1. drv[1] \in Positions /\ drv'[1] = drv[1] /\ UNCHANGED <<facts, reg, wrk, gen, drv>> /\ Quiet
    BY <1>1, <1>2 DEF vars, TypeOK, Quiet
  <2> QED
    BY <1>1, <2>1, MoveOneShot
<1>3. CASE CancelExecution \/ Expire
  BY <1>1, <1>3, SurroundingOneShot
<1>4. ASSUME NEW a \in Attempts, Turn(a)
      PROVE  OneShot'
  BY <1>4, RecorderOneShot, RecordRequestedOneShot, BeginOneShot, PrepareOneShot, GenerateOneShot,
     RecordCompletedOneShot, SurroundingOneShot DEF Turn
<1>5. ASSUME NEW a \in Attempts, Worker(a)
      PROVE  OneShot'
  BY <1>5, WorkerInspectOneShot, WorkerFactOneShot, WorkerAppendOneShot, WorkerAdmitOneShot,
     WorkerConsumeOneShot DEF Worker
<1>6. ASSUME NEW a \in Attempts, (\E s \in Steps : FromAdmission(a, s)) \/ Stop(a) \/ StreamEnd(a)
      PROVE  OneShot'
  BY <1>6, PlainTurnOneShot
<1>7. ASSUME NEW a \in Attempts, StreamEvent(a) \/ Cancel(a) \/ Crash(a)
      PROVE  OneShot'
  BY <1>7, RecorderOneShot, SurroundingOneShot, CrashOneShot
<1> QED
  BY <1>2, <1>3, <1>4, <1>5, <1>6, <1>7 DEF Next

\* One permit per Step, in every reachable state.
THEOREM OneShotInvariant == Spec => [](TypeOK /\ OneShot)
<1>1. Init => TypeOK /\ OneShot
  BY InitType, InitOneShot
<1>2. TypeOK /\ OneShot /\ [Next]_vars => (TypeOK /\ OneShot)'
  BY NextType, NextOneShot
<1> QED
  BY <1>1, <1>2, PTL DEF Spec

\* No Step enters stream_prepared twice, whatever the attempts, crashes and late workers
\* (consumer.rs).
THEOREM GenerationIsOneShot == Spec => []GenerationOnce
<1>1. TypeOK /\ OneShot => GenerationOnce
  <2> SUFFICES ASSUME TypeOK, OneShot, NEW s \in Steps
               PROVE  gen[s] <= 1
    BY DEF GenerationOnce
  <2>1. gen[s] \in Nat
    BY DEF TypeOK
  <2>2. gen[s] > 0 => gen[s] = 1
    BY DEF OneShot
  <2> QED
    BY <2>1, <2>2
<1> QED
  BY <1>1, OneShotInvariant, PTL

\* A generation rests on the Step's one durable opening, read back and accepted with
\* everything before it (writer.rs).
THEOREM GenerationIsAdmitted == Spec => []GenerationAdmitted
<1>1. OneShot => GenerationAdmitted
  <2> SUFFICES ASSUME OneShot, NEW s \in Steps, gen[s] > 0
               PROVE  \E i \in Openings(s) : Openings(s) = {i} /\ Verified(Through(i))
    BY DEF GenerationAdmitted
  <2>1. PICK i \in Openings(s) : Verified(Through(i))
    BY DEF OneShot
  <2>2. Openings(s) = {i}
    BY DEF OneShot, OpeningsUnique
  <2> QED
    BY <2>1, <2>2
<1> QED
  BY <1>1, OneShotInvariant, PTL

----------------------------------------------------------------------------
\* What the strict reader's acceptance says of the earlier Steps.

\* A non-empty set of naturals has a smallest element.
LEMMA Smallest ==
    ASSUME NEW S \in SUBSET Nat, S # {}
    PROVE  \E x \in S : \A y \in S : x <= y
<1> DEFINE R == OpToRel(<, Nat)
<1>1. PICK x \in S : \A y \in S : <<y, x>> \notin R
  BY WFMin, NatLessThanWellFounded, Zenon
<1>2. \A y \in S : ~(y < x)
  BY <1>1 DEF OpToRel
<1> QED
  BY <1>2

\* Max finds the last of some positions.
LEMMA MaxOf ==
    ASSUME NEW n \in Nat, NEW S \in SUBSET (1..n), S # {}
    PROVE  Max(S) \in S /\ \A y \in S : y <= Max(S)
<1>1. \E x \in S : \A y \in S : x >= y
  <2> DEFINE T == {n - x : x \in S}
  <2>1. T \in SUBSET Nat /\ T # {}
    <3>1. \A x \in S : n - x \in Nat
      OBVIOUS
    <3> QED
      BY <3>1
  <2>2. PICK z \in T : \A y \in T : z <= y
    BY <2>1, Smallest
  <2>3. PICK x \in S : z = n - x
    OBVIOUS
  <2>4. ASSUME NEW y \in S PROVE x >= y
    <3>1. n - y \in T
      OBVIOUS
    <3> QED
      BY <2>2, <2>3, <3>1
  <2> QED
    BY <2>4
<1>2. Max(S) \in S /\ \A y \in S : Max(S) >= y
  BY <1>1 DEF Max
<1> QED
  BY <1>2

\* The Step starts before a position.
Starts(es, i) == Kinds(es, {"StepStarted"}, 0, i)

\* The current Step's start is the last one before the position.
LEMMA StepAtLast ==
    ASSUME NEW es \in Seq(Events), NEW i \in 1..Len(es), Starts(es, i) # {}
    PROVE  StepAt(es, i) \in Starts(es, i) /\ \A y \in Starts(es, i) : y <= StepAt(es, i)
<1>1. Starts(es, i) \in SUBSET (1..Len(es)) /\ Len(es) \in Nat
  BY LenProperties DEF Starts, Kinds
<1>2. StepAt(es, i) = Max(Starts(es, i))
  BY DEF StepAt, Starts
<1> QED
  BY <1>1, <1>2, MaxOf

\* A start that no other follows before the position is the current Step's.
LEMMA StepAtIs ==
    ASSUME NEW es \in Seq(Events), NEW i \in 1..Len(es), NEW q \in Starts(es, i),
           \A y \in Starts(es, i) : y <= q
    PROVE  StepAt(es, i) = q
<1>1. Starts(es, i) # {}
  OBVIOUS
<1>2. StepAt(es, i) \in Starts(es, i) /\ q <= StepAt(es, i) /\ StepAt(es, i) <= q
  BY <1>1, StepAtLast
<1> QED
  BY <1>2 DEF Starts, Kinds

\* Between two starts in a row the reader found the opening and the completion that names it.
LEMMA StepDone ==
    ASSUME NEW es \in Seq(Events), Verified(es), NEW q2 \in 1..Len(es), es[q2].kind = "StepStarted",
           NEW q \in Starts(es, q2), StepAt(es, q2) = q
    PROVE  \E o, j \in 1..Len(es) :
               /\ es[o].kind = "ModelOpeningAdmitted" /\ es[o].step = es[q].step
               /\ es[j].kind = "StepCompleted" /\ es[j].open = o
<1>1. Len(es) \in Nat /\ q \in 1..(q2 - 1) /\ es[q].kind = "StepStarted"
  BY LenProperties DEF Starts, Kinds
<1>2. \A y \in Starts(es, q2) : y <= q
  BY StepAtLast
<1>3. \A i \in (q + 1)..(q2 - 1) : StepAt(es, i) = q
  <2> TAKE i \in (q + 1)..(q2 - 1)
  <2>1. i \in 1..Len(es) /\ q \in Starts(es, i)
    BY <1>1 DEF Starts, Kinds
  <2>2. \A y \in Starts(es, i) : y <= q
    BY <1>1, <1>2 DEF Starts, Kinds
  <2> QED
    BY <2>1, <2>2, StepAtIs
<1>4. StepStartedOk(es, q2)
  BY DEF Verified
<1>5. StepState(es, q2) = "Completed"
  BY <1>4 DEF StepStartedOk, Starts
<1>6. OfStep(es, q2, "StepCompleted") # {}
  BY <1>5 DEF StepState
<1>7. PICK j \in (q + 1)..(q2 - 1) : es[j].kind = "StepCompleted"
  BY <1>6 DEF OfStep, Kinds
<1>8. j \in 1..Len(es)
  BY <1>1
<1>9. CompletedOk(es, j)
  BY <1>7, <1>8 DEF Verified
<1>10. OfStep(es, j, "ModelOpeningAdmitted") = {es[j].open}
  BY <1>9 DEF CompletedOk
<1>11. PICK o \in (q + 1)..(j - 1) : es[o].kind = "ModelOpeningAdmitted" /\ es[j].open = o
  BY <1>3, <1>10 DEF OfStep, Kinds
<1>12. o \in (q + 1)..(q2 - 1) /\ o \in 1..Len(es)
  BY <1>1
<1>13. OpeningOk(es, o)
  BY <1>11, <1>12 DEF Verified
<1>14. es[o].step = es[q].step
  BY <1>3, <1>12, <1>13 DEF OpeningOk
<1> QED
  BY <1>7, <1>8, <1>11, <1>12, <1>14

\* Steps start in the order of their numbers: each smaller number has its start, followed
\* by another.
LEMMA StartsInOrder ==
    ASSUME NEW es \in Seq(Events), Verified(es), NEW p \in 1..Len(es), es[p].kind = "StepStarted",
           NEW t \in Nat, t < es[p].step
    PROVE  \E q2 \in 1..Len(es) : /\ es[q2].kind = "StepStarted" /\ StepAt(es, q2) \in Starts(es, q2)
                                  /\ es[StepAt(es, q2)].step = t
<1>1. Len(es) \in Nat /\ \A i \in 1..Len(es) : es[i].step \in Nat
  <2>1. \A i \in 1..Len(es) : es[i] \in Events
    BY ElementOfSeq
  <2> QED
    BY <2>1, LenProperties, StepsType DEF Events
<1>2. \A i \in 1..Len(es) : es[i].kind = "StepStarted" => es[i].step = Cardinality(Starts(es, i))
  BY DEF Verified, StepStartedOk, Starts
<1> DEFINE S == {i \in 1..Len(es) : es[i].kind = "StepStarted" /\ es[i].step > t}
<1>3. PICK q2 \in S : \A y \in S : q2 <= y
  <2>1. S \in SUBSET Nat /\ S # {}
    OBVIOUS
  <2> QED
    BY <2>1, Smallest
<1>4. es[q2].step > t /\ es[q2].kind = "StepStarted" /\ q2 \in 1..Len(es)
  OBVIOUS
<1>5. Starts(es, q2) # {}
  <2>1. Cardinality(Starts(es, q2)) # 0
    BY <1>1, <1>2, <1>4
  <2> QED
    BY <2>1, FS_EmptySet
<1>6. PICK q \in Starts(es, q2) : q = StepAt(es, q2) /\ \A y \in Starts(es, q2) : y <= q
  BY <1>4, <1>5, StepAtLast
<1>7. q \in 1..Len(es) /\ q < q2 /\ es[q].kind = "StepStarted"
  BY <1>1, <1>4 DEF Starts, Kinds
<1>8. ~(es[q].step > t)
  BY <1>1, <1>3, <1>7
<1>9. Starts(es, q2) = Starts(es, q) \cup {q} /\ q \notin Starts(es, q)
  BY <1>1, <1>4, <1>6, <1>7 DEF Starts, Kinds
<1>10. Cardinality(Starts(es, q2)) = Cardinality(Starts(es, q)) + 1
  <2>1. IsFiniteSet(1..q) /\ Starts(es, q) \subseteq 1..q
    <3>1. q \in Int /\ 1 \in Int
      BY <1>7
    <3>2. IsFiniteSet(1..q)
      BY <3>1, FS_Interval
    <3>3. Starts(es, q) \subseteq 1..q
      BY <3>1 DEF Starts, Kinds
    <3> QED
      BY <3>2, <3>3
  <2>2. IsFiniteSet(Starts(es, q))
    BY <2>1, FS_Subset
  <2> QED
    BY <1>9, <2>2, FS_AddElement
<1>11. es[q].step = t
  BY <1>1, <1>2, <1>4, <1>7, <1>8, <1>10
<1> QED
  BY <1>4, <1>6, <1>11

\* An accepted opening of a Step leaves no earlier Step unfinished.
LEMMA EarlierDone ==
    ASSUME TypeOK, NEW s \in Steps, NEW i0 \in Openings(s), Verified(Through(i0)), NEW t \in Steps, t < s
    PROVE  \E o \in Openings(t), j \in 1..Len(ledger) : ledger[j].kind = "StepCompleted" /\ ledger[j].open = o
<1>1. i0 \in 1..Len(ledger) /\ ledger[i0].kind = "ModelOpeningAdmitted" /\ ledger[i0].step = s
  BY DEF Openings
<1>2. PICK es \in Seq(Events) : /\ es = Through(i0) /\ Len(es) = i0 /\ Len(ledger) \in Nat
                                /\ \A k \in 1..i0 : es[k] = ledger[k]
  <2>1. ledger \in Seq(Events) /\ Len(ledger) \in Nat /\ i0 \in 1..(Len(ledger) + 1)
    BY <1>1, LenProperties DEF TypeOK
  <2>2. /\ SubSeq(ledger, 1, i0) \in Seq(Events) /\ Len(SubSeq(ledger, 1, i0)) = i0
        /\ \A k \in 1..i0 : SubSeq(ledger, 1, i0)[k] = ledger[k]
    BY <1>1, <2>1
  <2> QED
    BY <2>1, <2>2 DEF Through
<1>3. Verified(es) /\ i0 \in 1..Len(es) /\ es[i0] = ledger[i0]
  BY <1>1, <1>2
<1>4. OpeningOk(es, i0)
  BY <1>1, <1>3 DEF Verified
<1>5. StepAt(es, i0) # 0 /\ es[i0].step = es[StepAt(es, i0)].step
  BY <1>4 DEF OpeningOk
<1>6. Starts(es, i0) # {}
  BY <1>5 DEF StepAt, Starts
<1>7. PICK p \in Starts(es, i0) : p = StepAt(es, i0)
  BY <1>3, <1>6, StepAtLast
<1>8. p \in 1..Len(es) /\ es[p].kind = "StepStarted" /\ es[p].step = s
  BY <1>1, <1>3, <1>5, <1>7 DEF Starts, Kinds
<1>9. t \in Nat
  BY StepsType
<1>10. PICK q2 \in 1..Len(es) : /\ es[q2].kind = "StepStarted" /\ StepAt(es, q2) \in Starts(es, q2)
                                /\ es[StepAt(es, q2)].step = t
  BY <1>3, <1>8, <1>9, StartsInOrder
<1>11. PICK q \in Starts(es, q2) : q = StepAt(es, q2) /\ es[q].step = t
  BY <1>10
<1>12. PICK o, j \in 1..Len(es) : /\ es[o].kind = "ModelOpeningAdmitted" /\ es[o].step = es[q].step
                                  /\ es[j].kind = "StepCompleted" /\ es[j].open = o
  BY <1>3, <1>10, <1>11, StepDone
<1>13. o \in 1..Len(ledger) /\ j \in 1..Len(ledger) /\ ledger[o] = es[o] /\ ledger[j] = es[j]
  BY <1>1, <1>2
<1>14. o \in Openings(t) /\ ledger[j].kind = "StepCompleted" /\ ledger[j].open = o
  BY <1>11, <1>12, <1>13 DEF Openings
<1> QED
  BY <1>13, <1>14

\* The Step property, of one step.
PastUncertain ==
    \A s \in Steps : gen'[s] > gen[s] =>
        \A t \in Steps : \A i \in Openings(t) :
            t < s => \E j \in 1..Len(ledger) : ledger[j].kind = "StepCompleted" /\ ledger[j].open = i

\* Only generate enters a generation.
LEMMA OnlyGenerate ==
    ASSUME TypeOK, [Next]_vars, gen' # gen
    PROVE  \E a \in Attempts : Generate(a)
<1>1. \A a \in Attempts, s \in Steps : ~FromAdmission(a, s)
  BY DEF FromAdmission
<1>2. \A a \in Attempts : /\ ~RecordStep(a) /\ ~RecordRequest(a) /\ ~StreamEvent(a) /\ ~RecordCompletion(a)
                          /\ ~RecordRequested(a) /\ ~Begin(a) /\ ~Prepare(a) /\ ~RecordCompleted(a)
  BY DEF RecordStep, RecordRequest, StreamEvent, RecordCompletion, RecordRequested, Begin, Prepare,
         RecordCompleted
<1>3. \A a \in Attempts : ~Stop(a) /\ ~StreamEnd(a) /\ ~Finish(a) /\ ~Cancel(a) /\ ~Crash(a)
  BY DEF Stop, StreamEnd, Finish, Cancel, Crash
<1>4. \A a \in Attempts : ~WorkerInspect(a) /\ ~WorkerFact(a) /\ ~WorkerAppend(a) /\ ~WorkerAdmit(a)
                          /\ ~WorkerConsume(a)
  BY DEF WorkerInspect, WorkerFact, WorkerAppend, WorkerAdmit, WorkerConsume
<1>5. ~CancelExecution /\ ~Expire /\ ~UNCHANGED vars
  BY DEF CancelExecution, Expire, vars
<1>6. \A a \in Attempts : ~Worker(a)
  BY <1>4 DEF Worker
<1>7. \A a \in Attempts : Turn(a) => Generate(a)
  BY <1>2, <1>3 DEF Turn
<1> QED
  BY <1>1, <1>2, <1>3, <1>5, <1>6, <1>7 DEF Next

\* A generation starts only when every earlier Step's opening is known to have completed:
\* record_requested and the chain read back before Admitted refuse an Uncertain one.
THEOREM UncertainIsNotPassed == Spec => NoGenerationPastUncertain
<1>1. TypeOK /\ OneShot /\ [Next]_vars => PastUncertain
  <2> SUFFICES ASSUME TypeOK, OneShot, [Next]_vars, NEW s \in Steps, gen'[s] > gen[s],
                      NEW t \in Steps, NEW i \in Openings(t), t < s
               PROVE  \E j \in 1..Len(ledger) : ledger[j].kind = "StepCompleted" /\ ledger[j].open = i
    BY DEF PastUncertain
  <2>1. gen' # gen
    BY DEF TypeOK
  <2>2. PICK a \in Attempts : Generate(a)
    BY <2>1, OnlyGenerate
  <2>3. /\ wrk[a].pc = "done" /\ drv[a].pc = "store" /\ drv[a].s \in Steps
        /\ gen' = [gen EXCEPT ![drv[a].s] = gen[drv[a].s] + 1]
    BY <2>1, <2>2 DEF Generate, TypeOK, Positions
  <2>4. s = drv[a].s
    BY <2>3 DEF TypeOK
  <2>5. Busy(a, s)
    BY <2>3, <2>4 DEF OneShot, Orderly, Owning
  <2>6. Holder(a, s)
    BY <2>3, <2>5 DEF Holder
  <2>7. PICK i0 \in Openings(s) : Verified(Through(i0))
    BY <2>3, <2>6 DEF OneShot, Permit
  <2>8. PICK o \in Openings(t), j \in 1..Len(ledger) : ledger[j].kind = "StepCompleted" /\ ledger[j].open = o
    BY <2>7, EarlierDone
  <2>9. o = i
    BY DEF OneShot, OpeningsUnique
  <2> QED
    BY <2>8, <2>9
<1>2. [][PastUncertain]_vars => NoGenerationPastUncertain
  BY PTL DEF NoGenerationPastUncertain, PastUncertain
<1>3. Spec => [](TypeOK /\ OneShot)
  BY OneShotInvariant
<1>4. Spec => [][Next]_vars
  BY PTL DEF Spec
<1> QED
  BY <1>1, <1>2, <1>3, <1>4, PTL

----------------------------------------------------------------------------
\* The call that a generation makes: ModelCall, in the process of one attempt.

CONSTANTS Configs, Answers, Quantum
VARIABLES cfg, net, body, prov, step, result, stop, sent
Call == INSTANCE ModelCall

\* The larger of the budgets of the two kinds of retry.
Budget == IF cfg.retries > cfg.transport THEN cfg.retries ELSE cfg.transport

\* The phases of the loop and what it has counted in each: a request on the wire is not in
\* the report yet, and only a retry that is in the budget sleeps.
Counted ==
    /\ net.sends \in Nat /\ net.retries \in Nat /\ net.report \in Nat
    /\ net.phase \in {"open", "sent", "body", "sleep", "stream", "failed", "stopped"}
    /\ net.phase \in {"open", "sleep", "stream", "failed"} => net.report = net.sends
    /\ net.phase \in {"sent", "body"} => net.sends = net.report + 1
    /\ net.phase = "open" => net.sends = net.retries
    /\ net.phase \in {"sent", "body", "sleep"} => net.sends = net.retries + 1
    /\ net.retries <= Budget /\ net.sends <= Budget + 1
    /\ net.phase = "sleep" => net.retries < Budget

\* The record of the loop, its clock and the last time a request was sent.
NetFields == {"phase", "sends", "retries", "elapsed", "delay", "report", "answer", "end", "sentAt"}
Loop ==
    /\ cfg \in Configs
    /\ net = [f \in NetFields |-> net[f]]
    /\ Counted
    /\ Call!Bounded /\ net.sends > 0 => net.sentAt < cfg.window

\* What a step of the loop may do.
LEMMA RetrySound ==
    ASSUME \A c \in Configs : Call!ValidPolicy(c), Loop, net.phase \in {"sent", "body"},
           NEW n, n \in {net, [net EXCEPT !.answer = "none"]}, NEW d,
           d.stop = "none" => net.retries < Budget,
           Call!Retry(n, d), cfg' = cfg
    PROVE  Loop'
<1>1. cfg.retries \in Nat /\ cfg.transport \in Nat
  BY DEF Loop, Call!ValidPolicy
<1>2. Budget \in Nat /\ Budget' = Budget
  BY <1>1 DEF Budget
<1>3. \/ \E why : net' = [[n EXCEPT !.report = @ + 1] EXCEPT !.phase = "failed", !.end = why]
      \/ /\ d.stop = "none"
         /\ net' = [[n EXCEPT !.report = @ + 1] EXCEPT !.phase = "sleep", !.delay = d.delay]
  BY DEF Call!Retry, Call!Failed, Call!Observe
<1>4. /\ net'.sends = net.sends /\ net'.retries = net.retries /\ net'.report = net.report + 1
      /\ net'.sentAt = net.sentAt /\ net' = [f \in NetFields |-> net'[f]]
      /\ \/ net'.phase = "failed"
         \/ net'.phase = "sleep" /\ d.stop = "none"
  <2>1. /\ n = [f \in NetFields |-> n[f]] /\ n.sends = net.sends /\ n.retries = net.retries
        /\ n.report = net.report /\ n.sentAt = net.sentAt
    BY DEF Loop, NetFields
  <2>2. CASE \E why : net' = [[n EXCEPT !.report = @ + 1] EXCEPT !.phase = "failed", !.end = why]
    BY <2>1, <2>2 DEF NetFields
  <2>3. CASE /\ d.stop = "none"
             /\ net' = [[n EXCEPT !.report = @ + 1] EXCEPT !.phase = "sleep", !.delay = d.delay]
    BY <2>1, <2>3 DEF NetFields
  <2> QED
    BY <1>3, <2>2, <2>3
<1>5. Counted'
  BY <1>2, <1>4 DEF Loop, Counted
<1> QED
  BY <1>4, <1>5 DEF Loop, Call!Bounded, Counted

\* A status is retried within its own budget.
LEMMA DecideInBudget ==
    ASSUME \A c \in Configs : Call!ValidPolicy(c), Loop, NEW a, NEW jitter,
           Call!Decide(a, jitter).stop = "none"
    PROVE  net.retries < Budget
<1>1. cfg.retries \in Nat /\ cfg.transport \in Nat /\ net.retries \in Nat
  BY DEF Loop, Counted, Call!ValidPolicy
<1>2. ~(net.retries >= cfg.retries)
  BY DEF Call!Decide
<1> QED
  BY <1>1, <1>2 DEF Budget

\* So is a transport failure.
LEMMA TransportInBudget ==
    ASSUME \A c \in Configs : Call!ValidPolicy(c), Loop, NEW eligible \in BOOLEAN,
           Call!DecideTransport(eligible).stop = "none"
    PROVE  net.retries < Budget
<1>1. cfg.retries \in Nat /\ cfg.transport \in Nat /\ net.retries \in Nat
  BY DEF Loop, Counted, Call!ValidPolicy
<1>2. net.retries < cfg.transport
  BY DEF Call!DecideTransport
<1> QED
  BY <1>1, <1>2 DEF Budget

\* Whatever the loop does, it keeps its count.
LEMMA LoopHolds ==
    ASSUME \A c \in Configs : Call!ValidPolicy(c), Loop, [Call!Next]_(Call!vars)
    PROVE  Loop'
<1>1. cfg.retries \in Nat /\ cfg.transport \in Nat /\ cfg.window \in Nat
  BY DEF Loop, Call!ValidPolicy
<1>2. Budget \in Nat /\ (cfg' = cfg => Budget' = Budget)
  BY <1>1 DEF Budget
<1>3. CASE UNCHANGED <<cfg, net>>
  BY <1>3 DEF Loop, Counted, Budget, Call!Bounded
<1>4. CASE Call!Send
  <2>1. cfg' = cfg /\ net.phase = "open"
    BY <1>4 DEF Call!Send, Call!Rest
  <2>2. CASE net' = [net EXCEPT !.phase = "failed", !.end = "ElapsedLimit"]
    <3>1. /\ net'.sends = net.sends /\ net'.retries = net.retries /\ net'.report = net.report
          /\ net'.sentAt = net.sentAt /\ net' = [f \in NetFields |-> net'[f]] /\ net'.phase = "failed"
      BY <2>2 DEF Loop, NetFields
    <3> QED
      BY <1>2, <2>1, <3>1 DEF Loop, Counted, Call!Bounded
  <2>3. CASE /\ net' = [net EXCEPT !.phase = "sent", !.sends = @ + 1, !.sentAt = net.elapsed]
             /\ ~(Call!Bounded /\ Call!Remaining = 0)
    <3>1. /\ net'.sends = net.sends + 1 /\ net'.retries = net.retries /\ net'.report = net.report
          /\ net'.sentAt = net.elapsed /\ net' = [f \in NetFields |-> net'[f]] /\ net'.phase = "sent"
      BY <2>3 DEF Loop, NetFields
    <3>2. Call!Bounded' => net.elapsed < cfg.window
      BY <2>1, <2>3 DEF Call!Remaining, Call!Bounded
    <3> QED
      BY <1>2, <2>1, <3>1, <3>2 DEF Loop, Counted
  <2> QED
    BY <1>4, <2>2, <2>3 DEF Call!Send, Call!Failed
<1>5. CASE Call!BudgetStop \/ Call!Success
  <2>1. /\ cfg' = cfg /\ net.phase \in {"sent", "body"}
        /\ \/ net' = [[net EXCEPT !.report = @ + 1] EXCEPT !.phase = "failed", !.end = "ElapsedLimit"]
           \/ net' = [[net EXCEPT !.report = @ + 1] EXCEPT !.phase = "stream"]
    BY <1>5 DEF Call!BudgetStop, Call!Success, Call!Rest, Call!Failed, Call!Observe
  <2>2. /\ net'.sends = net.sends /\ net'.retries = net.retries /\ net'.report = net.report + 1
        /\ net'.sentAt = net.sentAt /\ net' = [f \in NetFields |-> net'[f]]
        /\ net'.phase \in {"failed", "stream"}
    BY <2>1 DEF Loop, NetFields
  <2> QED
    BY <1>2, <2>1, <2>2 DEF Loop, Counted, Call!Bounded
<1>6. CASE Call!ErrorStatus \/ Call!Tick \/ Call!StopOpening
  <2>1. cfg' = cfg
    BY <1>6 DEF Call!ErrorStatus, Call!Tick, Call!StopOpening, Call!Rest
  <2>2. /\ net'.sends = net.sends /\ net'.retries = net.retries /\ net'.report = net.report
        /\ net'.sentAt = net.sentAt /\ net' = [f \in NetFields |-> net'[f]]
        /\ \/ net'.phase = net.phase
           \/ net'.phase = "body" /\ net.phase = "sent"
           \/ net'.phase = "stopped"
    BY <1>6 DEF Call!ErrorStatus, Call!Tick, Call!StopOpening, Loop, NetFields
  <2> QED
    BY <1>2, <2>1, <2>2 DEF Loop, Counted, Call!Bounded
<1>7. CASE Call!DecideStatus
  <2>1. PICK jitter \in {75, 100} :
            Call!Retry([net EXCEPT !.answer = "none"], Call!Decide(net.answer, jitter))
    BY <1>7 DEF Call!DecideStatus
  <2>2. cfg' = cfg /\ net.phase = "body"
    BY <1>7 DEF Call!DecideStatus, Call!Rest
  <2> DEFINE d == Call!Decide(net.answer, jitter)
  <2>3. d.stop = "none" => net.retries < Budget
    BY DecideInBudget
  <2> HIDE DEF d
  <2> QED
    BY <2>1, <2>2, <2>3, RetrySound DEF d
<1>8. CASE Call!TransportError
  <2>1. PICK eligible \in BOOLEAN : Call!Retry(net, Call!DecideTransport(eligible))
    BY <1>8 DEF Call!TransportError
  <2>2. cfg' = cfg /\ net.phase = "sent"
    BY <1>8 DEF Call!TransportError, Call!Rest
  <2>3. Call!DecideTransport(eligible).stop = "none" => net.retries < Budget
    BY TransportInBudget
  <2> QED
    BY <2>1, <2>2, <2>3, RetrySound
<1>9. CASE Call!Wake
  <2>1. cfg' = cfg /\ net.phase = "sleep"
    BY <1>9 DEF Call!Wake, Call!Rest
  <2> DEFINE n == [net EXCEPT !.elapsed = @ + net.delay, !.delay = 0]
  <2>2. \/ net' = [n EXCEPT !.phase = "failed", !.end = "ElapsedLimit"]
        \/ net' = [n EXCEPT !.phase = "open", !.retries = @ + 1]
    BY <1>9 DEF Call!Wake, Call!Failed
  <2>3. /\ net'.sends = net.sends /\ net'.report = net.report
        /\ net'.sentAt = net.sentAt /\ net' = [f \in NetFields |-> net'[f]]
        /\ \/ net'.phase = "failed" /\ net'.retries = net.retries
           \/ net'.phase = "open" /\ net'.retries = net.retries + 1
    BY <2>2 DEF Loop, NetFields
  <2> QED
    BY <1>2, <2>1, <2>3 DEF Loop, Counted, Call!Bounded
<1>10. Call!Wire => UNCHANGED <<cfg, net>>
  BY DEF Call!Wire, Call!Chunk, Call!BodyError, Call!Eof, Call!Deferred, Call!Unfinished, Call!Skip,
         Call!Garbage, Call!Map, Call!StreamError
<1>11. Call!Poll => UNCHANGED <<cfg, net>>
  BY DEF Call!Poll, Call!PollStart, Call!PollStop, Call!PollEvent, Call!PollError, Call!InvalidOutput,
         Call!InvalidStep, Call!PollCompleted, Call!PollEnd, Call!Recorded, Call!StreamError
<1>12. (\E s \in {"Cancelled", "TimedOut"} : Call!Fire(s)) => UNCHANGED <<cfg, net>>
  BY DEF Call!Fire
<1>13. UNCHANGED Call!vars => UNCHANGED <<cfg, net>>
  BY DEF Call!vars
<1> QED
  BY <1>3, <1>4, <1>5, <1>6, <1>7, <1>8, <1>9, <1>10, <1>11, <1>12, <1>13 DEF Call!Next, Call!Http

\* Every request that leaves the machine is in the retry report when the loop is over, the
\* two kinds of retry together stay within the larger budget, and no request leaves after
\* the opening window (HttpRetryPolicy and the loops of the two clients).
THEOREM SendsAreSound ==
    ASSUME \A c \in Configs : Call!ValidPolicy(c)
    PROVE  Call!Spec => []Call!SendsSound
<1>1. Call!Init => Loop
  <2> SUFFICES ASSUME Call!Init
               PROVE  Loop
    OBVIOUS
  <2>1. cfg.retries \in Nat /\ cfg.transport \in Nat
    BY DEF Call!Init, Call!ValidPolicy
  <2>2. Budget \in Nat
    BY <2>1 DEF Budget
  <2> QED
    BY <2>2 DEF Call!Init, Loop, Counted, NetFields
<1>2. Loop /\ [Call!Next]_(Call!vars) => Loop'
  BY LoopHolds
<1>3. Loop => Call!SendsSound
  <2> SUFFICES ASSUME Loop
               PROVE  Call!SendsSound
    OBVIOUS
  <2>1. Call!SendsAccounted
    BY DEF Loop, Counted, Budget, Call!SendsAccounted, Call!ValidPolicy
  <2>2. Call!SendsInsideWindow
    BY DEF Loop, Call!SendsInsideWindow
  <2> QED
    BY <2>1, <2>2 DEF Call!SendsSound
<1> QED
  BY <1>1, <1>2, <1>3, PTL DEF Call!Spec

\* A Step whose boundary has fired does not answer: PollEnd alone does, which reads the stop
\* in the same poll (ControlledStepStream), and what PollStop reports is never an answer.
THEOREM StopIsNotOvertaken == Call!Spec => Call!StopWins
<1> DEFINE Stops == stop \in {"none", "Cancelled", "TimedOut"}
<1>1. Call!Init => Stops
  BY DEF Call!Init
<1>2. Stops /\ [Call!Next]_(Call!vars) => Stops'
  <2> SUFFICES ASSUME Stops, [Call!Next]_(Call!vars)
               PROVE  stop' = stop \/ \E s \in {"Cancelled", "TimedOut"} : stop' = s
    OBVIOUS
  <2>1. Call!Http => stop' = stop
    BY DEF Call!Http, Call!Send, Call!BudgetStop, Call!Success, Call!ErrorStatus, Call!DecideStatus,
           Call!TransportError, Call!Wake, Call!Tick, Call!Retry, Call!Failed
  <2>2. Call!Wire => stop' = stop
    BY DEF Call!Wire, Call!Chunk, Call!BodyError, Call!Eof, Call!Deferred, Call!Unfinished, Call!Skip,
           Call!Garbage, Call!Map, Call!StreamError
  <2>3. Call!Poll => stop' = stop
    BY DEF Call!Poll, Call!PollStart, Call!PollStop, Call!PollEvent, Call!PollError, Call!InvalidOutput,
           Call!InvalidStep, Call!PollCompleted, Call!PollEnd, Call!Recorded, Call!StreamError
  <2>4. Call!StopOpening \/ UNCHANGED Call!vars => stop' = stop
    BY DEF Call!StopOpening, Call!vars
  <2> QED
    BY <2>1, <2>2, <2>3, <2>4 DEF Call!Next, Call!Fire
<1>3. Stops /\ [Call!Next]_(Call!vars) => [result' = "ok" /\ result # "ok" => stop = "none"]_(Call!vars)
  <2> SUFFICES ASSUME Stops, [Call!Next]_(Call!vars), result' = "ok", result # "ok"
               PROVE  stop = "none"
    OBVIOUS
  <2>1. ~Call!Http
    BY DEF Call!Http, Call!Send, Call!BudgetStop, Call!Success, Call!ErrorStatus, Call!DecideStatus,
           Call!TransportError, Call!Wake, Call!Tick, Call!Retry, Call!Failed
  <2>2. ~Call!Wire
    BY DEF Call!Wire, Call!Chunk, Call!BodyError, Call!Eof, Call!Deferred, Call!Unfinished, Call!Skip,
           Call!Garbage, Call!Map, Call!StreamError
  <2>3. ~Call!StopOpening /\ ~\E s \in {"Cancelled", "TimedOut"} : Call!Fire(s)
    BY DEF Call!StopOpening, Call!Fire
  <2>4. Call!PollStop => FALSE
    BY DEF Call!PollStop
  <2>5. Call!Poll => stop = "none"
    BY <2>4 DEF Call!Poll, Call!PollStart, Call!PollEvent, Call!PollError, Call!InvalidOutput,
           Call!InvalidStep, Call!PollCompleted, Call!PollEnd, Call!Recorded, Call!StreamError
  <2> QED
    BY <2>1, <2>2, <2>3, <2>5 DEF Call!Next, Call!vars
<1> QED
  BY <1>1, <1>2, <1>3, PTL DEF Call!Spec, Call!StopWins
=============================================================================
