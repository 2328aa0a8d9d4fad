--------------------------- MODULE DelegationProofs ---------------------------
(***************************************************************************)
(* Proofs about Delegation for every number of children, host calls and    *)
(* crashes and every host budget: a child runs only after the whole        *)
(* admission, once, and beside what it may; the root sees the join of its  *)
(* children; a verdict rests on ended invocations; a Task that is over     *)
(* starts nothing.                                                         *)
(***************************************************************************)
EXTENDS Delegation, FiniteSetTheorems, WellFoundedInduction, TLAPS

----------------------------------------------------------------------------
\* Types.

GateSet == {"task", "invocation", "host"}
Permitted == {"recheck", "go", "run"}
Places == GateSet \cup Permitted \cup {"none", "todo", "enter", "load", "done", "waiting", "error"}
AttStates == Ended \cup {"none", "Running", "Suspended", "RecoveryRequired"}
Admissions == [pc : {"idle", "child", "commit", "verify"}, child : Children,
               out : {"none", "denied", "uncertain", "wait", "stranded"},
               fact : {"none", "serialized", "parallel"}, kids : SUBSET Children,
               ask : {"due", "no", "pending", "granted"}]
HostCalls == [kind : {"none", "start", "approve", "pump"},
              pc : {"idle", "root", "drive", "consume", "resume"},
              child : Execs, result : {"none", "ok", "error"}]

Types ==
    /\ cfg \in Configs /\ task \in {"Active"} \cup Ended
    /\ att \in [Execs -> AttStates] /\ creq \in [Execs -> BOOLEAN]
    /\ stage \in [Children -> 0..Linked] /\ adm \in Admissions
    /\ consumed \in [Children -> Ended \cup {"none"}] /\ answer \in {"none", "ok", "error"}
    /\ call \in [Calls -> HostCalls] /\ job \in [Calls -> [Execs -> Places]]
    /\ runs \in [Execs -> 0..1] /\ used \in [calls : 0..cfg.calls, crashes : 0..cfg.crashes]

\* How far the worker got is what the stores hold.
Admits ==
    /\ adm.pc = "idle" /\ adm.out = "none" =>
         adm.child = 1 /\ ~Admitted /\ \A c \in Children : stage[c] = 0
    /\ adm.pc = "child" =>
         /\ ~Admitted /\ stage[adm.child] < Linked
         /\ \A c \in Children : (c < adm.child => stage[c] = Linked) /\ (c > adm.child => stage[c] = 0)
    /\ adm.pc = "commit" => ~Admitted
    /\ Admitted \/ adm.pc \in {"commit", "verify"} => \A c \in Children : stage[c] = Linked

\* Who runs an execution does so alone, and no child comes that far before the
\* admission.
Attempts ==
    /\ \A k \in Calls, i \in Execs : job[k][i] = "run" => att[i] = "Running"
    /\ \A k, l \in Calls, i \in Execs : job[k][i] = "run" /\ job[l][i] = "run" => k = l
    /\ \A k \in Calls, c \in Children :
         /\ job[k][c] \in GateSet \cup Permitted => Admitted
         /\ job[k][c] = "done" => att[c] \in Ended
    /\ \A c \in Children : att[c] # "none" => Admitted
    /\ \A i \in Execs : att[i] = "none" => runs[i] = 0

\* The children a call drives are the first ones; it consumes when all ended.
Driven(k) == {c \in Children : job[k][c] # "none"}
FirstOnes(k) == 1 \in Driven(k) /\ \A c \in Driven(k), d \in Children : d < c => d \in Driven(k)
Drives == \A k \in Calls :
    /\ call[k].pc = "drive" /\ call[k].kind = "pump" => FirstOnes(k)
    /\ call[k].pc = "consume" => call[k].child \in Children /\ \A c \in Children : att[c] \in Ended

\* No gate gives out more permits than it has.
Gated == \A g \in GateSet : Held(g) <= Capacity(g)

Inv == Types /\ Admits /\ Attempts /\ Drives /\ Gated /\ RootSeesJoin /\ VerdictBacked

----------------------------------------------------------------------------
\* Gates.

LEMMA GatesAre == /\ Range(Gates) = GateSet /\ DOMAIN Gates = 1..3
                  /\ Gates[1] = "task" /\ Gates[2] = "invocation" /\ Gates[3] = "host"
                  /\ GateOf("task") = 1 /\ GateOf("invocation") = 2 /\ GateOf("host") = 3
<1>1. DOMAIN Gates = 1..3 /\ Gates[1] = "task" /\ Gates[2] = "invocation" /\ Gates[3] = "host"
  BY DEF Gates
<1>2. Range(Gates) = GateSet
  <2>1. \A g \in GateSet : \E n \in 1..3 : Gates[n] = g
    BY <1>1 DEF GateSet
  <2>2. \A n \in 1..3 : Gates[n] \in GateSet
    BY <1>1 DEF GateSet
  <2> QED
    BY <1>1, <2>1, <2>2 DEF Range
<1>3. \A n \in 1..3 : n = 1 \/ n = 2 \/ n = 3
  OBVIOUS
<1> HIDE DEF Gates
<1>4. GateOf("task") = 1 /\ GateOf("invocation") = 2 /\ GateOf("host") = 3
  BY <1>1, <1>3 DEF GateOf
<1> QED
  BY <1>1, <1>2, <1>4

\* A gate is held behind it.
Behind(p, g) ==
    \/ p \in Permitted
    \/ g = "task" /\ p \in {"invocation", "host"}
    \/ g = "invocation" /\ p = "host"

LEMMA HoldsIs ==
    ASSUME NEW k, NEW i, NEW g \in GateSet
    PROVE  Holds(k, i, g) <=> Applies(i, g) /\ Behind(job[k][i], g)
<1>1. \A n \in 1..3 : n = 1 \/ n = 2 \/ n = 3
  OBVIOUS
<1>2. (\E n \in DOMAIN Gates : Gates[n] = job[k][i] /\ GateOf(g) < n)
        <=> \/ g = "task" /\ job[k][i] \in {"invocation", "host"}
            \/ g = "invocation" /\ job[k][i] = "host"
  <2>1. CASE g = "task"
    BY <1>1, <2>1, GatesAre
  <2>2. CASE g = "invocation"
    BY <1>1, <2>2, GatesAre
  <2>3. CASE g = "host"
    BY <1>1, <2>3, GatesAre
  <2> QED
    BY <2>1, <2>2, <2>3 DEF GateSet
<1> QED
  BY <1>2 DEF Holds, Behind, Permitted

LEMMA HoldsIsNext ==
    ASSUME NEW k, NEW i, NEW g \in GateSet
    PROVE  Holds(k, i, g)' <=> Applies(i, g)' /\ Behind(job[k][i]', g)
<1>1. \A n \in 1..3 : n = 1 \/ n = 2 \/ n = 3
  OBVIOUS
<1>2. (\E n \in DOMAIN Gates : Gates[n] = job'[k][i] /\ GateOf(g) < n)
        <=> \/ g = "task" /\ job'[k][i] \in {"invocation", "host"}
            \/ g = "invocation" /\ job'[k][i] = "host"
  <2>1. CASE g = "task"
    BY <1>1, <2>1, GatesAre
  <2>2. CASE g = "invocation"
    BY <1>1, <2>2, GatesAre
  <2>3. CASE g = "host"
    BY <1>1, <2>3, GatesAre
  <2> QED
    BY <2>1, <2>2, <2>3 DEF GateSet
<1> QED
  BY <1>2 DEF Holds, Behind, Permitted

LEMMA NextGateIs ==
    ASSUME NEW i, NEW n \in 0..3
    PROVE  NextGate(i, n) = IF n < 1 /\ Applies(i, "task") THEN "task"
                            ELSE IF n < 2 /\ Applies(i, "invocation") THEN "invocation"
                            ELSE IF n < 3 THEN "host" ELSE "recheck"
<1> DEFINE S == {m \in DOMAIN Gates : m > n /\ Applies(i, Gates[m])}
<1>1. NextGate(i, n) = IF S # {} THEN Gates[Min(S)] ELSE "recheck"
  BY DEF NextGate
<1>2. \A m : m \in S <=> \/ m = 1 /\ n < 1 /\ Applies(i, "task")
                         \/ m = 2 /\ n < 2 /\ Applies(i, "invocation")
                         \/ m = 3 /\ n < 3
  <2>1. \A m \in 1..3 : m = 1 \/ m = 2 \/ m = 3
    OBVIOUS
  <2>2. Applies(i, "host")
    BY DEF Applies
  <2> QED
    BY <2>1, <2>2, GatesAre
<1>3. ASSUME NEW x \in S, \A y \in S : x <= y
      PROVE  Min(S) = x
  <2>0. S \subseteq 1..3
    BY GatesAre
  <2> HIDE DEF S
  <2>1. \A z \in S : (\A y \in S : z <= y) => z = x
    BY <1>3, <2>0
  <2> QED
    BY <1>3, <2>1 DEF Min
<1> HIDE DEF S
<1>4. CASE n < 1 /\ Applies(i, "task")
  <2>1. 1 \in S /\ \A y \in S : 1 <= y
    BY <1>2, <1>4
  <2> QED
    BY <1>1, <1>3, <1>4, <2>1, GatesAre
<1>5. CASE ~(n < 1 /\ Applies(i, "task")) /\ n < 2 /\ Applies(i, "invocation")
  <2>1. 2 \in S /\ \A y \in S : 2 <= y
    BY <1>2, <1>5
  <2>2. Min(S) = 2
    BY <1>3, <2>1
  <2> QED
    BY <1>1, <1>5, <2>1, <2>2, GatesAre
<1>6. CASE ~(n < 1 /\ Applies(i, "task")) /\ ~(n < 2 /\ Applies(i, "invocation")) /\ n < 3
  <2>1. 3 \in S /\ \A y \in S : 3 <= y
    BY <1>2, <1>6
  <2>2. Min(S) = 3
    BY <1>3, <2>1
  <2> QED
    BY <1>1, <1>6, <2>1, <2>2, GatesAre
<1>7. CASE n = 3
  <2>1. S = {}
    BY <1>2, <1>7
  <2> QED
    BY <1>1, <1>7, <2>1
<1> QED
  BY <1>4, <1>5, <1>6, <1>7

----------------------------------------------------------------------------
\* What a step may do.

\* the worker gets on with its children; only it writes the admission
AdmissionMoves ==
    /\ cfg' = cfg /\ adm' \in Admissions /\ stage' \in [Children -> 0..Linked]
    /\ creq' \in [Execs -> BOOLEAN] /\ Admits' /\ (Admitted => Admitted')
    /\ adm'.fact = adm.fact \/ (~Admitted /\ job' = job)
    /\ \A c \in Children : /\ InTask(c) => InTask(c)'
                           /\ InTask(c)' => InTask(c) \/ (task = "Active" /\ task' = task)

\* an attempt begins once, and an ended one stays as it is
AttMoves ==
    /\ att' \in [Execs -> AttStates] /\ runs' \in [Execs -> 0..1]
    /\ \A i \in Execs :
         \/ att'[i] = att[i] /\ runs'[i] = runs[i]
         \/ /\ att[i] = "none" /\ att'[i] = "Running" /\ task = "Active"
            /\ i \in Children => Admitted
         \/ /\ att[i] \notin Ended \cup {"none"} /\ att'[i] # "none" /\ runs'[i] = runs[i]
            /\ att'[i] # "Running" => \A k \in Calls : job'[k][i] # "run"
            /\ att[i] = "Suspended" /\ att'[i] = "Running" => task = "Active" \/ Detached(i)

JobMoves ==
    /\ job' \in [Calls -> [Execs -> Places]]
    /\ \A k \in Calls, i \in Execs :
         \/ job'[k][i] = job[k][i]
         \/ job'[k][i] \in {"none", "todo", "enter", "load", "waiting", "error"}
         \/ job'[k][i] = "done" /\ (i \in Children => att'[i] \in Ended)
         \/ job'[k][i] \in GateSet \cup {"recheck", "go"} /\ (i \in Children => Admitted)
         \/ /\ job'[k][i] = "run" /\ att[i] # "Running" /\ att'[i] = "Running"
            /\ i \in Children => Admitted
            /\ \A l \in Calls \ {k} : job'[l][i] = job[l][i]

\* one more holder of a gate takes permits that are there
HoldMoves ==
    \A g \in GateSet :
      \/ \A k \in Calls, i \in Execs : Holds(k, i, g)' => Holds(k, i, g)
      \/ \E k \in Calls, i \in Execs :
           /\ Held(g) + Permits(i, g) <= Capacity(g)
           /\ \A l \in Calls, j \in Execs : Holds(l, j, g)' => Holds(l, j, g) \/ (l = k /\ j = i)

CallMoves ==
    /\ call' \in [Calls -> HostCalls]
    /\ \A k \in Calls :
         \/ call'[k].pc \notin {"drive", "consume"}
         \/ call'[k].pc = "drive" /\ (call'[k].kind = "pump" => FirstOnes(k)')
         \/ call'[k] = call[k] /\ Driven(k)' = Driven(k)
         \/ /\ call'[k].pc = "consume" /\ call'[k].child \in Children
            /\ call[k].pc = "consume" \/ \A c \in Children : att[c] \in Ended

TaskMoves ==
    /\ task' \in {"Active"} \cup Ended
    /\ \/ task' = task
       \/ /\ task = "Active"
          /\ \/ task' = "Cancelled"
             \/ task' = "Failed" /\ cfg.tokens
             \/ Finalizable /\ task' = Verdict /\ UNCHANGED <<att, consumed, stage>>
    /\ consumed' \in [Children -> Ended \cup {"none"}]
    /\ \A c \in Children :
         \/ consumed'[c] = consumed[c]
         \/ consumed[c] = "none" /\ task = "Active" /\ att[c] \in Ended /\ consumed'[c] = att[c]
    /\ answer' \in {"none", "ok", "error"}
    /\ \/ answer' = answer
       \/ /\ task = "Active" /\ answer' = Join /\ consumed' = consumed
          /\ \A c \in Children : att[c] \in Ended /\ consumed[c] = att[c]
    /\ used' \in [calls : 0..cfg.calls, crashes : 0..cfg.crashes]

Does == AdmissionMoves /\ AttMoves /\ JobMoves /\ HoldMoves /\ CallMoves /\ TaskMoves

----------------------------------------------------------------------------
\* Whoever leaves a part alone does what it may with it.

LEMMA ChildrenAre == /\ Root \notin Children /\ Root \in Execs /\ Children \subseteq Execs
                     /\ Execs = {Root} \cup Children /\ 1 \in Children /\ Children \subseteq Nat
  BY DelegationAssumption DEF Root, Execs

LEMMA SameAdmission ==
    ASSUME Types, Admits, cfg' = cfg, stage' = stage, creq' \in [Execs -> BOOLEAN], adm' \in Admissions,
           adm'.pc = adm.pc, adm'.child = adm.child, adm'.fact = adm.fact,
           adm'.out = adm.out \/ adm'.out # "none"
    PROVE  AdmissionMoves
<1>1. Admitted' <=> Admitted
  BY DEF Admitted
<1>2. Admits'
  BY <1>1 DEF Admits
<1> QED
  BY <1>1, <1>2 DEF AdmissionMoves, Types, InTask

LEMMA SameAtt == ASSUME Types, att' = att, runs' = runs PROVE AttMoves
  BY DEF Types, AttMoves

LEMMA SameHolds ==
    ASSUME cfg' = cfg,
           \A k \in Calls, i \in Execs, g \in GateSet :
             Applies(i, g) /\ Behind(job'[k][i], g) => Behind(job[k][i], g)
    PROVE  HoldMoves
<1> SUFFICES ASSUME NEW g \in GateSet, NEW k \in Calls, NEW i \in Execs, Holds(k, i, g)'
             PROVE  Holds(k, i, g)
  BY DEF HoldMoves
<1>1. Applies(i, g)' /\ Behind(job'[k][i], g)
  BY HoldsIsNext
<1>2. Applies(i, g)
  BY <1>1 DEF Applies
<1> QED
  BY <1>1, <1>2, HoldsIs

LEMMA SameJob == ASSUME Types, cfg' = cfg, job' = job PROVE JobMoves /\ HoldMoves
<1>1. HoldMoves
  BY SameHolds
<1> QED
  BY <1>1 DEF JobMoves, Types

LEMMA SameCalls == ASSUME Types, call' = call, job' = job PROVE CallMoves
  BY DEF CallMoves, Types, Driven

LEMMA SameTask ==
    ASSUME Types, task' = task, consumed' = consumed, answer' = answer,
           used' \in [calls : 0..cfg.calls, crashes : 0..cfg.crashes]
    PROVE  TaskMoves
  BY DEF TaskMoves, Types

\* One execution of one call moves outside the gates.
LEMMA OneMoves ==
    ASSUME Types, cfg' = cfg, NEW k \in Calls, NEW i \in Execs, NEW p \in Places, Move(k, i, p)
    PROVE  /\ job' \in [Calls -> [Execs -> Places]] /\ job'[k][i] = p
           /\ \A l \in Calls, j \in Execs : l # k \/ j # i => job'[l][j] = job[l][j]
           /\ (\A g \in GateSet : Applies(i, g) /\ Behind(p, g) => Behind(job[k][i], g)) => HoldMoves
           /\ call' = call /\ p # "none" /\ job[k][i] # "none" => CallMoves
<1>1. job' = [job EXCEPT ![k][i] = p]
  BY DEF Move
<1>2. job'[k][i] = p /\ \A l \in Calls, j \in Execs : l # k \/ j # i => job'[l][j] = job[l][j]
  BY <1>1 DEF Types
<1>3. job' \in [Calls -> [Execs -> Places]]
  BY <1>1 DEF Types
<1>4. (\A g \in GateSet : Applies(i, g) /\ Behind(p, g) => Behind(job[k][i], g)) => HoldMoves
  <2> HAVE \A g \in GateSet : Applies(i, g) /\ Behind(p, g) => Behind(job[k][i], g)
  <2>1. \A l \in Calls, j \in Execs, g \in GateSet :
          Applies(j, g) /\ Behind(job'[l][j], g) => Behind(job[l][j], g)
    BY <1>2
  <2> QED
    BY <2>1, SameHolds
<1>5. ASSUME call' = call, p # "none", job[k][i] # "none"
      PROVE  CallMoves
  <2>1. \A l \in Calls : Driven(l)' = Driven(l)
    BY <1>2, <1>5, ChildrenAre DEF Driven
  <2> QED
    BY <1>5, <2>1 DEF CallMoves, Types
<1> QED
  BY <1>2, <1>3, <1>4, <1>5

----------------------------------------------------------------------------
\* The admission worker.

LEMMA WorkerDoes ==
    ASSUME Inv, KeepTask, AdmissionMoves
    PROVE  Does
<1>1. cfg' = cfg /\ task' = task /\ att' = att /\ consumed' = consumed /\ answer' = answer
      /\ call' = call /\ job' = job /\ runs' = runs /\ used' = used
  BY DEF KeepTask
<1>2. Types
  BY DEF Inv
<1>3. TaskMoves
  BY <1>1, <1>2, SameTask DEF Types
<1> QED
  BY <1>1, <1>2, <1>3, SameAtt, SameJob, SameCalls DEF Does

LEMMA AdmitBeginDoes == ASSUME Inv, AdmitBegin PROVE Does
<1>0. Types /\ Admits /\ KeepTask /\ adm.pc = "idle" /\ adm.out = "none" /\ stage' = stage
  BY DEF Inv, AdmitBegin
<1>1. cfg' = cfg /\ creq' = creq /\ task' = task
  BY <1>0 DEF KeepTask
<1>2. adm.child = 1 /\ ~Admitted /\ \A c \in Children : stage[c] = 0
  BY <1>0 DEF Admits
<1>3. CASE adm' = [adm EXCEPT !.pc = "child"]
  <2>1. adm' \in Admissions /\ adm'.pc = "child" /\ adm'.child = 1 /\ adm'.fact = adm.fact
    BY <1>0, <1>2, <1>3 DEF Types, Admissions
  <2>2. ~Admitted'
    BY <1>2, <2>1 DEF Admitted
  <2>3. \A c \in Children : stage'[c] = 0 /\ ~(c < 1)
    BY <1>0, <1>2, DelegationAssumption
  <2>4. Admits'
    BY <1>3, <2>1, <2>2, <2>3, ChildrenAre DEF Admits, Linked
  <2>5. AdmissionMoves
    BY <1>0, <1>1, <1>2, <2>1, <2>4 DEF AdmissionMoves, Types, InTask
  <2> QED
    BY <1>0, <2>5, WorkerDoes
<1>4. CASE adm' = [adm EXCEPT !.out = "denied"]
  <2>1. adm' \in Admissions /\ adm'.pc = adm.pc /\ adm'.child = adm.child /\ adm'.fact = adm.fact
        /\ adm'.out = "denied"
    BY <1>0, <1>4 DEF Types, Admissions
  <2>2. AdmissionMoves
    BY <1>0, <1>1, <2>1, SameAdmission DEF Types
  <2> QED
    BY <1>0, <2>2, WorkerDoes
<1> QED
  BY <1>3, <1>4 DEF AdmitBegin

\* However the worker ends, nothing is lost.
LEMMA AdmitEndsDoes ==
    ASSUME Inv, KeepTask, NEW why \in {"denied", "uncertain", "wait"}, AdmitEnds(why)
    PROVE  Does
<1>0. Types /\ Admits
  BY DEF Inv
<1>1. cfg' = cfg /\ creq' = creq /\ task' = task /\ stage' = stage
  BY DEF KeepTask, AdmitEnds
<1>2. adm' \in Admissions /\ adm'.pc = "idle" /\ adm'.out = why /\ adm'.fact = adm.fact
  BY <1>0 DEF Types, Admissions, AdmitEnds
<1>3. Admitted' <=> Admitted
  BY <1>2 DEF Admitted
<1>4. Admits'
  BY <1>0, <1>1, <1>2, <1>3 DEF Admits
<1>5. AdmissionMoves
  BY <1>0, <1>1, <1>2, <1>3, <1>4 DEF AdmissionMoves, Types, InTask
<1> QED
  BY <1>5, WorkerDoes

LEMMA AdmitChildDoes == ASSUME Inv, AdmitChild PROVE Does
<1>0. Types /\ Admits /\ KeepTask /\ adm.pc = "child" /\ cfg' = cfg /\ creq' = creq /\ task' = task
  BY DEF Inv, AdmitChild, KeepTask
<1> DEFINE c == adm.child
           last == stage[c] + 1 = Linked
<1>1. c \in Children /\ stage[c] \in 0..2 /\ ~Admitted
  BY <1>0 DEF Types, Admissions, Admits, Linked
<1>2. CASE \E why \in {"uncertain"} : AdmitEnds(why)
  BY <1>0, <1>2, AdmitEndsDoes
<1>3. ASSUME stage[c] = Private => task = "Active" /\ att[Root] \notin Ended,
             stage' = [stage EXCEPT ![c] = @ + 1],
             adm' = [adm EXCEPT !.pc = IF last /\ c + 1 \notin Children THEN "commit" ELSE @,
                                !.child = IF last /\ c + 1 \in Children THEN c + 1 ELSE c]
      PROVE  Does
  <2>1. adm' \in Admissions /\ adm'.fact = adm.fact
    BY <1>0, <1>1, <1>3 DEF Types, Admissions
  <2>2. /\ adm'.pc = IF last /\ c + 1 \notin Children THEN "commit" ELSE "child"
        /\ adm'.child = IF last /\ c + 1 \in Children THEN c + 1 ELSE c
    BY <1>0, <1>3 DEF Types, Admissions
  <2>3. /\ stage' \in [Children -> 0..Linked] /\ stage'[c] = stage[c] + 1
        /\ \A d \in Children \ {c} : stage'[d] = stage[d]
    BY <1>0, <1>1, <1>3 DEF Types, Linked
  <2>4. ~Admitted'
    BY <1>1, <2>1 DEF Admitted
  <2>5. \A d \in Children : (d < c => stage[d] = Linked) /\ (d > c => stage[d] = 0)
    BY <1>0 DEF Admits
  <2>6. PICK n \in 1..8 : Children = 1..n
    BY DelegationAssumption
  <2> HIDE DEF last
  <2>7. Admits'
    <3>1. CASE ~last
      <4>1. adm'.pc = "child" /\ adm'.child = c /\ stage'[c] < Linked
        BY <1>1, <2>2, <2>3, <3>1 DEF last, Linked
      <4> QED
        BY <2>3, <2>4, <2>5, <2>6, <4>1 DEF Admits
    <3>2. CASE last /\ c + 1 \in Children
      <4>1. adm'.pc = "child" /\ adm'.child = c + 1 /\ stage'[c] = Linked
        BY <2>2, <2>3, <3>2 DEF last
      <4>2. \A d \in Children : (d < c + 1 => stage'[d] = Linked) /\ (d > c + 1 => stage'[d] = 0)
        <5> TAKE d \in Children
        <5>1. d \in Nat /\ c \in Nat
          BY <1>1, ChildrenAre
        <5>2. CASE d < c
          BY <2>3, <2>5, <5>1, <5>2
        <5>3. CASE d = c
          BY <4>1, <5>1, <5>3
        <5>4. CASE d > c
          BY <2>3, <2>5, <5>1, <5>4
        <5> QED
          BY <5>1, <5>2, <5>3, <5>4
      <4>3. stage'[c + 1] = 0
        BY <1>1, <2>3, <2>5, <2>6, <3>2
      <4> QED
        BY <2>4, <4>1, <4>2, <4>3 DEF Admits, Linked
    <3>3. CASE last /\ c + 1 \notin Children
      <4>1. adm'.pc = "commit" /\ stage'[c] = Linked
        BY <2>2, <2>3, <3>3 DEF last
      <4>2. \A d \in Children : stage'[d] = Linked
        BY <1>1, <2>3, <2>5, <2>6, <3>3, <4>1
      <4> QED
        BY <2>4, <4>1, <4>2 DEF Admits
    <3> QED
      BY <3>1, <3>2, <3>3
  <2>8. \A d \in Children : /\ InTask(d) => InTask(d)'
                            /\ InTask(d)' => InTask(d) \/ (task = "Active" /\ task' = task)
    BY <1>0, <1>1, <1>3, <2>3 DEF InTask, Types, Private, Linked
  <2>9. AdmissionMoves
    BY <1>0, <1>1, <2>1, <2>3, <2>7, <2>8 DEF AdmissionMoves, Types
  <2> QED
    BY <1>0, <2>9, WorkerDoes
<1> QED
  BY <1>2, <1>3 DEF AdmitChild

LEMMA AdmitCommitDoes == ASSUME Inv, AdmitCommit PROVE Does
<1>0. Types /\ Admits /\ KeepTask /\ adm.pc = "commit"
  BY DEF Inv, AdmitCommit
<1>1. cfg' = cfg /\ creq' = creq /\ task' = task /\ job' = job
  BY <1>0 DEF KeepTask
<1>2. CASE AdmitEnds("denied") \/ AdmitEnds("uncertain")
  BY <1>0, <1>2, AdmitEndsDoes
<1>3. ASSUME adm' = [adm EXCEPT !.pc = "verify", !.kids = {c \in Children : stage[c] = Linked},
                                !.fact = IF ParallelEligible THEN "parallel" ELSE "serialized"],
             stage' = stage
      PROVE  Does
  <2>1. adm' \in Admissions /\ adm'.pc = "verify" /\ Admitted'
    BY <1>0, <1>3 DEF Types, Admissions, Admitted
  <2>2. \A c \in Children : stage'[c] = Linked
    BY <1>0, <1>3 DEF Admits
  <2>3. Admits'
    BY <2>1, <2>2 DEF Admits
  <2>4. adm'.fact = adm.fact \/ ~Admitted
    BY <1>0 DEF Admits
  <2>5. AdmissionMoves
    BY <1>0, <1>1, <1>3, <2>1, <2>3, <2>4 DEF AdmissionMoves, Types, InTask
  <2> QED
    BY <1>0, <2>5, WorkerDoes
<1> QED
  BY <1>2, <1>3 DEF AdmitCommit

LEMMA AdmitVerifyDoes == ASSUME Inv, AdmitVerify PROVE Does
  BY AdmitEndsDoes DEF AdmitVerify

----------------------------------------------------------------------------
\* Gates and runs.

LEMMA ScheduleDoes ==
    ASSUME Inv, KeepStore, JobMoves, HoldMoves, CallMoves
    PROVE  Does
<1>1. /\ cfg' = cfg /\ task' = task /\ att' = att /\ creq' = creq /\ stage' = stage /\ adm' = adm
      /\ consumed' = consumed /\ answer' = answer /\ call' = call /\ runs' = runs /\ used' = used
  BY DEF KeepStore
<1>2. Types /\ Admits
  BY DEF Inv
<1>3. TaskMoves /\ AdmissionMoves
  BY <1>1, <1>2, SameTask, SameAdmission DEF Types
<1> QED
  BY <1>1, <1>2, <1>3, SameAtt DEF Does

\* Who queues for the next gate holds the gates before it and no other.
LEMMA BehindNext ==
    ASSUME NEW i, NEW n \in 0..3, NEW g \in GateSet, Applies(i, g), Behind(NextGate(i, n), g)
    PROVE  GateOf(g) <= n
<1>1. GateOf("task") = 1 /\ GateOf("invocation") = 2 /\ GateOf("host") = 3
  BY GatesAre
<1> QED
  BY <1>1, NextGateIs DEF Behind, GateSet, Permitted

LEMMA BehindGate ==
    ASSUME NEW h \in GateSet, NEW g \in GateSet
    PROVE  /\ Behind(h, g) <=> GateOf(g) < GateOf(h)
           /\ GateOf(g) \in 1..3 /\ (GateOf(g) = GateOf(h) => g = h)
<1>1. GateOf("task") = 1 /\ GateOf("invocation") = 2 /\ GateOf("host") = 3
  BY GatesAre
<1> QED
  BY <1>1 DEF Behind, GateSet, Permitted

LEMMA NextGatePlace ==
    ASSUME NEW i, NEW n \in 0..3
    PROVE  NextGate(i, n) \in GateSet \cup {"recheck"}
  BY NextGateIs DEF GateSet

\* A call's execution goes somewhere; the others stay.
LEMMA OneJob ==
    ASSUME Types, cfg' = cfg, NEW k \in Calls, NEW i \in Execs, NEW p \in Places, Move(k, i, p),
           \/ p \in {"none", "todo", "enter", "load", "waiting", "error"}
           \/ p = "done" /\ (i \in Children => att'[i] \in Ended)
           \/ p \in GateSet \cup {"recheck", "go"} /\ (i \in Children => Admitted)
           \/ p = "run" /\ att[i] # "Running" /\ att'[i] = "Running" /\ (i \in Children => Admitted)
    PROVE  JobMoves
<1>1. /\ job' \in [Calls -> [Execs -> Places]] /\ job'[k][i] = p
      /\ \A l \in Calls, j \in Execs : l # k \/ j # i => job'[l][j] = job[l][j]
  BY OneMoves
<1> QED
  BY <1>1 DEF JobMoves

LEMMA EnterDoes == ASSUME Inv, NEW k \in Calls, NEW i \in Execs, Enter(k, i) PROVE Does
<1>0. Types /\ job[k][i] = "enter" /\ KeepStore /\ cfg' = cfg /\ call' = call
  BY DEF Inv, Enter, KeepStore
<1>1. CASE ExecutionPlan(i) /\ Enqueue(k, i, 0)
  <2> DEFINE p == NextGate(i, 0)
  <2>1. p \in GateSet \cup {"recheck"} /\ Move(k, i, p)
    BY <1>1, NextGatePlace DEF Enqueue
  <2>2. \A g \in GateSet : ~(Applies(i, g) /\ Behind(p, g))
    BY BehindNext, BehindGate
  <2>3. i \in Children => Admitted
    BY <1>1 DEF ExecutionPlan, ExecutionLink, InspectAdmission
  <2>4. p \in Places /\ p # "none"
    BY <2>1 DEF Places, GateSet, Permitted
  <2> HIDE DEF p
  <2>5. JobMoves
    BY <1>0, <2>1, <2>3, <2>4, OneJob
  <2>6. HoldMoves /\ CallMoves
    BY <1>0, <2>1, <2>2, <2>4, OneMoves
  <2> QED
    BY <1>0, <2>5, <2>6, ScheduleDoes
<1>2. CASE Leave(k, i, "error")
  <2>1. Move(k, i, "error") /\ "error" \in Places /\ \A g \in GateSet : ~Behind("error", g)
    BY <1>2 DEF Leave, Places, Behind, Permitted
  <2>2. JobMoves
    BY <1>0, <2>1, OneJob
  <2>3. HoldMoves /\ CallMoves
    BY <1>0, <2>1, OneMoves
  <2> QED
    BY <1>0, <2>2, <2>3, ScheduleDoes
<1> QED
  BY <1>1, <1>2 DEF Enter

LEMMA AcquireDoes == ASSUME Inv, NEW k \in Calls, NEW i \in Execs, Acquire(k, i) PROVE Does
<1> DEFINE h == job[k][i]
           p == NextGate(i, GateOf(h))
<1>0. Types /\ Attempts /\ KeepStore /\ cfg' = cfg /\ call' = call
  BY DEF Inv, Acquire, KeepStore
<1>1. h \in GateSet /\ Held(h) + Permits(i, h) <= Capacity(h) /\ Move(k, i, p)
  BY GatesAre DEF Acquire, Enqueue
<1>2. GateOf(h) \in 0..3
  BY <1>1, BehindGate
<1>3. p \in GateSet \cup {"recheck"} /\ p \in Places /\ p # "none"
  BY <1>2, NextGatePlace DEF Places, GateSet, Permitted
<1>4. \A g \in GateSet : Applies(i, g) /\ Behind(p, g) => Behind(h, g) \/ g = h
  <2> TAKE g \in GateSet
  <2> HAVE Applies(i, g) /\ Behind(p, g)
  <2>1. GateOf(g) <= GateOf(h)
    BY <1>2, BehindNext
  <2> QED
    BY <1>1, <1>2, <2>1, BehindGate
<1>5. i \in Children => Admitted
  BY <1>0, <1>1 DEF Attempts
<1>6. h # "none"
  BY <1>1 DEF GateSet
<1> HIDE DEF p
<1>7. JobMoves
  BY <1>0, <1>1, <1>3, <1>5, OneJob
<1>8. CallMoves
  BY <1>0, <1>1, <1>3, <1>6, OneMoves
<1>9. HoldMoves
  <2> SUFFICES ASSUME NEW g \in GateSet
               PROVE  \/ \A l \in Calls, j \in Execs : Holds(l, j, g)' => Holds(l, j, g)
                      \/ \E m \in Calls, n \in Execs :
                           /\ Held(g) + Permits(n, g) <= Capacity(g)
                           /\ \A l \in Calls, j \in Execs :
                                Holds(l, j, g)' => Holds(l, j, g) \/ (l = m /\ j = n)
    BY DEF HoldMoves
  <2>1. ASSUME NEW l \in Calls, NEW j \in Execs, Holds(l, j, g)'
        PROVE  Holds(l, j, g) \/ (l = k /\ j = i)
    <3>1. Applies(j, g) /\ Behind(job'[l][j], g)
      BY <1>0, <2>1, HoldsIsNext DEF Applies
    <3>2. (l = k /\ j = i) \/ job'[l][j] = job[l][j]
      BY <1>0, <1>1, <1>3, OneMoves
    <3> QED
      BY <3>1, <3>2, HoldsIs
  <2>2. CASE g = h
    BY <1>1, <2>1, <2>2
  <2>3. CASE g # h
    <3>1. ASSUME Holds(k, i, g)' PROVE Holds(k, i, g)
      <4>1. Applies(i, g) /\ Behind(job'[k][i], g)
        BY <1>0, <3>1, HoldsIsNext DEF Applies
      <4>2. job'[k][i] = p
        BY <1>0, <1>1, <1>3, OneMoves
      <4> QED
        BY <1>4, <2>3, <4>1, <4>2, HoldsIs
    <3> QED
      BY <2>1, <3>1
  <2> QED
    BY <2>2, <2>3
<1> QED
  BY <1>0, <1>7, <1>8, <1>9, ScheduleDoes

LEMMA RecheckDoes == ASSUME Inv, NEW k \in Calls, NEW i \in Execs, Recheck(k, i) PROVE Does
<1>0. Types /\ Attempts /\ job[k][i] \in GateSet \cup {"recheck"} /\ KeepStore /\ cfg' = cfg /\ call' = call
  BY GatesAre DEF Inv, Recheck, KeepStore
<1>1. i \in Children => Admitted
  BY <1>0 DEF Attempts, Permitted
<1>2. ASSUME NEW p \in {"error", "go"}, Move(k, i, p), p = "go" => job[k][i] = "recheck"
      PROVE  Does
  <2>1. p \in Places /\ p # "none" /\ job[k][i] # "none"
    BY <1>0 DEF Places, Permitted, GateSet
  <2>2. \A g \in GateSet : Behind(p, g) => Behind(job[k][i], g)
    BY <1>2 DEF Behind, Permitted
  <2>3. JobMoves
    BY <1>0, <1>1, <1>2, <2>1, OneJob
  <2>4. HoldMoves /\ CallMoves
    BY <1>0, <1>2, <2>1, <2>2, OneMoves
  <2> QED
    BY <1>0, <2>3, <2>4, ScheduleDoes
<1> QED
  BY <1>2 DEF Recheck, Leave

LEMMA GoDoes == ASSUME Inv, NEW k \in Calls, NEW i \in Execs, Go(k, i) PROVE Does
<1>0. /\ Types /\ Attempts /\ Admits /\ job[k][i] = "go" /\ KeepEdges
      /\ cfg' = cfg /\ call' = call /\ task' = task /\ creq' = creq /\ stage' = stage
      /\ consumed' = consumed /\ used' = used
  BY DEF Inv, Go, KeepEdges
<1>1. i \in Children => Admitted
  BY <1>0 DEF Attempts, Permitted
<1>2. ASSUME IF Resumes(k, i) THEN CanResume(k, i) ELSE CanRun(i),
             att' = [att EXCEPT ![i] = "Running"],
             runs' = [runs EXCEPT ![i] = IF Resumes(k, i) THEN @ ELSE @ + 1],
             answer' = IF i = Root /\ call[k].kind = "pump" THEN call[k].result ELSE answer,
             adm' = IF i = Root /\ call[k].kind = "approve" THEN [adm EXCEPT !.ask = "granted"] ELSE adm,
             Move(k, i, "run")
      PROVE  Does
  <2>1. att'[i] = "Running" /\ att[i] \in {"none", "Suspended"} /\ "run" \in Places
    BY <1>0, <1>2 DEF Types, CanRun, CanResume, Places, Permitted
  <2>2. JobMoves
    BY <1>0, <1>1, <1>2, <2>1, OneJob
  <2>3. HoldMoves /\ CallMoves
    <3>1. \A g \in GateSet : Behind("run", g) => Behind(job[k][i], g)
      BY <1>0 DEF Behind, Permitted
    <3> QED
      BY <1>0, <1>2, <2>1, <3>1, OneMoves
  <2>4. AdmissionMoves
    <3>1. adm' \in Admissions /\ adm'.pc = adm.pc /\ adm'.child = adm.child /\ adm'.fact = adm.fact
          /\ adm'.out = adm.out
      BY <1>0, <1>2 DEF Types, Admissions
    <3> QED
      BY <1>0, <3>1, SameAdmission DEF Types
  <2>5. AttMoves
    <3>1. att' \in [Execs -> AttStates] /\ \A j \in Execs \ {i} : att'[j] = att[j] /\ runs'[j] = runs[j]
      BY <1>0, <1>2 DEF Types, AttStates
    <3>2. CASE Resumes(k, i)
      <4>1. runs' = runs
        BY <1>0, <1>2, <3>2 DEF Types
      <4>2. att[i] = "Suspended" /\ (task = "Active" \/ Detached(i))
        BY <1>2, <3>2 DEF CanResume
      <4>3. att[i] \notin Ended \cup {"none"}
        BY <4>2 DEF Ended
      <4> QED
        BY <1>0, <2>1, <3>1, <4>1, <4>2, <4>3 DEF AttMoves, Types
    <3>3. CASE ~Resumes(k, i)
      <4>1. task = "Active" /\ att[i] = "none"
        BY <1>2, <3>3 DEF CanRun
      <4>2. runs[i] = 0
        BY <1>0, <4>1 DEF Attempts
      <4>3. runs' \in [Execs -> 0..1]
        BY <1>0, <1>2, <3>3, <4>2 DEF Types
      <4> QED
        BY <1>1, <2>1, <3>1, <4>1, <4>3 DEF AttMoves
    <3> QED
      BY <3>2, <3>3
  <2>6. TaskMoves
    <3>1. CASE answer' = answer
      BY <1>0, <3>1, SameTask DEF Types
    <3>2. CASE i = Root /\ call[k].kind = "pump"
      <4>1. VerifyResult(k)
        BY <1>2, <3>2 DEF Resumes, CanResume
      <4>2. task = "Active" /\ answer' = Join
        BY <1>2, <3>2, <4>1 DEF VerifyResult, VerifyAdmission, OwnerActive
      <4>3. \A c \in Children : att[c] \in Ended /\ consumed[c] = att[c]
        BY <1>0, <4>1 DEF VerifyResult, Types
      <4>4. answer' \in {"none", "ok", "error"}
        BY <4>2 DEF Join
      <4> QED
        BY <1>0, <4>2, <4>3, <4>4 DEF TaskMoves, Types
    <3> QED
      BY <1>2, <3>1, <3>2
  <2> QED
    BY <2>2, <2>3, <2>4, <2>5, <2>6 DEF Does
<1>3. ASSUME Move(k, i, "load"), UNCHANGED <<att, runs, adm, answer>>
      PROVE  Does
  <2>1. "load" \in Places /\ \A g \in GateSet : ~Behind("load", g)
    BY DEF Places, Behind, Permitted
  <2>2. JobMoves
    BY <1>0, <1>3, <2>1, OneJob
  <2>3. HoldMoves /\ CallMoves
    BY <1>0, <1>3, <2>1, OneMoves
  <2>4. AdmissionMoves /\ TaskMoves /\ AttMoves
    BY <1>0, <1>3, SameAdmission, SameTask, SameAtt DEF Types
  <2> QED
    BY <2>2, <2>3, <2>4 DEF Does
<1> QED
  BY <1>2, <1>3 DEF Go

\* What a Turn that stopped is observed as.
LEMMA OutcomesAre ==
    ASSUME NEW i \in Execs, NEW o \in Outcomes(i) \cup {"RecoveryRequired"}
    PROVE  o \in AttStates \ {"none"}
<1>1. \A c : ChildOutcomes(c) \subseteq {"Completed", "Failed", "Suspended", "Cancelled", "RecoveryRequired"}
  BY DEF ChildOutcomes
<1>2. RootOutcomes \subseteq {"Completed", "Failed", "Suspended", "Cancelled", "RecoveryRequired", "Running"}
  BY DEF RootOutcomes
<1>3. o \in {"Completed", "Failed", "Suspended", "Cancelled", "RecoveryRequired", "Running"}
  BY <1>1, <1>2 DEF Outcomes
<1> QED
  BY <1>3 DEF AttStates, Ended

\* An observation moves the attempt that ran and nothing of the admission.
LEMMA ObserveMoves ==
    ASSUME Inv, NEW i \in Execs, NEW o \in Outcomes(i) \cup {"RecoveryRequired"}, Observe(i, o),
           att[i] = "Running", UNCHANGED <<cfg, creq, stage, runs>>, \A k \in Calls : job'[k][i] # "run"
    PROVE  AdmissionMoves /\ AttMoves /\ att'[i] = o
<1>0. Types /\ Admits
  BY DEF Inv
<1>1. o \in AttStates \ {"none"}
  BY OutcomesAre
<1>2. att' = [att EXCEPT ![i] = o]
  BY DEF Observe
<1>3. att' \in [Execs -> AttStates] /\ att'[i] = o /\ \A j \in Execs \ {i} : att'[j] = att[j]
  BY <1>0, <1>1, <1>2 DEF Types
<1>4. AttMoves
  <2>1. att[i] \notin Ended \cup {"none"}
    BY DEF Ended
  <2>2. att[i] # "Suspended" /\ att'[i] # "none"
    BY <1>1, <1>3
  <2> QED
    BY <1>0, <1>3, <2>1, <2>2 DEF AttMoves, Types
<1>5. /\ adm' \in Admissions /\ adm'.pc = adm.pc /\ adm'.child = adm.child /\ adm'.fact = adm.fact
      /\ adm'.out = adm.out \/ adm'.out # "none"
  <2>1. CASE adm' = [adm EXCEPT !.ask = "pending"]
    BY <1>0, <2>1 DEF Types, Admissions
  <2>2. CASE adm' = [adm EXCEPT !.out = "stranded"]
    BY <1>0, <2>2 DEF Types, Admissions
  <2>3. CASE adm' = adm
    BY <1>0, <2>3 DEF Types
  <2> QED
    BY <2>1, <2>2, <2>3 DEF Observe
<1>6. AdmissionMoves
  BY <1>0, <1>5, SameAdmission DEF Types
<1> QED
  BY <1>3, <1>4, <1>6

LEMMA EndRunDoes == ASSUME Inv, NEW k \in Calls, NEW i \in Execs, EndRun(k, i) PROVE Does
<1>0. /\ Types /\ Attempts /\ job[k][i] = "run" /\ cfg' = cfg /\ call' = call /\ creq' = creq
      /\ stage' = stage /\ consumed' = consumed /\ used' = used /\ answer' = answer /\ runs' = runs
  BY DEF Inv, EndRun, KeepEdges
<1>1. PICK o \in Outcomes(i) :
        /\ Observe(i, o)
        /\ Move(k, i, IF i = Root \/ o \in Ended THEN "done" ELSE IF o = "Suspended" THEN "waiting" ELSE "error")
  BY DEF EndRun
<1>2. PICK p \in {"done", "waiting", "error"} : Move(k, i, p) /\ (p = "done" => i = Root \/ o \in Ended)
  BY <1>1
<1>3. p \in Places /\ p # "none" /\ \A g \in GateSet : ~Behind(p, g)
  BY <1>2 DEF Places, Behind, Permitted
<1>4. job'[k][i] = p /\ \A l \in Calls, j \in Execs : l # k \/ j # i => job'[l][j] = job[l][j]
  BY <1>0, <1>2, <1>3, OneMoves
<1>5. \A l \in Calls : job'[l][i] # "run"
  BY <1>0, <1>2, <1>4 DEF Attempts
<1>6. att[i] = "Running"
  BY <1>0 DEF Attempts
<1>7. AdmissionMoves /\ AttMoves /\ att'[i] = o
  BY <1>0, <1>1, <1>5, <1>6, ObserveMoves
<1>8. JobMoves
  <2>1. p = "done" => (i \in Children => att'[i] \in Ended)
    BY <1>2, <1>7, ChildrenAre
  <2> QED
    BY <1>0, <1>2, <1>3, <2>1, OneJob
<1>9. HoldMoves /\ CallMoves
  BY <1>0, <1>2, <1>3, OneMoves
<1>10. TaskMoves
  <2>1. task' = task \/ (task = "Active" /\ task' = "Failed" /\ cfg.tokens)
    BY DEF EndRun
  <2> QED
    BY <1>0, <2>1 DEF TaskMoves, Types, Ended
<1> QED
  BY <1>7, <1>8, <1>9, <1>10 DEF Does

LEMMA LoadDoes == ASSUME Inv, NEW k \in Calls, NEW i \in Execs, Load(k, i) PROVE Does
<1>0. /\ Types /\ Admits /\ job[k][i] = "load" /\ cfg' = cfg /\ call' = call /\ creq' = creq
      /\ stage' = stage /\ consumed' = consumed /\ used' = used /\ answer' = answer /\ runs' = runs
      /\ task' = task /\ att' = att /\ adm' = adm
  BY DEF Inv, Load, KeepEdges
<1>1. PICK p \in {"done", "error"} : Move(k, i, p) /\ (p = "done" => i = Root \/ att[i] \in Ended)
  BY DEF Load
<1>2. p \in Places /\ p # "none" /\ \A g \in GateSet : ~Behind(p, g)
  BY <1>1 DEF Places, Behind, Permitted
<1>3. JobMoves
  BY <1>0, <1>1, <1>2, OneJob, ChildrenAre
<1>4. HoldMoves /\ CallMoves
  BY <1>0, <1>1, <1>2, OneMoves
<1>5. AdmissionMoves /\ TaskMoves /\ AttMoves
  BY <1>0, SameAdmission, SameTask, SameAtt DEF Types
<1> QED
  BY <1>3, <1>4, <1>5 DEF Does

----------------------------------------------------------------------------
\* Host calls.

LEMMA KeepAllMoves ==
    ASSUME Inv, KeepAll
    PROVE  /\ AdmissionMoves /\ AttMoves /\ Types /\ Attempts /\ Drives
           /\ cfg' = cfg /\ att' = att /\ stage' = stage /\ answer' = answer /\ used' = used
<1>1. /\ cfg' = cfg /\ att' = att /\ creq' = creq /\ stage' = stage /\ adm' = adm /\ answer' = answer
      /\ runs' = runs /\ used' = used
  BY DEF KeepAll
<1>2. Types /\ Admits /\ Attempts /\ Drives
  BY DEF Inv
<1> QED
  BY <1>1, <1>2, SameAdmission, SameAtt DEF Types

\* The jobs of one call become ones that hold no gate; the other calls stay.
LEMMA JobsMove ==
    ASSUME Types, cfg' = cfg, NEW k \in Calls, NEW jobs \in [Execs -> {"none", "todo", "enter"}],
           job' = [job EXCEPT ![k] = jobs]
    PROVE  /\ JobMoves /\ HoldMoves /\ job'[k] = jobs
           /\ \A l \in Calls \ {k} : Driven(l)' = Driven(l)
<1>1. job' \in [Calls -> [Execs -> Places]]
  <2>1. jobs \in [Execs -> Places]
    BY DEF Places
  <2> QED
    BY <2>1 DEF Types
<1>2. job'[k] = jobs /\ \A l \in Calls \ {k} : job'[l] = job[l]
  BY DEF Types
<1>3. JobMoves
  <2>1. ASSUME NEW l \in Calls, NEW i \in Execs
        PROVE  job'[l][i] = job[l][i] \/ job'[l][i] \in {"none", "todo", "enter"}
    BY <1>2
  <2> QED
    BY <1>1, <2>1 DEF JobMoves
<1>4. HoldMoves
  <2>1. \A l \in Calls, i \in Execs, g \in GateSet : Behind(job'[l][i], g) => Behind(job[l][i], g)
    BY <1>2 DEF Behind, Permitted
  <2> QED
    BY <2>1, SameHolds
<1> QED
  BY <1>2, <1>3, <1>4 DEF Driven

LEMMA ReturnMoves ==
    ASSUME Types, cfg' = cfg, NEW k \in Calls, Return(k)
    PROVE  JobMoves /\ HoldMoves /\ CallMoves
<1>1. job' = [job EXCEPT ![k] = NoJobs] /\ NoJobs \in [Execs -> {"none", "todo", "enter"}]
  BY DEF Return, NoJobs
<1>2. JobMoves /\ HoldMoves /\ \A l \in Calls \ {k} : Driven(l)' = Driven(l)
  BY <1>1, JobsMove
<1>3. NoCall \in HostCalls /\ NoCall.pc = "idle"
  BY ChildrenAre DEF NoCall, HostCalls
<1>4. call' \in [Calls -> HostCalls] /\ call'[k] = NoCall /\ \A l \in Calls \ {k} : call'[l] = call[l]
  BY <1>3 DEF Return, Types
<1>5. CallMoves
  BY <1>2, <1>3, <1>4 DEF CallMoves
<1> QED
  BY <1>2, <1>5

LEMMA BeginDoes ==
    ASSUME Inv, NEW k \in Calls, NEW kind \in {"start", "approve", "pump"}, NEW pc \in {"root", "drive"},
           NEW jobs \in [Execs -> {"none", "todo", "enter"}], Begin(k, kind, pc, jobs),
           kind = "pump" =>
             jobs[1] # "none" /\ \A c, d \in Children : jobs[c] # "none" /\ d < c => jobs[d] # "none"
    PROVE  Does
<1>0. /\ Types /\ Admits /\ cfg' = cfg /\ task' = task /\ att' = att /\ creq' = creq /\ stage' = stage
      /\ adm' = adm /\ consumed' = consumed /\ answer' = answer /\ runs' = runs
  BY DEF Inv, Begin
<1>1. job' = [job EXCEPT ![k] = jobs]
  BY DEF Begin
<1>2. JobMoves /\ HoldMoves /\ job'[k] = jobs /\ \A l \in Calls \ {k} : Driven(l)' = Driven(l)
  BY <1>0, <1>1, JobsMove
<1>3. AdmissionMoves /\ AttMoves
  BY <1>0, SameAdmission, SameAtt DEF Types
<1>4. TaskMoves
  <2>1. cfg.calls \in Nat
    BY <1>0, DelegationAssumption DEF Types
  <2>2. used' \in [calls : 0..cfg.calls, crashes : 0..cfg.crashes]
    BY <1>0, <2>1 DEF Types, Begin
  <2> QED
    BY <1>0, <2>2, SameTask
<1>5. CallMoves
  <2> DEFINE new == [NoCall EXCEPT !.kind = kind, !.pc = pc]
  <2>1. new \in HostCalls /\ new.pc = pc /\ new.kind = kind
    BY ChildrenAre DEF NoCall, HostCalls
  <2>2. call' = [call EXCEPT ![k] = new]
    BY DEF Begin
  <2> HIDE DEF new
  <2>3. call' \in [Calls -> HostCalls] /\ call'[k] = new /\ \A l \in Calls \ {k} : call'[l] = call[l]
    BY <1>0, <2>1, <2>2 DEF Types
  <2>4. kind = "pump" => FirstOnes(k)'
    BY <1>2, ChildrenAre DEF FirstOnes, Driven
  <2> QED
    BY <1>2, <2>1, <2>3, <2>4 DEF CallMoves
<1> QED
  BY <1>2, <1>3, <1>4, <1>5 DEF Does

LEMMA OnlyIs ==
    ASSUME NEW i \in Execs
    PROVE  Only(i, "enter") \in [Execs -> {"none", "todo", "enter"}]
  BY DEF Only, NoJobs

LEMMA StartsDo ==
    ASSUME Inv, NEW k \in Calls,
           StartRoot(k) \/ ApproveRoot(k) \/ \E c \in Children : ApproveChild(k, c)
    PROVE  Does
<1>1. CASE StartRoot(k)
  BY <1>1, OnlyIs, ChildrenAre, BeginDoes DEF StartRoot
<1>2. CASE ApproveRoot(k)
  BY <1>2, OnlyIs, ChildrenAre, BeginDoes DEF ApproveRoot
<1>3. ASSUME NEW c \in Children, ApproveChild(k, c) PROVE Does
  BY <1>3, OnlyIs, ChildrenAre, BeginDoes DEF ApproveChild
<1> QED
  BY <1>1, <1>2, <1>3

LEMMA PumpChildrenDoes == ASSUME Inv, NEW k \in Calls, PumpChildren(k) PROVE Does
<1> DEFINE all == ~Serialized /\ ParallelEligible
           jobs == [i \in Execs |-> IF i = 1 \/ (i # Root /\ all) THEN "todo" ELSE "none"]
<1>1. Begin(k, "pump", "drive", jobs)
  BY DEF PumpChildren
<1> HIDE DEF all
<1>2. jobs \in [Execs -> {"none", "todo", "enter"}]
  OBVIOUS
<1>3. jobs[1] # "none"
  BY ChildrenAre
<1>4. ASSUME NEW c \in Children, NEW d \in Children, jobs[c] # "none", d < c
      PROVE  jobs[d] # "none"
  <2>1. c # 1
    BY <1>4, DelegationAssumption
  <2>2. all
    BY <1>4, <2>1, ChildrenAre
  <2> QED
    BY <2>2, ChildrenAre
<1> HIDE DEF jobs
<1> QED
  BY <1>1, <1>2, <1>3, <1>4, BeginDoes

LEMMA DriveChildDoes == ASSUME Inv, NEW k \in Calls, NEW c \in Children, DriveChild(k, c) PROVE Does
<1>0. /\ AdmissionMoves /\ AttMoves /\ Types /\ cfg' = cfg /\ att' = att /\ answer' = answer /\ used' = used
      /\ task' = task /\ consumed' = consumed /\ call' = call /\ job[k][c] = "todo"
  BY KeepAllMoves DEF DriveChild
<1>1. PICK p \in {"error", "done", "waiting", "enter"} : Move(k, c, p) /\ (p = "done" => att[c] \in Ended)
  BY DEF DriveChild
<1>2. p \in Places /\ p # "none" /\ c \in Execs /\ \A g \in GateSet : ~Behind(p, g)
  BY <1>1, ChildrenAre DEF Places, Behind, Permitted
<1>3. JobMoves
  BY <1>0, <1>1, <1>2, OneJob
<1>4. HoldMoves /\ CallMoves
  BY <1>0, <1>1, <1>2, OneMoves
<1>5. TaskMoves
  BY <1>0, SameTask DEF Types
<1> QED
  BY <1>0, <1>3, <1>4, <1>5 DEF Does

\* A non-empty set of naturals has a smallest element.
LEMMA Smallest ==
    ASSUME NEW S \in SUBSET Nat, S # {}
    PROVE  \E x \in S : \A y \in S : x <= y
<1> DEFINE R == OpToRel(<, Nat)
<1>1. PICK x \in S : \A y \in S : <<y, x>> \notin R
  BY WFMin, NatLessThanWellFounded, Zenon
<1>2. \A y \in S : ~(y < x)
  BY <1>1 DEF OpToRel
<1> QED
  BY <1>2

LEMMA LastChild ==
    ASSUME NEW S \in SUBSET Children, S # {}
    PROVE  Max(S) \in S /\ \A y \in S : Max(S) >= y
<1>1. PICK n \in 1..8 : Children = 1..n
  BY DelegationAssumption
<1> DEFINE T == {n - x : x \in S}
<1>2. T \in SUBSET Nat /\ T # {}
  <2>1. ASSUME NEW x \in S PROVE n - x \in Nat
    <3>1. x \in 1..n /\ n \in Nat
      BY <1>1
    <3> QED
      BY <3>1
  <2>2. PICK x \in S : TRUE
    OBVIOUS
  <2>3. n - x \in T
    BY <2>2
  <2> QED
    BY <2>1, <2>3
<1>3. PICK t \in T : \A u \in T : t <= u
  BY <1>2, Smallest
<1>4. PICK m \in S : t = n - m
  OBVIOUS
<1>5. \A y \in S : m >= y
  <2> TAKE y \in S
  <2>1. n - m <= n - y
    BY <1>3, <1>4
  <2> QED
    BY <1>1, <2>1
<1> QED
  BY <1>4, <1>5 DEF Max

LEMMA DriveNextDoes == ASSUME Inv, NEW k \in Calls, DriveNext(k) PROVE Does
<1> DEFINE driven == Driven(k)
           next == Max(driven) + 1
           has(s) == \E c \in driven : job[k][c] = s
<1>0. /\ AdmissionMoves /\ AttMoves /\ Types /\ Attempts /\ Drives /\ cfg' = cfg /\ att' = att
      /\ answer' = answer /\ used' = used /\ task' = task /\ consumed' = consumed
  BY KeepAllMoves DEF DriveNext
<1>1. TaskMoves
  BY <1>0, SameTask DEF Types
<1>2. CASE Return(k)
  BY <1>0, <1>1, <1>2, ReturnMoves DEF Does
<1>3. ASSUME ~Return(k)
      PROVE  Does
  <2>1. /\ call[k].kind = "pump" /\ call[k].pc = "drive" /\ ~has("error")
        /\ \A c \in driven : job[k][c] \in Settled
        /\ \/ next \in Children /\ Move(k, next, "todo") /\ call' = call
           \/ /\ next \notin Children \/ has("waiting")
              /\ ~has("waiting") /\ job' = job
              /\ call' = [call EXCEPT ![k] = [@ EXCEPT !.pc = "consume", !.child = 1, !.result = Join]]
    BY <1>3 DEF DriveNext, Driven
  <2>2. FirstOnes(k)
    BY <1>0, <2>1 DEF Drives
  <2>3. driven \in SUBSET Children /\ driven # {}
    BY <2>2 DEF FirstOnes, Driven
  <2>4. Max(driven) \in driven /\ \A y \in driven : Max(driven) >= y
    BY <2>3, LastChild
  <2>5. \A d \in Children : d <= Max(driven) => d \in driven
    BY <2>2, <2>4, ChildrenAre DEF FirstOnes, Driven
  <2>6. CASE next \in Children /\ Move(k, next, "todo") /\ call' = call
    <3>1. "todo" \in Places /\ next \in Execs /\ \A g \in GateSet : ~Behind("todo", g)
      BY <2>6, ChildrenAre DEF Places, Behind, Permitted
    <3>2. JobMoves
      BY <1>0, <2>6, <3>1, OneJob
    <3>3. /\ HoldMoves /\ job'[k][next] = "todo"
          /\ \A l \in Calls, j \in Execs : l # k \/ j # next => job'[l][j] = job[l][j]
      BY <1>0, <2>6, <3>1, OneMoves
    <3>4. Driven(k)' = driven \cup {next}
      BY <2>6, <3>3, ChildrenAre DEF Driven
    <3>5. FirstOnes(k)'
      <4>1. 1 \in Driven(k)'
        BY <2>2, <3>4 DEF FirstOnes
      <4>2. ASSUME NEW c \in Driven(k)', NEW d \in Children, d < c
            PROVE  d \in Driven(k)'
        <5>1. CASE c = next
          <6>1. d <= Max(driven)
            <7>1. Max(driven) \in Nat /\ d \in Nat
              BY <2>3, <2>4, ChildrenAre
            <7> HIDE DEF driven
            <7> QED
              BY <4>2, <5>1, <7>1
          <6> QED
            BY <2>5, <3>4, <6>1
        <5>2. CASE c \in driven
          BY <2>2, <3>4, <4>2, <5>2 DEF FirstOnes
        <5> QED
          BY <3>4, <5>1, <5>2
      <4> QED
        BY <4>1, <4>2 DEF FirstOnes
    <3>6. \A l \in Calls \ {k} : Driven(l)' = Driven(l)
      BY <3>3, ChildrenAre DEF Driven
    <3>7. CallMoves
      BY <1>0, <2>1, <2>6, <3>5, <3>6 DEF CallMoves, Types
    <3> QED
      BY <1>0, <1>1, <3>2, <3>3, <3>7 DEF Does
  <2>7. CASE /\ next \notin Children /\ ~has("waiting") /\ job' = job
             /\ call' = [call EXCEPT ![k] = [@ EXCEPT !.pc = "consume", !.child = 1, !.result = Join]]
    <3>1. \A d \in Children : d <= Max(driven)
      <4>1. PICK n \in 1..8 : Children = 1..n
        BY DelegationAssumption
      <4>2. Max(driven) \in 1..n /\ Max(driven) + 1 \notin 1..n
        BY <2>3, <2>4, <2>7, <4>1
      <4> HIDE DEF driven
      <4> QED
        BY <4>1, <4>2
    <3>2. \A c \in Children : job[k][c] = "done"
      BY <2>1, <2>5, <2>7, <3>1 DEF Settled
    <3>3. \A c \in Children : att[c] \in Ended
      BY <1>0, <3>2 DEF Attempts
    <3>4. /\ call' \in [Calls -> HostCalls] /\ call'[k].pc = "consume" /\ call'[k].child = 1
          /\ \A l \in Calls \ {k} : call'[l] = call[l]
      <4>1. Join \in {"none", "ok", "error"}
        BY DEF Join
      <4>2. [call[k] EXCEPT !.pc = "consume", !.child = 1, !.result = Join] \in HostCalls
        <5>1. call[k] \in HostCalls /\ 1 \in Execs
          BY <1>0, ChildrenAre DEF Types
        <5> QED
          BY <4>1, <5>1 DEF HostCalls
      <4> QED
        BY <1>0, <2>7, <4>2 DEF Types, HostCalls
    <3>5. CallMoves
      BY <2>7, <3>3, <3>4, ChildrenAre DEF CallMoves, Driven
    <3> QED
      BY <1>0, <1>1, <2>7, <3>5, SameJob DEF Does
  <2> QED
    BY <2>1, <2>6, <2>7
<1> QED
  BY <1>2, <1>3

LEMMA ConsumeChildDoes == ASSUME Inv, NEW k \in Calls, ConsumeChild(k) PROVE Does
<1> DEFINE c == call[k].child
<1>0. /\ AdmissionMoves /\ AttMoves /\ Types /\ Drives /\ cfg' = cfg /\ att' = att
      /\ answer' = answer /\ used' = used /\ task' = task /\ call[k].pc = "consume"
  BY KeepAllMoves DEF ConsumeChild
<1>1. c \in Children /\ att[c] \in Ended /\ consumed[c] \in Ended \cup {"none"}
  BY <1>0 DEF Drives, Types
<1>2. CASE Return(k) /\ consumed' = consumed
  <2>1. TaskMoves
    BY <1>0, <1>2, SameTask DEF Types
  <2> QED
    BY <1>0, <1>2, <2>1, ReturnMoves DEF Does
<1>3. ASSUME ~(consumed[c] = "none" /\ ~(task = "Active" /\ ~creq[Root] /\ att[Root] \notin Ended)),
             consumed' = [consumed EXCEPT ![c] = IF @ = "none" THEN att[c] ELSE @],
             call' = [call EXCEPT ![k] = IF c + 1 \in Children THEN [@ EXCEPT !.child = c + 1]
                                         ELSE [@ EXCEPT !.pc = "resume"]],
             job' = job
      PROVE  Does
  <2>1. TaskMoves
    <3>1. consumed' \in [Children -> Ended \cup {"none"}]
      BY <1>0, <1>1, <1>3 DEF Types
    <3>2. \A d \in Children :
            \/ consumed'[d] = consumed[d]
            \/ consumed[d] = "none" /\ task = "Active" /\ att[d] \in Ended /\ consumed'[d] = att[d]
      BY <1>0, <1>1, <1>3 DEF Types
    <3> QED
      BY <1>0, <3>1, <3>2 DEF TaskMoves, Types
  <2>2. CallMoves
    <3> DEFINE new == IF c + 1 \in Children THEN [call[k] EXCEPT !.child = c + 1]
                      ELSE [call[k] EXCEPT !.pc = "resume"]
    <3>1. call[k] \in HostCalls
      BY <1>0 DEF Types
    <3>2. /\ new \in HostCalls
          /\ new.pc = "resume" \/ (new.pc = "consume" /\ new.child \in Children)
      BY <1>0, <3>1, ChildrenAre DEF HostCalls
    <3> HIDE DEF new
    <3>3. call' \in [Calls -> HostCalls] /\ call'[k] = new /\ \A l \in Calls \ {k} : call'[l] = call[l]
      BY <1>0, <1>3, <3>2 DEF Types, new
    <3> QED
      BY <1>0, <1>3, <3>2, <3>3 DEF CallMoves, Driven
  <2> QED
    BY <1>0, <1>3, <2>1, <2>2, SameJob DEF Does
<1> QED
  BY <1>2, <1>3 DEF ConsumeChild

LEMMA ResumeRootDoes == ASSUME Inv, NEW k \in Calls, ResumeRoot(k) PROVE Does
<1>0. /\ AdmissionMoves /\ AttMoves /\ Types /\ cfg' = cfg /\ att' = att
      /\ answer' = answer /\ used' = used /\ task' = task /\ consumed' = consumed
  BY KeepAllMoves DEF ResumeRoot
<1>1. TaskMoves
  BY <1>0, SameTask DEF Types
<1>2. CASE Return(k)
  BY <1>0, <1>1, <1>2, ReturnMoves DEF Does
<1>3. ASSUME Move(k, Root, "enter"), call' = [call EXCEPT ![k].pc = "root"]
      PROVE  Does
  <2>1. "enter" \in Places /\ Root \in Execs /\ \A g \in GateSet : ~Behind("enter", g)
    BY ChildrenAre DEF Places, Behind, Permitted
  <2>2. JobMoves
    BY <1>0, <1>3, <2>1, OneJob
  <2>3. HoldMoves /\ \A l \in Calls, j \in Execs : l # k \/ j # Root => job'[l][j] = job[l][j]
    BY <1>0, <1>3, <2>1, OneMoves
  <2>4. \A l \in Calls : Driven(l)' = Driven(l)
    BY <2>3, ChildrenAre DEF Driven
  <2>5. /\ call' \in [Calls -> HostCalls] /\ call'[k].pc = "root"
        /\ \A l \in Calls \ {k} : call'[l] = call[l]
    <3>1. call \in [Calls -> HostCalls]
      BY <1>0 DEF Types
    <3>2. call' = [l \in Calls |-> IF l = k THEN [call[k] EXCEPT !.pc = "root"] ELSE call[l]]
      BY <1>3, <3>1
    <3>3. [call[k] EXCEPT !.pc = "root"] \in HostCalls /\ [call[k] EXCEPT !.pc = "root"].pc = "root"
      BY <3>1 DEF HostCalls
    <3> QED
      BY <3>1, <3>2, <3>3
  <2>6. CallMoves
    BY <2>4, <2>5 DEF CallMoves
  <2> QED
    BY <1>0, <1>1, <2>2, <2>3, <2>6 DEF Does
<1> QED
  BY <1>2, <1>3 DEF ResumeRoot

\* A verdict changes the state of the Task only.
LEMMA VerdictMoves ==
    ASSUME Types, task' = task \/ (Finalizable /\ task' = Verdict), cfg' = cfg,
           UNCHANGED <<att, stage, consumed, answer, used>>
    PROVE  TaskMoves
<1>1. Verdict \in Ended
  BY DEF Verdict, Ended
<1>2. Finalizable => task = "Active"
  BY DEF Finalizable
<1> QED
  BY <1>1, <1>2 DEF TaskMoves, Types

LEMMA FinishRootDoes == ASSUME Inv, NEW k \in Calls, FinishRoot(k) PROVE Does
<1>0. /\ AdmissionMoves /\ AttMoves /\ Types /\ cfg' = cfg /\ Return(k)
      /\ UNCHANGED <<att, stage, consumed, answer, used>>
  BY KeepAllMoves DEF FinishRoot
<1>1. TaskMoves
  BY <1>0, VerdictMoves DEF FinishRoot
<1> QED
  BY <1>0, <1>1, ReturnMoves DEF Does

LEMMA FinalizeTaskDoes == ASSUME Inv, FinalizeTask PROVE Does
<1>0. /\ AdmissionMoves /\ AttMoves /\ Types /\ cfg' = cfg /\ call' = call /\ job' = job
      /\ UNCHANGED <<att, stage, consumed, answer, used>>
  BY KeepAllMoves DEF FinalizeTask
<1>1. TaskMoves
  BY <1>0, VerdictMoves DEF FinalizeTask
<1> QED
  BY <1>0, <1>1, SameJob, SameCalls DEF Does

----------------------------------------------------------------------------
\* Cancellation, denial, crash and recovery.

LEMMA KeepCallsMoves ==
    ASSUME Inv, KeepCalls
    PROVE  /\ JobMoves /\ HoldMoves /\ CallMoves /\ Types /\ Attempts /\ Admits
           /\ cfg' = cfg /\ stage' = stage /\ consumed' = consumed /\ answer' = answer /\ job' = job
           /\ runs' = runs /\ used' = used
  BY SameJob, SameCalls DEF Inv, KeepCalls

LEMMA CancelTaskDoes == ASSUME Inv, CancelTask PROVE Does
<1>0. /\ JobMoves /\ HoldMoves /\ CallMoves /\ Types /\ Admits /\ cfg' = cfg /\ stage' = stage
      /\ consumed' = consumed /\ answer' = answer /\ runs' = runs /\ used' = used
      /\ att' = att /\ adm' = adm /\ task = "Active" /\ task' = "Cancelled"
  BY KeepCallsMoves DEF CancelTask
<1>1. creq' \in [Execs -> BOOLEAN]
  BY DEF CancelTask
<1>2. AdmissionMoves /\ AttMoves
  BY <1>0, <1>1, SameAdmission, SameAtt DEF Types
<1>3. TaskMoves
  BY <1>0 DEF TaskMoves, Types, Ended
<1> QED
  BY <1>0, <1>2, <1>3 DEF Does

\* One attempt that is not running moves, and nothing else but the wait.
LEMMA StopDoes ==
    ASSUME Inv, KeepCalls, UNCHANGED <<task, creq>>, NEW i \in Execs, NEW s \in AttStates \ {"none", "Running"},
           att[i] \in {"Suspended", "RecoveryRequired"}, att' = [att EXCEPT ![i] = s],
           adm' = adm \/ adm' = [adm EXCEPT !.out = "wait"]
    PROVE  Does
<1>0. /\ JobMoves /\ HoldMoves /\ CallMoves /\ Types /\ Attempts /\ Admits /\ cfg' = cfg /\ stage' = stage
      /\ consumed' = consumed /\ answer' = answer /\ job' = job /\ runs' = runs /\ used' = used
      /\ task' = task /\ creq' = creq
  BY KeepCallsMoves
<1>1. /\ adm' \in Admissions /\ adm'.pc = adm.pc /\ adm'.child = adm.child /\ adm'.fact = adm.fact
      /\ adm'.out = adm.out \/ adm'.out # "none"
  <2>1. CASE adm' = adm
    BY <1>0, <2>1 DEF Types
  <2>2. CASE adm' = [adm EXCEPT !.out = "wait"]
    BY <1>0, <2>2 DEF Types, Admissions
  <2> QED
    BY <2>1, <2>2
<1>2. AdmissionMoves
  BY <1>0, <1>1, SameAdmission DEF Types
<1>3. AttMoves
  <2>1. att' \in [Execs -> AttStates] /\ att'[i] = s /\ \A j \in Execs \ {i} : att'[j] = att[j]
    BY <1>0 DEF Types
  <2>2. \A k \in Calls : job'[k][i] # "run"
    BY <1>0 DEF Attempts
  <2>3. att[i] \notin Ended \cup {"none"}
    BY DEF Ended
  <2> QED
    BY <1>0, <2>1, <2>2, <2>3 DEF AttMoves, Types
<1>4. TaskMoves
  BY <1>0, SameTask DEF Types
<1> QED
  BY <1>0, <1>2, <1>3, <1>4 DEF Does

LEMMA StopsDo ==
    ASSUME Inv, \/ \E i \in Execs : DeliverCancel(i)
                \/ \E c \in Children : DenyChild(c)
                \/ RecoverWait
    PROVE  Does
<1>0. {"Cancelled", "Failed", "Suspended"} \subseteq AttStates \ {"none", "Running"}
  BY DEF AttStates, Ended
<1>1. ASSUME NEW i \in Execs, DeliverCancel(i) PROVE Does
  BY <1>0, <1>1, StopDoes DEF DeliverCancel
<1>2. ASSUME NEW c \in Children, DenyChild(c) PROVE Does
  BY <1>0, <1>2, StopDoes, ChildrenAre DEF DenyChild
<1>3. CASE RecoverWait
  BY <1>0, <1>3, StopDoes, ChildrenAre DEF RecoverWait
<1> QED
  BY <1>1, <1>2, <1>3

LEMMA ReconcileDoes == ASSUME Inv, NEW i \in Execs, Reconcile(i) PROVE Does
<1>0. /\ JobMoves /\ HoldMoves /\ CallMoves /\ Types /\ cfg' = cfg /\ stage' = stage
      /\ consumed' = consumed /\ answer' = answer /\ job' = job /\ runs' = runs /\ used' = used
      /\ task' = task /\ creq' = creq
  BY KeepCallsMoves DEF Reconcile
<1>1. PICK o \in Outcomes(i) \cup {"RecoveryRequired"} : Observe(i, o)
  BY DEF Reconcile
<1>2. att[i] = "Running" /\ \A k \in Calls : job'[k][i] # "run"
  BY <1>0 DEF Reconcile, Orphan
<1>3. AdmissionMoves /\ AttMoves
  BY <1>0, <1>1, <1>2, ObserveMoves
<1>4. TaskMoves
  BY <1>0, SameTask DEF Types
<1> QED
  BY <1>0, <1>3, <1>4 DEF Does

LEMMA CrashDoes == ASSUME Inv, Crash PROVE Does
<1>0. /\ Types /\ Admits /\ cfg' = cfg /\ task' = task /\ att' = att /\ creq' = creq /\ stage' = stage
      /\ consumed' = consumed /\ answer' = answer /\ runs' = runs
      /\ call' = [k \in Calls |-> NoCall] /\ job' = [k \in Calls |-> NoJobs]
  BY DEF Inv, Crash
<1>1. \A k \in Calls, i \in Execs : job'[k][i] = "none"
  BY <1>0 DEF NoJobs
<1>2. JobMoves
  <2>1. job' \in [Calls -> [Execs -> Places]]
    BY <1>0 DEF NoJobs, Places
  <2> QED
    BY <1>1, <2>1 DEF JobMoves
<1>3. HoldMoves
  <2>1. \A k \in Calls, i \in Execs, g \in GateSet : ~Behind(job'[k][i], g)
    BY <1>1 DEF Behind, Permitted
  <2> QED
    BY <1>0, <2>1, SameHolds
<1>4. CallMoves
  <2>1. NoCall \in HostCalls /\ NoCall.pc = "idle"
    BY ChildrenAre DEF NoCall, HostCalls
  <2> QED
    BY <1>0, <2>1 DEF CallMoves
<1>5. TaskMoves
  <2>1. cfg.crashes \in Nat
    BY <1>0, DelegationAssumption DEF Types
  <2>2. used' \in [calls : 0..cfg.calls, crashes : 0..cfg.crashes]
    BY <1>0, <2>1 DEF Types, Crash
  <2> QED
    BY <1>0, <2>2, SameTask
<1>6. AdmissionMoves
  <2>1. CASE adm' = adm
    BY <1>0, <2>1, SameAdmission DEF Types
  <2>2. CASE adm' = [adm EXCEPT !.pc = "idle", !.out = "uncertain"]
    <3>1. adm' \in Admissions /\ adm'.pc = "idle" /\ adm'.out = "uncertain" /\ adm'.fact = adm.fact
      BY <1>0, <2>2 DEF Types, Admissions
    <3>2. Admitted' <=> Admitted
      BY <3>1 DEF Admitted
    <3>3. Admits'
      BY <1>0, <3>1, <3>2 DEF Admits
    <3> QED
      BY <1>0, <3>1, <3>2, <3>3 DEF AdmissionMoves, Types, InTask
  <2> QED
    BY <2>1, <2>2 DEF Crash
<1> QED
  BY <1>0, <1>2, <1>3, <1>4, <1>5, <1>6, SameAtt DEF Does

LEMMA NextDoes == ASSUME Inv, [Next]_vars PROVE Does
<1>1. CASE UNCHANGED vars
  <2>1. /\ Types /\ Admits /\ cfg' = cfg /\ task' = task /\ att' = att /\ creq' = creq /\ stage' = stage
        /\ adm' = adm /\ consumed' = consumed /\ answer' = answer /\ call' = call /\ job' = job
        /\ runs' = runs /\ used' = used
    BY <1>1 DEF Inv, vars
  <2> QED
    BY <2>1, SameAdmission, SameAtt, SameJob, SameCalls, SameTask DEF Does, Types
<1>2. CASE Worker
  BY <1>2, AdmitBeginDoes, AdmitChildDoes, AdmitCommitDoes, AdmitVerifyDoes DEF Worker
<1>3. ASSUME NEW k \in Calls, StartRoot(k) \/ ApproveRoot(k) \/ \E c \in Children : ApproveChild(k, c)
      PROVE  Does
  BY <1>3, StartsDo
<1>4. ASSUME NEW k \in Calls, PumpChildren(k) PROVE Does
  BY <1>4, PumpChildrenDoes
<1>5. ASSUME NEW k \in Calls, CallStep(k) PROVE Does
  BY <1>5, DriveNextDoes, ConsumeChildDoes, ResumeRootDoes, FinishRootDoes, DriveChildDoes DEF CallStep
<1>6. ASSUME NEW k \in Calls, NEW i \in Execs, JobStep(k, i) PROVE Does
  BY <1>6, EnterDoes, AcquireDoes, RecheckDoes, GoDoes, EndRunDoes, LoadDoes DEF JobStep
<1>7. CASE FinalizeTask \/ CancelTask \/ Crash
  BY <1>7, FinalizeTaskDoes, CancelTaskDoes, CrashDoes
<1>8. CASE RecoverWait \/ (\E c \in Children : DenyChild(c)) \/ \E i \in Execs : DeliverCancel(i)
  BY <1>8, StopsDo
<1>9. ASSUME NEW i \in Execs, Reconcile(i) PROVE Does
  BY <1>9, ReconcileDoes
<1> QED
  BY <1>1, <1>2, <1>3, <1>4, <1>5, <1>6, <1>7, <1>8, <1>9 DEF Next

----------------------------------------------------------------------------
\* Whatever does no more than that keeps the invariant.

LEMMA EndedStays == ASSUME AttMoves, NEW i \in Execs, att[i] \in Ended PROVE att'[i] = att[i]
  BY DEF AttMoves, Ended

LEMMA TypesKept == ASSUME Types, Does PROVE Types'
<1>1. cfg' = cfg
  BY DEF Does, AdmissionMoves
<1>2. used' \in [calls : 0..cfg'.calls, crashes : 0..cfg'.crashes]
  BY <1>1 DEF Does, TaskMoves
<1> QED
  BY <1>1, <1>2 DEF Types, Does, AdmissionMoves, AttMoves, JobMoves, CallMoves, TaskMoves

LEMMA AttemptsKept == ASSUME Types, Attempts, Does PROVE Attempts'
<1>0. AttMoves /\ JobMoves /\ (Admitted => Admitted')
  BY DEF Does, AdmissionMoves
<1>1. ASSUME NEW k \in Calls, NEW i \in Execs, job'[k][i] = "run"
      PROVE  /\ att'[i] = "Running"
             /\ \/ job[k][i] = "run"
                \/ /\ att[i] # "Running" /\ (i \in Children => Admitted)
                   /\ \A l \in Calls \ {k} : job'[l][i] = job[l][i]
  <2>1. \/ job[k][i] = "run"
        \/ /\ att[i] # "Running" /\ att'[i] = "Running" /\ (i \in Children => Admitted)
           /\ \A l \in Calls \ {k} : job'[l][i] = job[l][i]
    BY <1>0, <1>1 DEF JobMoves, GateSet
  <2>2. CASE job[k][i] = "run"
    <3>1. att[i] = "Running"
      BY <2>2 DEF Attempts
    <3> QED
      BY <1>0, <1>1, <2>2, <3>1 DEF AttMoves
  <2> QED
    BY <2>1, <2>2
<1>2. ASSUME NEW k \in Calls, NEW l \in Calls, NEW i \in Execs, job'[k][i] = "run", job'[l][i] = "run", k # l
      PROVE  FALSE
  <2>1. \A m \in {k, l} : job[m][i] = "run" \/ (att[i] # "Running" /\ \A n \in Calls \ {m} : job'[n][i] = job[n][i])
    BY <1>1, <1>2
  <2>2. CASE job[k][i] = "run" /\ job[l][i] = "run"
    BY <1>2, <2>2 DEF Attempts
  <2>3. CASE job[k][i] # "run"
    BY <1>2, <2>1, <2>3 DEF Attempts
  <2>4. CASE job[l][i] # "run"
    BY <1>2, <2>1, <2>4 DEF Attempts
  <2> QED
    BY <2>2, <2>3, <2>4
<1>3. ASSUME NEW k \in Calls, NEW c \in Children
      PROVE  /\ job'[k][c] \in GateSet \cup Permitted => Admitted'
             /\ job'[k][c] = "done" => att'[c] \in Ended
  <2>1. c \in Execs
    BY ChildrenAre
  <2>2. CASE job'[k][c] = job[k][c]
    BY <1>0, <2>1, <2>2, EndedStays DEF Attempts
  <2>3. CASE job'[k][c] # job[k][c]
    <3>1. \/ job'[k][c] \in {"none", "todo", "enter", "load", "waiting", "error"}
          \/ job'[k][c] = "done" /\ att'[c] \in Ended
          \/ job'[k][c] \notin {"done"} /\ Admitted
      BY <1>0, <2>1, <2>3 DEF JobMoves, GateSet
    <3> QED
      BY <1>0, <3>1 DEF GateSet, Permitted
  <2> QED
    BY <2>2, <2>3
<1>4. ASSUME NEW c \in Children, att'[c] # "none" PROVE Admitted'
  <2>1. att[c] # "none" \/ Admitted
    BY <1>0, <1>4, ChildrenAre DEF AttMoves
  <2> QED
    BY <1>0, <2>1 DEF Attempts
<1>5. ASSUME NEW i \in Execs, att'[i] = "none" PROVE runs'[i] = 0
  <2>1. att'[i] = att[i] /\ runs'[i] = runs[i]
    BY <1>0, <1>5 DEF AttMoves
  <2> QED
    BY <1>5, <2>1 DEF Attempts
<1> QED
  BY <1>1, <1>2, <1>3, <1>4, <1>5 DEF Attempts

LEMMA DrivesKept == ASSUME Types, Drives, Does PROVE Drives'
<1>0. AttMoves /\ CallMoves
  BY DEF Does
<1> SUFFICES ASSUME NEW k \in Calls
             PROVE  /\ call'[k].pc = "drive" /\ call'[k].kind = "pump" => FirstOnes(k)'
                    /\ call'[k].pc = "consume" =>
                         call'[k].child \in Children /\ \A c \in Children : att'[c] \in Ended
  BY DEF Drives
<1>1. (\A c \in Children : att[c] \in Ended) => \A c \in Children : att'[c] \in Ended
  BY <1>0, EndedStays, ChildrenAre
<1>2. CASE call'[k].pc \notin {"drive", "consume"}
  BY <1>2
<1>3. CASE call'[k].pc = "drive" /\ (call'[k].kind = "pump" => FirstOnes(k)')
  BY <1>3
<1>4. CASE call'[k] = call[k] /\ Driven(k)' = Driven(k)
  <2>1. FirstOnes(k) => FirstOnes(k)'
    BY <1>4 DEF FirstOnes
  <2> QED
    BY <1>1, <1>4, <2>1 DEF Drives
<1>5. CASE /\ call'[k].pc = "consume" /\ call'[k].child \in Children
           /\ call[k].pc = "consume" \/ \A c \in Children : att[c] \in Ended
  BY <1>1, <1>5 DEF Drives
<1> QED
  BY <1>0, <1>2, <1>3, <1>4, <1>5 DEF CallMoves

\* Permits are counted.
LEMMA PermitsAre ==
    ASSUME Types, NEW g \in GateSet
    PROVE  /\ IsFiniteSet(HeldPermits(g)) /\ Held(g) \in Nat
           /\ cfg.bound \in {1, 2, 4} /\ cfg.maxParallel \in 1..8
           /\ \A i : Permits(i, g) \in 1..cfg.bound
<1>1. cfg.bound \in {1, 2, 4} /\ cfg.maxParallel \in 1..8
  BY DelegationAssumption DEF Types
<1>2. IsFiniteSet(Execs)
  <2>1. PICK n \in 1..8 : Children = 1..n
    BY DelegationAssumption
  <2>2. IsFiniteSet(1..n)
    BY FS_Interval
  <2> QED
    <3>1. Execs = Children \cup {Root}
      BY ChildrenAre
    <3> QED
      BY <2>1, <2>2, <3>1, FS_AddElement
<1>3. IsFiniteSet(1..cfg.bound)
  BY <1>1, FS_Interval
<1>4. IsFiniteSet(Calls \X Execs \X (1..cfg.bound))
  <2>1. IsFiniteSet(Execs \X (1..cfg.bound))
    BY <1>2, <1>3, FS_Product
  <2>2. IsFiniteSet(Calls \X Execs)
    BY <1>2, FS_Product, DelegationAssumption
  <2>3. IsFiniteSet((Calls \X Execs) \X (1..cfg.bound))
    BY <1>3, <2>2, FS_Product
  <2> DEFINE f == [x \in (Calls \X Execs) \X (1..cfg.bound) |-> <<x[1][1], x[1][2], x[2]>>]
  <2>4. f \in Surjection((Calls \X Execs) \X (1..cfg.bound), Calls \X Execs \X (1..cfg.bound))
    <3>1. f \in [(Calls \X Execs) \X (1..cfg.bound) -> Calls \X Execs \X (1..cfg.bound)]
      OBVIOUS
    <3>2. \A k \in Calls, i \in Execs, n \in 1..cfg.bound : f[<<<<k, i>>, n>>] = <<k, i, n>>
      OBVIOUS
    <3> HIDE DEF f
    <3>3. ASSUME NEW t \in Calls \X Execs \X (1..cfg.bound)
          PROVE  \E x \in (Calls \X Execs) \X (1..cfg.bound) : f[x] = t
      <4>1. PICK k \in Calls, i \in Execs, n \in 1..cfg.bound : t = <<k, i, n>>
        OBVIOUS
      <4>2. <<<<k, i>>, n>> \in (Calls \X Execs) \X (1..cfg.bound)
        OBVIOUS
      <4> QED
        BY <3>2, <4>1, <4>2
    <3> QED
      BY <3>1, <3>3 DEF Surjection
  <2> HIDE DEF f
  <2> QED
    BY <2>3, <2>4, FS_Surjection
<1>5. HeldPermits(g) \in SUBSET (Calls \X Execs \X (1..cfg.bound))
  BY DEF HeldPermits
<1>6. IsFiniteSet(HeldPermits(g)) /\ Held(g) \in Nat
  BY <1>4, <1>5, FS_Subset, FS_CardinalityType DEF Held
<1> QED
  BY <1>1, <1>6 DEF Permits

LEMMA GatedKept == ASSUME Types, Attempts, Gated, Does, Types' PROVE Gated'
<1>0. cfg' = cfg /\ HoldMoves /\ (adm'.fact = adm.fact \/ (~Admitted /\ job' = job))
  BY DEF Does, AdmissionMoves
<1> SUFFICES ASSUME NEW g \in GateSet
             PROVE  Held(g)' <= Capacity(g)'
  BY DEF Gated
<1>1. \A i : Permits(i, g)' = Permits(i, g)
  BY <1>0 DEF Permits
<1>2. \A p : p \in HeldPermits(g) <=>
               /\ p \in Calls \X Execs \X (1..cfg.bound)
               /\ Holds(p[1], p[2], g) /\ p[3] <= Permits(p[2], g)
  BY DEF HeldPermits
<1>3. \A p : p \in HeldPermits(g)' <=>
               /\ p \in Calls \X Execs \X (1..cfg.bound)
               /\ Holds(p[1], p[2], g)' /\ p[3] <= Permits(p[2], g)
  BY <1>0, <1>1 DEF HeldPermits
<1>4. Held(g) <= Capacity(g)
  BY DEF Gated
<1>5. /\ IsFiniteSet(HeldPermits(g)) /\ Held(g) \in Nat /\ cfg.bound \in Nat
      /\ \A i : Permits(i, g) \in 1..cfg.bound
  BY PermitsAre
<1>6. CASE adm'.fact = adm.fact
  <2>1. Capacity(g)' = Capacity(g) /\ Capacity(g) \in Nat
    <3>1. Serialized' <=> Serialized
      BY <1>6 DEF Serialized
    <3> QED
      BY <1>0, <3>1, PermitsAre DEF Capacity
  <2>2. CASE \A k \in Calls, i \in Execs : Holds(k, i, g)' => Holds(k, i, g)
    <3>1. HeldPermits(g)' \in SUBSET HeldPermits(g)
      BY <1>2, <1>3, <2>2
    <3>2. Held(g)' <= Held(g) /\ Held(g)' \in Nat
      BY <1>5, <3>1, FS_Subset, FS_CardinalityType DEF Held
    <3> QED
      BY <1>4, <1>5, <2>1, <3>2
  <2>3. ASSUME NEW k \in Calls, NEW i \in Execs, Held(g) + Permits(i, g) <= Capacity(g),
               \A l \in Calls, j \in Execs : Holds(l, j, g)' => Holds(l, j, g) \/ (l = k /\ j = i)
        PROVE  Held(g)' <= Capacity(g)'
    <3> DEFINE m == Permits(i, g)
               T == {<<k, i, n>> : n \in 1..m}
               f == [n \in 1..m |-> <<k, i, n>>]
    <3>0. m \in Nat /\ m >= 1
      BY <1>5
    <3>1. m \in Nat /\ IsFiniteSet(1..m) /\ Cardinality(1..m) = m
      <4> HIDE DEF m
      <4>1. IsFiniteSet(1..m) /\ Cardinality(1..m) = IF 1 > m THEN 0 ELSE m - 1 + 1
        BY <3>0, FS_Interval
      <4> QED
        BY <3>0, <4>1
    <3>2. IsFiniteSet(T) /\ Cardinality(T) <= m /\ Cardinality(T) \in Nat
      <4>1. f \in Surjection(1..m, T)
        BY DEF Surjection
      <4> QED
        BY <3>1, <4>1, FS_Surjection, FS_CardinalityType
    <3>3. HeldPermits(g)' \in SUBSET (HeldPermits(g) \cup T)
      <4> SUFFICES ASSUME NEW p \in HeldPermits(g)', p \notin HeldPermits(g)
                   PROVE  p \in T
        OBVIOUS
      <4>1. p \in Calls \X Execs \X (1..cfg.bound) /\ p[1] = k /\ p[2] = i /\ p[3] <= m
        BY <1>2, <1>3, <2>3
      <4>2. p = <<k, i, p[3]>> /\ p[3] \in 1..m
        BY <1>5, <4>1
      <4> QED
        BY <4>2
    <3> HIDE DEF T
    <3>4. /\ IsFiniteSet(HeldPermits(g) \cup T)
          /\ Cardinality(HeldPermits(g) \cup T) =
               Held(g) + Cardinality(T) - Cardinality(HeldPermits(g) \cap T)
      BY <1>5, <3>2, FS_Union DEF Held
    <3>5. Cardinality(HeldPermits(g) \cap T) \in Nat
      BY <1>5, FS_Intersection, FS_CardinalityType
    <3>6. Held(g)' \in Nat /\ Held(g)' <= Cardinality(HeldPermits(g) \cup T)
      BY <3>3, <3>4, FS_Subset, FS_CardinalityType DEF Held
    <3> HIDE DEF m
    <3>7. Held(g) + m <= Capacity(g)
      BY <2>3 DEF m
    <3> QED
      BY <1>5, <2>1, <3>1, <3>2, <3>4, <3>5, <3>6, <3>7
  <2> QED
    BY <1>0, <2>2, <2>3 DEF HoldMoves
<1>7. CASE ~Admitted /\ job' = job
  <2>1. \A k \in Calls, i \in Execs : Holds(k, i, g)' <=> Holds(k, i, g)
    <3> TAKE k \in Calls, i \in Execs
    <3>1. Applies(i, g)' <=> Applies(i, g)
      BY <1>0 DEF Applies
    <3> QED
      BY <1>7, <3>1, HoldsIs, HoldsIsNext
  <2>2. HeldPermits(g)' = HeldPermits(g)
    <3>1. \A p \in Calls \X Execs \X (1..cfg.bound) : p[1] \in Calls /\ p[2] \in Execs
      OBVIOUS
    <3>2. \A p \in Calls \X Execs \X (1..cfg.bound) : Holds(p[1], p[2], g)' <=> Holds(p[1], p[2], g)
      BY <2>1, <3>1
    <3>3. \A p : p \in HeldPermits(g)' <=> p \in HeldPermits(g)
      BY ONLY <1>2, <1>3, <3>2
    <3> QED
      BY ONLY <3>3
  <2>3. Held(g)' = Held(g)
    BY <2>2 DEF Held
  <2>4. CASE g # "invocation"
    <3>1. Capacity(g)' = Capacity(g)
      BY <1>0, <2>4 DEF Capacity, GateSet
    <3> QED
      BY <1>4, <2>3, <3>1
  <2>5. CASE g = "invocation"
    <3>1. ASSUME NEW p \in HeldPermits(g) PROVE FALSE
      <4>1. p[1] \in Calls /\ p[2] \in Execs /\ Holds(p[1], p[2], g)
        BY <1>2
      <4>2. p[2] \in Children /\ Behind(job[p[1]][p[2]], g)
        BY <2>5, <4>1, HoldsIs, ChildrenAre DEF Applies
      <4>3. job[p[1]][p[2]] \in GateSet \cup Permitted
        BY <4>2 DEF Behind, GateSet
      <4> QED
        BY <1>7, <4>1, <4>2, <4>3 DEF Attempts
    <3>2. Held(g) = 0
      BY <3>1, FS_EmptySet DEF Held
    <3>3. Capacity(g)' \in 1..8
      BY <1>0, <2>5, PermitsAre DEF Capacity
    <3> QED
      BY <2>3, <3>2, <3>3
  <2> QED
    BY <2>4, <2>5
<1> QED
  BY <1>0, <1>6, <1>7

LEMMA RootSeesJoinKept == ASSUME RootSeesJoin, Does PROVE RootSeesJoin'
<1>0. AttMoves /\ TaskMoves
  BY DEF Does
<1> SUFFICES ASSUME answer' # "none"
             PROVE  /\ \A c \in Children : att'[c] \in Ended /\ consumed'[c] = att'[c]
                    /\ answer' = "ok" <=> \A c \in Children : consumed'[c] = "Completed"
  BY DEF RootSeesJoin
<1>1. CASE answer' = answer
  <2>1. /\ \A c \in Children : att[c] \in Ended /\ consumed[c] = att[c]
        /\ answer = "ok" <=> \A c \in Children : consumed[c] = "Completed"
    BY <1>1 DEF RootSeesJoin
  <2>2. \A c \in Children : att'[c] = att[c]
    BY <1>0, <2>1, EndedStays, ChildrenAre
  <2>3. \A c \in Children : consumed'[c] = consumed[c]
    BY <1>0, <2>1 DEF TaskMoves, Ended
  <2> QED
    BY <1>1, <2>1, <2>2, <2>3
<1>2. CASE /\ answer' = Join /\ consumed' = consumed
           /\ \A c \in Children : att[c] \in Ended /\ consumed[c] = att[c]
  <2>1. \A c \in Children : att'[c] = att[c]
    BY <1>0, <1>2, EndedStays, ChildrenAre
  <2> QED
    BY <1>2, <2>1 DEF Join
<1> QED
  BY <1>0, <1>1, <1>2 DEF TaskMoves

LEMMA MembersAre ==
    ASSUME Does, task # "Active" \/ stage' = stage
    PROVE  Members' = Members
<1>1. \A c \in Children : InTask(c)' <=> InTask(c)
  BY DEF Does, AdmissionMoves, InTask
<1> QED
  BY <1>1 DEF Members

LEMMA VerdictBackedKept == ASSUME VerdictBacked, Does PROVE VerdictBacked'
<1>0. cfg' = cfg /\ AttMoves /\ TaskMoves
  BY DEF Does, AdmissionMoves
<1>m. Members \subseteq Execs /\ \A i \in Members : i # Root => i \in Children
  BY ChildrenAre DEF Members
<1>1. CASE task' = task /\ task # "Active"
  <2>1. Members' = Members
    BY <1>1, MembersAre
  <2>2. ASSUME task = "Completed", NEW i \in Members
        PROVE  att'[i] = "Completed" /\ (i # Root => consumed'[i] = "Completed")
    <3>1. att[i] = "Completed" /\ (i # Root => consumed[i] = "Completed")
      BY <2>2 DEF VerdictBacked
    <3>2. att'[i] = "Completed"
      BY <1>0, <1>m, <2>2, <3>1, EndedStays DEF Ended
    <3>3. ASSUME i # Root PROVE consumed'[i] = "Completed"
      BY <1>0, <1>m, <2>2, <3>1, <3>3 DEF TaskMoves
    <3> QED
      BY <3>2, <3>3
  <2>3. ASSUME task = "Failed", ~cfg.tokens
        PROVE  (\A i \in Members : att'[i] \in Ended) /\ \E i \in Members : att'[i] # "Completed"
    <3>1. (\A i \in Members : att[i] \in Ended) /\ \E i \in Members : att[i] # "Completed"
      BY <2>3 DEF VerdictBacked
    <3>2. \A i \in Members : att'[i] = att[i]
      BY <1>0, <1>m, <3>1, EndedStays
    <3> QED
      BY <3>1, <3>2
  <2> QED
    BY <1>0, <1>1, <2>1, <2>2, <2>3 DEF VerdictBacked
<1>2. CASE Finalizable /\ task' = Verdict /\ UNCHANGED <<att, consumed, stage>>
  <2>1. Members' = Members
    BY <1>2, MembersAre
  <2>2. /\ \A i \in Members : att[i] \in Ended
        /\ att[Root] = "Completed" => \A c \in Members \ {Root} : consumed[c] = att[c]
        /\ Root \in Members
    BY <1>2 DEF Finalizable, EveryTerminal, ChildrenConsumed, Members
  <2>3. CASE \A i \in Members : att[i] = "Completed"
    BY <1>2, <2>1, <2>2, <2>3 DEF VerdictBacked, Verdict
  <2>4. CASE \E i \in Members : att[i] # "Completed"
    BY <1>2, <2>1, <2>2, <2>4 DEF VerdictBacked, Verdict
  <2> QED
    BY <2>3, <2>4
<1>3. CASE task' \in {"Active", "Cancelled"} \/ (task' = "Failed" /\ cfg.tokens)
  BY <1>0, <1>3 DEF VerdictBacked
<1> QED
  BY <1>0, <1>1, <1>2, <1>3 DEF TaskMoves

LEMMA InvKept == ASSUME Inv, [Next]_vars PROVE Inv'
<1>1. Does
  BY NextDoes
<1>2. Types' /\ Admits'
  BY <1>1, TypesKept DEF Inv, Does, AdmissionMoves
<1> QED
  BY <1>1, <1>2, AttemptsKept, DrivesKept, GatedKept, RootSeesJoinKept, VerdictBackedKept DEF Inv

LEMMA InitInv == Init => Inv
<1> SUFFICES ASSUME Init PROVE Inv
  OBVIOUS
<1>1. \A k \in Calls, i \in Execs : job[k][i] = "none"
  BY DEF Init, NoJobs
<1>2. Types
  <2>1. NoCall \in HostCalls
    BY ChildrenAre DEF NoCall, HostCalls
  <2>2. cfg.calls \in Nat /\ cfg.crashes \in Nat
    BY DelegationAssumption DEF Init
  <2>3. adm \in Admissions
    BY ChildrenAre DEF Init, Admissions
  <2>4. job \in [Calls -> [Execs -> Places]]
    BY DEF Init, NoJobs, Places
  <2>5. used \in [calls : 0..cfg.calls, crashes : 0..cfg.crashes]
    BY <2>2 DEF Init
  <2> QED
    BY <2>1, <2>3, <2>4, <2>5 DEF Init, Types, AttStates, Linked
<1>3. Admits
  BY DEF Init, Admits, Admitted
<1>4. Attempts
  BY <1>1, ChildrenAre DEF Init, Attempts, GateSet, Permitted
<1>5. Drives
  BY DEF Init, Drives, NoCall
<1>6. Gated
  <2> SUFFICES ASSUME NEW g \in GateSet PROVE Held(g) <= Capacity(g)
    BY DEF Gated
  <2>1. ASSUME NEW p \in HeldPermits(g) PROVE FALSE
    <3>1. p[1] \in Calls /\ p[2] \in Execs /\ Holds(p[1], p[2], g)
      BY DEF HeldPermits
    <3>2. Behind("none", g)
      BY <1>1, <3>1, HoldsIs
    <3> QED
      BY <3>2 DEF Behind, Permitted
  <2>2. Held(g) = 0
    BY <2>1, FS_EmptySet DEF Held
  <2>3. Capacity(g) \in Nat
    BY <1>2, PermitsAre DEF Capacity
  <2> QED
    BY <2>2, <2>3
<1>7. RootSeesJoin /\ VerdictBacked
  BY DEF Init, RootSeesJoin, VerdictBacked
<1> QED
  BY <1>2, <1>3, <1>4, <1>5, <1>6, <1>7 DEF Inv

\* The inductive invariant: types, how far the admission is, who runs what, what
\* a pump drives and what the gates have given out.
THEOREM DelegationInvariant == Spec => []Inv
<1>1. Init => Inv
  BY InitInv
<1>2. Inv /\ [Next]_vars => Inv'
  BY InvKept
<1> QED
  BY <1>1, <1>2, PTL DEF Spec

----------------------------------------------------------------------------
\* What runs at one time.

\* Two executions behind a gate leave no room for one that takes all of it.
LEMMA TwoHolders ==
    ASSUME Inv, NEW g \in GateSet, NEW k \in Calls, NEW i \in Execs, NEW l \in Calls, NEW j \in Execs,
           <<k, i>> # <<l, j>>, Holds(k, i, g), Holds(l, j, g)
    PROVE  Permits(i, g) + 1 <= Capacity(g)
<1> DEFINE m == Permits(i, g)
           f == [n \in 0..m |-> IF n = 0 THEN <<l, j, 1>> ELSE <<k, i, n>>]
<1>1. /\ Types /\ Held(g) <= Capacity(g) /\ IsFiniteSet(HeldPermits(g)) /\ Held(g) \in Nat
      /\ cfg.bound \in Nat /\ m \in 1..cfg.bound /\ Permits(j, g) \in 1..cfg.bound /\ cfg.maxParallel \in 1..8
  BY PermitsAre DEF Inv, Gated
<1>2. f \in Injection(0..m, HeldPermits(g))
  <2>1. <<l, j, 1>> \in HeldPermits(g)
    BY <1>1 DEF HeldPermits
  <2>2. \A n \in 1..m : <<k, i, n>> \in HeldPermits(g)
    BY <1>1 DEF HeldPermits
  <2> HIDE DEF m
  <2>3. f \in [0..m -> HeldPermits(g)]
    BY <1>1, <2>1, <2>2
  <2>4. \A a, b \in 0..m : f[a] = f[b] => a = b
    BY <1>1
  <2> QED
    BY <2>3, <2>4 DEF Injection, IsInjective
<1> HIDE DEF f, m
<1>3. Cardinality(0..m) <= Held(g)
  BY <1>1, <1>2, FS_Injection DEF Held
<1>4. Cardinality(0..m) = m + 1
  <2>1. Cardinality(0..m) = IF 0 > m THEN 0 ELSE m - 0 + 1
    BY <1>1, FS_Interval
  <2> QED
    BY <1>1, <2>1
<1>5. Capacity(g) \in Nat
  BY <1>1 DEF Capacity
<1> QED
  BY <1>1, <1>3, <1>4, <1>5 DEF m

LEMMA HostIsEnough == ASSUME Inv PROVE RunsFitHost
<1>0. Types /\ Attempts /\ cfg.bound \in {1, 2, 4}
  BY PermitsAre DEF Inv, GateSet
<1>1. ASSUME NEW x \in Physical, NEW g \in GateSet, Applies(x[2], g)
      PROVE  x[1] \in Calls /\ x[2] \in Execs /\ x = <<x[1], x[2]>> /\ Holds(x[1], x[2], g)
  BY <1>1, HoldsIs DEF Physical, Behind, Permitted
<1>2. "host" \in GateSet /\ \A i : Applies(i, "host")
  BY DEF GateSet, Applies
<1>3. Cardinality(Physical) <= cfg.bound
  <2> DEFINE f == [x \in Physical |-> <<x[1], x[2], 1>>]
  <2>1. \A x \in Physical : x = <<x[1], x[2]>> /\ <<x[1], x[2], 1>> \in HeldPermits("host")
    <3> SUFFICES ASSUME NEW x \in Physical
                 PROVE  x = <<x[1], x[2]>> /\ <<x[1], x[2], 1>> \in HeldPermits("host")
      OBVIOUS
    <3>1. x[1] \in Calls /\ x[2] \in Execs /\ x = <<x[1], x[2]>> /\ Holds(x[1], x[2], "host")
      BY <1>1, <1>2
    <3>2. Permits(x[2], "host") \in 1..cfg.bound
      BY <1>0, <1>2, PermitsAre
    <3>3. 1 \in 1..cfg.bound /\ 1 <= Permits(x[2], "host")
      BY <1>0, <3>2
    <3> QED
      BY <3>1, <3>3 DEF HeldPermits
  <2>2. f \in Injection(Physical, HeldPermits("host"))
    <3>1. f \in [Physical -> HeldPermits("host")]
      BY <2>1
    <3>2. \A x, y \in Physical : f[x] = f[y] => x = y
      BY <2>1
    <3> QED
      BY <3>1, <3>2 DEF Injection, IsInjective
  <2> HIDE DEF f
  <2>3. IsFiniteSet(HeldPermits("host")) /\ Held("host") \in Nat /\ Held("host") <= Capacity("host")
    BY <1>0, <1>2, PermitsAre DEF Inv, Gated
  <2>4. Cardinality(Physical) <= Held("host") /\ Cardinality(Physical) \in Nat
    BY <2>2, <2>3, FS_Injection, FS_CardinalityType DEF Held
  <2>5. Capacity("host") = cfg.bound
    BY DEF Capacity
  <2> QED
    BY <1>0, <2>3, <2>4, <2>5
<1>4. ASSUME NEW x \in Physical, NEW y \in Physical, x # y
      PROVE  /\ x[2] \in cfg.readers /\ ~cfg.tokens
             /\ x[2] # Root /\ y[2] # Root => ~Serialized /\ x[2] # y[2]
  <2>0. x = <<x[1], x[2]>> /\ y = <<y[1], y[2]>> /\ x[1] \in Calls /\ y[1] \in Calls /\ x[2] \in Execs /\ y[2] \in Execs
    BY <1>1, <1>2
  <2>1. ASSUME NEW g \in GateSet, Applies(x[2], g), Applies(y[2], g)
        PROVE  Permits(x[2], g) + 1 <= Capacity(g)
    BY <1>1, <1>4, <2>0, <2>1, TwoHolders
  <2>2. x[2] \in cfg.readers
    <3> SUFFICES ASSUME x[2] \notin cfg.readers PROVE FALSE
      OBVIOUS
    <3>1. Permits(x[2], "host") = cfg.bound /\ Capacity("host") = cfg.bound
      BY DEF Permits, Capacity
    <3> QED
      BY <1>0, <1>2, <2>1, <3>1
  <2>3. ~cfg.tokens
    <3> SUFFICES ASSUME cfg.tokens PROVE FALSE
      OBVIOUS
    <3>1. Permits(x[2], "task") = 1 /\ Capacity("task") = 1
      BY DEF Permits, Capacity
    <3>2. "task" \in GateSet /\ Applies(x[2], "task") /\ Applies(y[2], "task")
      BY DEF GateSet, Applies
    <3> QED
      BY <2>1, <3>1, <3>2
  <2>4. ASSUME x[2] # Root, y[2] # Root PROVE ~Serialized
    <3> SUFFICES ASSUME Serialized PROVE FALSE
      OBVIOUS
    <3>1. Permits(x[2], "invocation") = 1 /\ Capacity("invocation") = 1
      BY DEF Permits, Capacity
    <3>2. "invocation" \in GateSet /\ Applies(x[2], "invocation") /\ Applies(y[2], "invocation")
      BY <2>4 DEF GateSet, Applies
    <3> QED
      BY <2>1, <3>1, <3>2
  <2>5. x[2] # y[2]
    BY <1>0, <1>4, <2>0 DEF Attempts, Physical
  <2> QED
    BY <2>2, <2>3, <2>4, <2>5
<1> QED
  BY <1>3, <1>4 DEF RunsFitHost

----------------------------------------------------------------------------
\* The theorems.

\* However admission, pumps, cancellations and crashes interleave, a child has an
\* attempt only behind the whole committed admission, an execution is run once,
\* and what runs at one time fits the host: the permits that admission of
\* runner.rs counts are enough, though the plan is checked before and after them.
THEOREM ChildRunsAreSound == Spec => []ChildRunsSound
<1>1. Inv => ChildRunsSound
  <2> SUFFICES ASSUME Inv PROVE ChildRunsSound
    OBVIOUS
  <2>1. TypeOK
    BY DEF Inv, Types, TypeOK, AttStates
  <2>2. DrivenAfterAdmission
    BY DEF Inv, Attempts, Admits, DrivenAfterAdmission
  <2>3. RunsOnce
    BY DEF Inv, Types, RunsOnce
  <2> QED
    BY <2>1, <2>2, <2>3, HostIsEnough DEF ChildRunsSound
<1> QED
  BY <1>1, DelegationInvariant, PTL

\* The root is resumed only with what verify_result accepts, and the children it
\* joined stay ended and consumed as they were then.
THEOREM RootSeesTheJoin == Spec => []RootSeesJoin
<1>1. Inv => RootSeesJoin
  BY DEF Inv
<1> QED
  BY <1>1, DelegationInvariant, PTL

\* What finalize_task decided stays backed: nothing joins the Task afterwards and
\* no member leaves its terminal.
THEOREM VerdictIsBacked == Spec => []VerdictBacked
<1>1. Inv => VerdictBacked
  BY DEF Inv
<1> QED
  BY <1>1, DelegationInvariant, PTL

\* A Task that is over starts nothing, through whatever gates a call still holds.
THEOREM NothingStartsWhenOver == Spec => OverStartsNothing
<1>1. ASSUME Inv, [Next]_vars, task # "Active"
      PROVE  /\ runs' = runs /\ consumed' = consumed /\ answer' = answer
             /\ \A i \in Execs : att[i] = "Suspended" /\ att'[i] = "Running" =>
                   task = "Cancelled" /\ cfg.policy = "RootOnly" /\ i # Root /\ ~creq[i]
  <2>1. Types /\ AttMoves /\ TaskMoves
    BY <1>1, NextDoes DEF Inv, Does
  <2>2. runs' = runs
    <3>1. \A i \in Execs : runs'[i] = runs[i]
      BY <1>1, <2>1 DEF AttMoves
    <3>2. runs \in [Execs -> 0..1] /\ runs' \in [Execs -> 0..1]
      BY <2>1 DEF Types, AttMoves
    <3> QED
      BY <3>1, <3>2
  <2>3. consumed' = consumed
    <3>1. \A c \in Children : consumed'[c] = consumed[c]
      BY <1>1, <2>1 DEF TaskMoves
    <3>2. consumed \in [Children -> Ended \cup {"none"}] /\ consumed' \in [Children -> Ended \cup {"none"}]
      BY <2>1 DEF Types, TaskMoves
    <3> QED
      BY <3>1, <3>2
  <2>4. answer' = answer
    BY <1>1, <2>1 DEF TaskMoves
  <2>5. ASSUME NEW i \in Execs, att[i] = "Suspended", att'[i] = "Running"
        PROVE  task = "Cancelled" /\ cfg.policy = "RootOnly" /\ i # Root /\ ~creq[i]
    <3>1. Detached(i)
      BY <1>1, <2>1, <2>5 DEF AttMoves
    <3> QED
      BY <3>1 DEF Detached
  <2> QED
    BY <2>2, <2>3, <2>4, <2>5
<1>2. Inv /\ [Next]_vars =>
        [task # "Active" =>
          /\ runs' = runs /\ consumed' = consumed /\ answer' = answer
          /\ \A i \in Execs : att[i] = "Suspended" /\ att'[i] = "Running" =>
                task = "Cancelled" /\ cfg.policy = "RootOnly" /\ i # Root /\ ~creq[i]]_vars
  BY <1>1
<1> QED
  BY <1>2, DelegationInvariant, PTL DEF Spec, OverStartsNothing
=============================================================================
