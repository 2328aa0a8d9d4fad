--------------------------- MODULE TaskDriverProofs ---------------------------
(***************************************************************************)
(* Proofs about TaskDriver for every topology, limit, number of driver     *)
(* calls and length of the executions.  First the Task reducer: what every *)
(* snapshot satisfies (Sane), that each command preserves it, and which    *)
(* step of TaskPromise it takes.  On that ground: the driver over its two  *)
(* stores implements TaskPromise, cancellations stick, no effect takes     *)
(* place in two attempts, and a completed Task is backed by its            *)
(* executions.                                                             *)
(***************************************************************************)
EXTENDS TaskDriver, FiniteSetTheorems, SequenceTheorems, WellFoundedInduction, TLAPS

----------------------------------------------------------------------------
\* The sum of the reserved Steps.

\* A non-empty set of naturals has a smallest element.
LEMMA Smallest ==
    ASSUME NEW S \in SUBSET Nat, S # {}
    PROVE  \E x \in S : \A y \in S : x <= y
<1> DEFINE R == OpToRel(<, Nat)
<1>1. PICK x \in S : \A y \in S : <<y, x>> \notin R
  BY WFMin, NatLessThanWellFounded, Zenon
<1>2. \A y \in S : ~(y < x)
  BY <1>1 DEF OpToRel
<1> QED
  BY <1>2

Pick(s) == CHOOSE x \in s : TRUE

\* g sums f over the subsets of S, the way a fold walks them.
SumStep(f, g, s) == IF s = {} THEN 0 ELSE f[Pick(s)] + g[s \ {Pick(s)}]
Sums(f, S, g) == g = [s \in SUBSET S |-> SumStep(f, g, s)]

\* A set without its picked element is smaller.
LEMMA PickSmaller ==
    ASSUME NEW S, IsFiniteSet(S), NEW s \in SUBSET S
    PROVE  /\ IsFiniteSet(s) /\ Cardinality(s) \in Nat /\ Cardinality(s) <= Cardinality(S)
           /\ Cardinality(S) \in Nat
           /\ s = {} <=> Cardinality(s) = 0
           /\ s # {} => /\ Pick(s) \in s /\ s \ {Pick(s)} \in SUBSET S
                        /\ Cardinality(s \ {Pick(s)}) = Cardinality(s) - 1
<1>1. IsFiniteSet(s) /\ Cardinality(s) <= Cardinality(S)
  BY FS_Subset
<1>2. Cardinality(s) \in Nat /\ Cardinality(S) \in Nat
  BY <1>1, FS_CardinalityType
<1>3. s = {} <=> Cardinality(s) = 0
  BY <1>1, FS_EmptySet
<1>4. ASSUME s # {}
      PROVE  /\ Pick(s) \in s /\ s \ {Pick(s)} \in SUBSET S
             /\ Cardinality(s \ {Pick(s)}) = Cardinality(s) - 1
  <2>1. Pick(s) \in s
    BY <1>4 DEF Pick
  <2> QED
    BY <1>1, <2>1, FS_RemoveElement
<1> QED
  BY <1>1, <1>2, <1>3, <1>4

\* Such a sum exists.
LEMMA SumExists ==
    ASSUME NEW S, IsFiniteSet(S), NEW f \in [S -> Nat]
    PROVE  \E g : Sums(f, S, g)
<1> DEFINE UpTo(n, g) == /\ g \in [SUBSET S -> Nat]
                         /\ \A s \in SUBSET S : Cardinality(s) <= n => g[s] = SumStep(f, g, s)
           Bad == {n \in Nat : ~\E g : UpTo(n, g)}
<1>1. Bad = {}
  <2> SUFFICES ASSUME Bad # {}
               PROVE  FALSE
    OBVIOUS
  <2>1. PICK n \in Bad : \A m \in Bad : n <= m
    <3>1. Bad \in SUBSET Nat
      OBVIOUS
    <3> HIDE DEF Bad
    <3> QED
      BY <3>1, Smallest
  <2>2. n \in Nat /\ ~\E g : UpTo(n, g)
    OBVIOUS
  <2>0. \A m \in Nat : m \notin Bad => \E g : UpTo(m, g)
    OBVIOUS
  <2> HIDE DEF Bad, UpTo
  <2>3. CASE n = 0
    <3> DEFINE g == [s \in SUBSET S |-> 0]
    <3>1. \A s \in SUBSET S : Cardinality(s) <= 0 => s = {}
      <4> SUFFICES ASSUME NEW s \in SUBSET S, Cardinality(s) <= 0
                   PROVE  s = {}
        OBVIOUS
      <4>1. Cardinality(s) \in Nat /\ (s = {} <=> Cardinality(s) = 0)
        BY PickSmaller
      <4> QED
        BY <4>1
    <3>2. \A s \in SUBSET S : Cardinality(s) <= 0 => g[s] = SumStep(f, g, s)
      BY <3>1 DEF SumStep
    <3>4. g \in [SUBSET S -> Nat]
      OBVIOUS
    <3>3. UpTo(n, g)
      BY <2>3, <3>2, <3>4 DEF UpTo
    <3> QED
      BY <2>2, <3>3
  <2>4. CASE n # 0
    <3>1. n - 1 \in Nat /\ n - 1 \notin Bad
      BY <2>1, <2>2, <2>4
    <3>2. PICK g : UpTo(n - 1, g)
      BY <2>0, <3>1
    <3>0. g \in [SUBSET S -> Nat]
      BY <3>2 DEF UpTo
    <3> DEFINE h == [s \in SUBSET S |-> SumStep(f, g, s)]
    <3>3. \A s \in SUBSET S : SumStep(f, g, s) \in Nat
      <4> SUFFICES ASSUME NEW s \in SUBSET S, s # {}
                   PROVE  f[Pick(s)] + g[s \ {Pick(s)}] \in Nat
        BY DEF SumStep
      <4>1. Pick(s) \in S /\ s \ {Pick(s)} \in SUBSET S
        BY PickSmaller
      <4> QED
        BY <4>1, <3>0
    <3>4. h \in [SUBSET S -> Nat]
      BY <3>3
    <3>5. ASSUME NEW s \in SUBSET S, Cardinality(s) <= n
          PROVE  h[s] = SumStep(f, h, s)
      <4>1. CASE s = {}
        BY <4>1 DEF SumStep
      <4>2. CASE s # {}
        <5>1. s \ {Pick(s)} \in SUBSET S /\ Cardinality(s \ {Pick(s)}) <= n - 1
          BY <2>2, <3>5, <4>2, PickSmaller
        <5>2. g[s \ {Pick(s)}] = h[s \ {Pick(s)}]
          BY <3>2, <5>1 DEF UpTo
        <5>3. h[s] = SumStep(f, g, s)
          OBVIOUS
        <5> QED
          BY <4>2, <5>2, <5>3 DEF SumStep
      <4> QED
        BY <4>1, <4>2
    <3>6. UpTo(n, h)
      BY <3>4, <3>5 DEF UpTo
    <3> QED
      BY <2>2, <3>6
  <2> QED
    BY <2>3, <2>4
<1>2. Cardinality(S) \in Nat
  BY FS_CardinalityType
<1>3. PICK g : UpTo(Cardinality(S), g)
  BY <1>1, <1>2
<1>4. \A s \in SUBSET S : g[s] = SumStep(f, g, s)
  BY <1>3, PickSmaller
<1>5. g = [s \in SUBSET S |-> SumStep(f, g, s)]
  BY <1>3, <1>4
<1> QED
  BY <1>5 DEF Sums

\* What holds of a set whenever it holds of all smaller ones holds of every subset: the least
\* cardinality of a counterexample.
LEMMA LeastSet ==
    ASSUME NEW S, IsFiniteSet(S), NEW B \in SUBSET (SUBSET S), B # {}
    PROVE  \E s \in B : \A r \in B : Cardinality(s) <= Cardinality(r)
<1> DEFINE C == {Cardinality(s) : s \in B}
<1>1. C \in SUBSET Nat /\ C # {}
  <2>1. \A s \in B : Cardinality(s) \in Nat
    BY PickSmaller
  <2> QED
    BY <2>1
<1>2. PICK x \in C : \A y \in C : x <= y
  <2> HIDE DEF C
  <2> QED
    BY <1>1, Smallest
<1> QED
  BY <1>2

\* A sum is a natural, and adds what a new element brings.
LEMMA SumAdds ==
    ASSUME NEW S, IsFiniteSet(S), NEW f \in [S -> Nat], NEW g, Sums(f, S, g)
    PROVE  /\ \A s \in SUBSET S : g[s] \in Nat
           /\ \A s \in SUBSET S, a \in S : a \notin s => g[s \cup {a}] = g[s] + f[a]
<1>1. \A s \in SUBSET S : g[s] = SumStep(f, g, s)
  BY DEF Sums
<1>2. \A s \in SUBSET S : g[s] \in Nat
  <2> DEFINE B == {s \in SUBSET S : g[s] \notin Nat}
  <2> SUFFICES ASSUME B # {}
               PROVE  FALSE
    OBVIOUS
  <2>1. PICK s \in B : \A r \in B : Cardinality(s) <= Cardinality(r)
    <3>1. B \in SUBSET (SUBSET S)
      OBVIOUS
    <3> HIDE DEF B
    <3> QED
      BY <3>1, LeastSet
  <2>2. s # {}
    BY <1>1 DEF SumStep
  <2>3. s \ {Pick(s)} \in SUBSET S /\ s \ {Pick(s)} \notin B /\ Pick(s) \in S
    BY <2>1, <2>2, PickSmaller
  <2> QED
    BY <1>1, <2>2, <2>3 DEF SumStep
<1>3. \A s \in SUBSET S, a \in S : a \notin s => g[s \cup {a}] = g[s] + f[a]
  <2> DEFINE B == {s \in SUBSET S : \E a \in S : a \notin s /\ g[s \cup {a}] # g[s] + f[a]}
  <2> SUFFICES ASSUME B # {}
               PROVE  FALSE
    OBVIOUS
  <2>1. PICK s \in B : \A r \in B : Cardinality(s) <= Cardinality(r)
    <3>1. B \in SUBSET (SUBSET S)
      OBVIOUS
    <3> HIDE DEF B
    <3> QED
      BY <3>1, LeastSet
  <2>2. PICK a \in S : a \notin s /\ g[s \cup {a}] # g[s] + f[a]
    OBVIOUS
  <2>0. s \in SUBSET S /\ \A r \in SUBSET S : r \notin B => \A b \in S : b \notin r => g[r \cup {b}] = g[r] + f[b]
    OBVIOUS
  <2> HIDE DEF B
  <2>3. PICK x \in s \cup {a} : x = Pick(s \cup {a})
    BY DEF Pick
  <2>4. s \cup {a} \in SUBSET S /\ g[s \cup {a}] = f[x] + g[(s \cup {a}) \ {x}]
    BY <1>1, <2>0, <2>3 DEF SumStep
  <2>5. CASE x = a
    <3>1. (s \cup {a}) \ {x} = s
      BY <2>2, <2>5
    <3>2. g[s \cup {a}] = f[a] + g[s] /\ g[s] \in Nat /\ f[a] \in Nat
      BY <1>2, <2>0, <2>4, <2>5, <3>1
    <3> QED
      BY <2>2, <3>2
  <2>6. CASE x # a
    <3> DEFINE r == s \ {x}
    <3>1. r \in SUBSET S /\ x \in S /\ x \notin r /\ a \notin r
      BY <2>0, <2>2, <2>3, <2>6
    <3>2. IsFiniteSet(s) /\ x \in s
      BY <2>0, <2>3, <2>6, PickSmaller
    <3>3. Cardinality(r) = Cardinality(s) - 1 /\ Cardinality(s) \in Nat
      BY <3>2, FS_RemoveElement, FS_CardinalityType
    <3>4. r \notin B
      BY <2>1, <3>3
    <3>5. g[r \cup {a}] = g[r] + f[a] /\ g[r \cup {x}] = g[r] + f[x]
      BY <2>0, <3>1, <3>4
    <3>6. (s \cup {a}) \ {x} = r \cup {a} /\ r \cup {x} = s
      BY <2>2, <2>6, <3>2
    <3>7. g[r] \in Nat /\ f[a] \in Nat /\ f[x] \in Nat
      BY <1>2, <3>1
    <3>8. g[s \cup {a}] = f[x] + g[r \cup {a}] /\ g[s] = g[r] + f[x]
      BY <2>4, <3>5, <3>6
    <3> QED
      BY <2>2, <3>5, <3>7, <3>8
  <2> QED
    BY <2>5, <2>6
<1> QED
  BY <1>2, <1>3

\* Sums over a set on which two functions agree are equal.
LEMMA SumAgrees ==
    ASSUME NEW S, IsFiniteSet(S), NEW f \in [S -> Nat], NEW h \in [S -> Nat],
           NEW g, Sums(f, S, g), NEW k, Sums(h, S, k), NEW w \in SUBSET S, \A a \in w : f[a] = h[a]
    PROVE  g[w] = k[w]
<1>1. \A s \in SUBSET S : g[s] = SumStep(f, g, s) /\ k[s] = SumStep(h, k, s)
  BY DEF Sums
<1> DEFINE B == {s \in SUBSET w : g[s] # k[s]}
<1>2. B = {}
  <2> SUFFICES ASSUME B # {}
               PROVE  FALSE
    OBVIOUS
  <2>1. PICK s \in B : \A r \in B : Cardinality(s) <= Cardinality(r)
    <3>1. B \in SUBSET (SUBSET S)
      OBVIOUS
    <3> HIDE DEF B
    <3> QED
      BY <3>1, LeastSet
  <2>2. s # {}
    BY <1>1 DEF SumStep
  <2>3. s \ {Pick(s)} \in SUBSET w /\ s \ {Pick(s)} \notin B /\ Pick(s) \in w
    BY <2>1, <2>2, PickSmaller
  <2> QED
    BY <1>1, <2>2, <2>3 DEF SumStep
<1> QED
  BY <1>2

\* A sum of zeros is zero.
LEMMA SumZero ==
    ASSUME NEW S, IsFiniteSet(S), NEW f \in [S -> Nat], NEW g, Sums(f, S, g), \A a \in S : f[a] = 0
    PROVE  g[S] = 0
<1>1. \A s \in SUBSET S : g[s] = SumStep(f, g, s)
  BY DEF Sums
<1> DEFINE B == {s \in SUBSET S : g[s] # 0}
<1>2. B = {}
  <2> SUFFICES ASSUME B # {}
               PROVE  FALSE
    OBVIOUS
  <2>1. PICK s \in B : \A r \in B : Cardinality(s) <= Cardinality(r)
    <3>1. B \in SUBSET (SUBSET S)
      OBVIOUS
    <3> HIDE DEF B
    <3> QED
      BY <3>1, LeastSet
  <2>2. s # {}
    BY <1>1 DEF SumStep
  <2>3. s \ {Pick(s)} \in SUBSET S /\ s \ {Pick(s)} \notin B /\ Pick(s) \in S
    BY <2>1, <2>2, PickSmaller
  <2> QED
    <3>1. g[s \ {Pick(s)}] = 0 /\ f[Pick(s)] = 0
      BY <2>3
    <3> QED
      BY <1>1, <2>2, <3>1 DEF SumStep
<1> QED
  BY <1>2

\* Reserved is a sum over the attempts.
LEMMA ReservedIsSum ==
    ASSUME NEW t, t.reserved \in [Attempts -> Nat]
    PROVE  \E g : Sums(t.reserved, Attempts, g) /\ Reserved(t) = g[Attempts]
<1> DEFINE g == CHOOSE h : Sums(t.reserved, Attempts, h)
<1>1. Sums(t.reserved, Attempts, g)
  BY SumExists, TopologyAssumption
<1>2. Reserved(t) = g[Attempts]
  BY DEF Reserved, FoldFunction, FoldFunctionOnSet, MapThenFoldSet, Sums, SumStep, Pick
<1> QED
  BY <1>1, <1>2

\* What is reserved is a number, equal for equal reservations.
LEMMA ReservedType ==
    ASSUME NEW t, t.reserved \in [Attempts -> Nat]
    PROVE  Reserved(t) \in Nat /\ \A u : u.reserved = t.reserved => Reserved(u) = Reserved(t)
<1>1. PICK g : Sums(t.reserved, Attempts, g) /\ Reserved(t) = g[Attempts]
  BY ReservedIsSum
<1>2. Reserved(t) \in Nat
  BY <1>1, SumAdds, TopologyAssumption
<1>3. \A u : u.reserved = t.reserved => Reserved(u) = Reserved(t)
  BY DEF Reserved
<1> QED
  BY <1>2, <1>3

\* A reservation for an attempt that had none adds its Steps.
LEMMA ReservedAdds ==
    ASSUME NEW t, t.reserved \in [Attempts -> Nat], NEW a \in Attempts, t.reserved[a] = 0, NEW n \in Nat,
           NEW u, u.reserved = [t.reserved EXCEPT ![a] = n]
    PROVE  Reserved(u) = Reserved(t) + n
<1>1. PICK g : Sums(t.reserved, Attempts, g) /\ Reserved(t) = g[Attempts]
  BY ReservedIsSum
<1>0. PICK h : h = u.reserved
  OBVIOUS
<1>2. h \in [Attempts -> Nat] /\ h[a] = n
  BY <1>0
<1>3. PICK k : Sums(h, Attempts, k) /\ Reserved(u) = k[Attempts]
  BY <1>0, <1>2, ReservedIsSum
<1> DEFINE w == Attempts \ {a}
<1>4. w \in SUBSET Attempts /\ a \notin w /\ w \cup {a} = Attempts
  OBVIOUS
<1>5. g[w] = k[w]
  <2>1. \A b \in w : t.reserved[b] = h[b]
    BY <1>0
  <2> QED
    BY <1>1, <1>2, <1>3, <1>4, <2>1, SumAgrees, TopologyAssumption
<1>6. g[w \cup {a}] = g[w] + t.reserved[a] /\ g[w] \in Nat
  <2> HIDE DEF w
  <2> QED
    BY <1>1, <1>4, SumAdds, TopologyAssumption
<1>7. k[w \cup {a}] = k[w] + h[a]
  <2> HIDE DEF w
  <2> QED
    BY <1>2, <1>3, <1>4, SumAdds, TopologyAssumption
<1> HIDE DEF w
<1>9. g[Attempts] = g[w] /\ k[Attempts] = k[w] + n
  <2>1. Attempts = w \cup {a}
    BY <1>4
  <2>2. g[w \cup {a}] = g[w] /\ k[w \cup {a}] = k[w] + n
    BY <1>2, <1>6, <1>7
  <2> QED
    BY <2>1, <2>2
<1> QED
  BY <1>1, <1>3, <1>5, <1>9

----------------------------------------------------------------------------
\* What every snapshot of the reducer satisfies.

InvRecs == [state : InvStates, attempts : Seq(Attempts), deps : SUBSET Invocations,
            consumed : [Invocations -> Outcomes \cup {"no"}],
            terminal : BOOLEAN, cancelled : BOOLEAN]
AttRecs == [state : Stopped \cup Stoppable \cup {"none"}, cursor : Nat,
            outcome : Outcomes \cup {"none"}, checkpoint : Nat,
            cancelled : BOOLEAN, retry : BOOLEAN]
Tasks == [def : Definition, state : TaskStates, inv : [Invocations -> InvRecs],
          att : [Attempts -> AttRecs], used : Nat, budgeted : BOOLEAN,
          reserved : [Attempts -> Nat],
          goal : {"none", "satisfied", "unmet", "indeterminate"}]

\* an invocation that was attempted is in the state of its latest attempt
Heads(t) == \A i \in Invocations :
    IF t.inv[i].attempts = <<>> THEN t.inv[i].state \in {"none", "Admitted", "Cancelled"}
    ELSE /\ Latest(t, i) \in Started(t) /\ Owner[Latest(t, i)] = i
         /\ t.inv[i].state = t.att[Latest(t, i)].state

\* an attempt is followed by another one only if its retry was authorized
Chain(t) == \A a \in Started(t) : IsLatest(t, a) \/ t.att[a].retry

Marks(t) == \A a \in Attempts :
    /\ t.att[a].retry => t.att[a].state = "Failed"
    /\ t.att[a].cancelled => a \in Started(t) /\ ~IsOpen(t)
    /\ a \notin Started(t) => t.reserved[a] = 0
    /\ t.att[a].state = "Completed" => t.att[a].outcome = "Completed"

\* an invocation that completed waits for no result
Joined(t) == \A i \in Invocations : t.inv[i].state = "Completed" => Pending(t, i) = {}
Over(t) == t.state = "completed" => \A i \in Admitted(t) : t.inv[i].state = "Completed"

Sane(t) == t \in Tasks /\ Heads(t) /\ Chain(t) /\ Marks(t) /\ Joined(t) /\ Over(t)

----------------------------------------------------------------------------
\* The commands that start, stop or end nothing.

\* the attempts, their Steps and the state of the Task stay as they were
Quiet(t, u) ==
    /\ u.def = t.def /\ u.state = t.state /\ u.att = t.att /\ u.reserved = t.reserved
    /\ \A i \in Invocations : u.inv[i].attempts = t.inv[i].attempts

\* Pending results are read off the dependencies, the results and the calls.
LEMMA PendingIs ==
    ASSUME NEW t \in Tasks, NEW i \in Invocations
    PROVE  \A j : j \in Pending(t, i) <=>
              /\ j \in t.inv[i].deps \/ (j \in Admitted(t) \ ({Root} \cup Continuations) /\ Parent[j] = i)
              /\ t.inv[i].consumed[j] = "no"
  BY DEF Pending, RequiredResults, HasConsumed

\* When no call is admitted and no result required anew, a completed invocation stays joined.
LEMMA JoinedStays ==
    ASSUME NEW t \in Tasks, NEW u \in Tasks, Joined(t), Admitted(u) \subseteq Admitted(t),
           \A i \in Invocations : u.inv[i].state = "Completed" =>
              /\ t.inv[i].state = "Completed"
              /\ u.inv[i].deps = t.inv[i].deps
              /\ \A j : t.inv[i].consumed[j] # "no" => u.inv[i].consumed[j] # "no"
    PROVE  Joined(u)
<1> SUFFICES ASSUME NEW i \in Invocations, u.inv[i].state = "Completed", NEW j \in Pending(u, i)
             PROVE  FALSE
  BY DEF Joined
<1>1. j \in Pending(t, i)
  BY PendingIs
<1> QED
  BY <1>1 DEF Joined

\* Invocations are admitted, given dependencies and fed results beside their attempts: as long as
\* none changes in or out of an attempted state, a sane snapshot stays one.
LEMMA QuietSane ==
    ASSUME NEW t, Sane(t), NEW u \in Tasks, Quiet(t, u), Joined(u), Over(u),
           \A i \in Invocations : t.inv[i].attempts # <<>> => u.inv[i].state = t.inv[i].state,
           \A i \in Invocations : t.inv[i].attempts = <<>> =>
              u.inv[i].state \in {"none", "Admitted", "Cancelled"}
    PROVE  Sane(u)
<1>1. Started(u) = Started(t)
  BY DEF Quiet, Started
<1>2. \A i \in Invocations : Latest(u, i) = Latest(t, i)
  BY DEF Latest, Quiet
<1>3. Heads(u)
  BY <1>1, <1>2 DEF Heads, Sane, Quiet
<1>4. Chain(u)
  BY <1>1, <1>2, TopologyAssumption DEF Chain, Sane, Quiet, IsLatest, Started
<1>5. Marks(u)
  BY <1>1 DEF Marks, Sane, Quiet, IsOpen
<1> QED
  BY <1>3, <1>4, <1>5 DEF Sane

\* Admission of an invocation.
LEMMA AdmitSane ==
    ASSUME NEW t, Sane(t), NEW i \in Invocations, NEW deps \in SUBSET Invocations,
           CanAdmit(t, i, deps)
    PROVE  Sane(Admit(t, i, deps)) /\ Quiet(t, Admit(t, i, deps))
<1> DEFINE x == [NewInvocation EXCEPT !.state = "Admitted", !.deps = deps]
           u == Admit(t, i, deps)
<1>0. t \in Tasks /\ t.inv[i].state = "none" /\ IsOpen(t)
  BY DEF Sane, CanAdmit
<1>1. x \in InvRecs /\ x.state = "Admitted" /\ x.attempts = <<>>
  <2>0. PICK c \in [Invocations -> Outcomes \cup {"no"}] : NewInvocation =
           [state |-> "none", attempts |-> <<>>, deps |-> {}, consumed |-> c, terminal |-> FALSE,
            cancelled |-> FALSE]
    BY DEF NewInvocation
  <2>2. <<>> \in Seq(Attempts) /\ {} \in SUBSET Invocations
    OBVIOUS
  <2>3. NewInvocation \in InvRecs /\ NewInvocation.attempts = <<>>
    BY <2>0, <2>2 DEF InvRecs, InvStates
  <2>4. "Admitted" \in InvStates
    BY DEF InvStates
  <2> QED
    BY <2>3, <2>4 DEF InvRecs
<1>2. u = [t EXCEPT !.inv = [t.inv EXCEPT ![i] = x]]
  BY <1>0 DEF Admit, Tasks
<1> HIDE DEF x, u
<1>3. u \in Tasks /\ u.inv = [t.inv EXCEPT ![i] = x]
      /\ u.def = t.def /\ u.state = t.state /\ u.att = t.att /\ u.reserved = t.reserved
  BY <1>0, <1>1, <1>2 DEF Tasks
<1>4. t.inv[i].attempts = <<>>
  BY <1>0 DEF Sane, Heads, Started
<1>5. Quiet(t, u)
  BY <1>0, <1>1, <1>3, <1>4 DEF Quiet, Tasks
<1>6. Joined(u)
  <2> SUFFICES ASSUME NEW k \in Invocations, u.inv[k].state = "Completed", NEW j \in Pending(u, k)
               PROVE  FALSE
    BY DEF Joined
  <2>1. k # i /\ t.inv[k].state = "Completed" /\ u.inv[k] = t.inv[k]
    BY <1>0, <1>1, <1>3 DEF Tasks
  <2>2. Pending(t, k) = {}
    BY <2>1 DEF Sane, Joined
  <2>3. j \in Admitted(u) \ ({Root} \cup Continuations) /\ Parent[j] = k
        /\ j \notin Admitted(t)
    <3>0. k \in Invocations /\ t \in Tasks /\ u \in Tasks
      BY <1>0, <1>3
    <3>1. /\ j \in u.inv[k].deps \/ (j \in Admitted(u) \ ({Root} \cup Continuations) /\ Parent[j] = k)
          /\ u.inv[k].consumed[j] = "no"
      BY <3>0, PendingIs
    <3>2. ~ /\ j \in t.inv[k].deps \/ (j \in Admitted(t) \ ({Root} \cup Continuations) /\ Parent[j] = k)
            /\ t.inv[k].consumed[j] = "no"
      BY <3>0, <2>2, PendingIs
    <3> QED
      BY <2>1, <3>1, <3>2
  <2>4. j = i
    BY <1>0, <1>1, <1>3, <2>3 DEF Admitted, Tasks
  <2>5. t.inv[Parent[i]].state \notin Stopped
    BY <2>3, <2>4 DEF CanAdmit
  <2> QED
    BY <2>1, <2>3, <2>4, <2>5 DEF Stopped
<1>7. Over(u)
  BY <1>0, <1>3 DEF Over, IsOpen, Ended
<1>8. \A k \in Invocations : t.inv[k].attempts # <<>> => u.inv[k].state = t.inv[k].state
  BY <1>0, <1>3, <1>4 DEF Tasks
<1>9. \A k \in Invocations : t.inv[k].attempts = <<>> => u.inv[k].state \in {"none", "Admitted", "Cancelled"}
  BY <1>0, <1>1, <1>3 DEF Tasks, Sane, Heads
<1>10. Sane(u)
  BY <1>3, <1>5, <1>6, <1>7, <1>8, <1>9, QuietSane
<1> QED
  BY <1>5, <1>10 DEF u

\* One more dependency of an invocation that has not completed.
LEMMA AddDependencySane ==
    ASSUME NEW t, Sane(t), NEW i \in Invocations, NEW j \in Invocations, CanAddDependency(t, i, j)
    PROVE  Sane(AddDependency(t, i, j)) /\ Quiet(t, AddDependency(t, i, j))
<1> DEFINE x == [t.inv[i] EXCEPT !.deps = t.inv[i].deps \cup {j}]
           u == AddDependency(t, i, j)
<1>0. t \in Tasks /\ t.inv[i] \in InvRecs /\ IsOpen(t) /\ t.inv[i].state # "Completed"
  BY DEF Sane, CanAddDependency, Tasks
<1>1. x \in InvRecs /\ x.state = t.inv[i].state /\ x.attempts = t.inv[i].attempts
  BY <1>0 DEF InvRecs
<1>2. u = [t EXCEPT !.inv = [t.inv EXCEPT ![i] = x]]
  BY <1>0 DEF AddDependency, Tasks
<1> HIDE DEF x, u
<1>3. u \in Tasks /\ u.inv = [t.inv EXCEPT ![i] = x]
      /\ u.def = t.def /\ u.state = t.state /\ u.att = t.att /\ u.reserved = t.reserved
  BY <1>0, <1>1, <1>2 DEF Tasks
<1>5. Quiet(t, u)
  BY <1>0, <1>1, <1>3 DEF Quiet, Tasks
<1>6. Joined(u)
  BY <1>0, <1>1, <1>3, JoinedStays DEF Sane, Tasks, Admitted
<1>7. Over(u)
  BY <1>0, <1>3 DEF Over, IsOpen, Ended
<1>8. \A k \in Invocations : u.inv[k].state = t.inv[k].state
  BY <1>0, <1>1, <1>3 DEF Tasks
<1>9. \A k \in Invocations : t.inv[k].attempts = <<>> => u.inv[k].state \in {"none", "Admitted", "Cancelled"}
  BY <1>8 DEF Sane, Heads
<1>10. Sane(u)
  BY <1>3, <1>5, <1>6, <1>7, <1>8, <1>9, QuietSane
<1> QED
  BY <1>5, <1>10 DEF u

\* A result more for an invocation that has not ended.
LEMMA ResultKept ==
    ASSUME NEW t, Sane(t), NEW i \in Invocations, IsOpen(t), t.inv[i].state \notin Stopped,
           NEW x \in InvRecs, x.state = t.inv[i].state, x.attempts = t.inv[i].attempts,
           NEW u \in Tasks, u.inv = [t.inv EXCEPT ![i] = x],
           u.def = t.def, u.state = t.state, u.att = t.att, u.reserved = t.reserved
    PROVE  Sane(u) /\ Quiet(t, u)
<1>0. t \in Tasks /\ u.inv[i] = x /\ \A k \in Invocations : k # i => u.inv[k] = t.inv[k]
  BY DEF Sane, Tasks
<1>1. \A k \in Invocations : u.inv[k].state = t.inv[k].state /\ u.inv[k].attempts = t.inv[k].attempts
  BY <1>0
<1>2. Quiet(t, u)
  BY <1>1 DEF Quiet
<1>3. Joined(u)
  <2>1. Admitted(u) = Admitted(t)
    BY <1>1 DEF Admitted
  <2>2. \A k \in Invocations : u.inv[k].state = "Completed" => k # i
    BY <1>1 DEF Stopped
  <2>3. Joined(t)
    BY DEF Sane
  <2>4. \A k \in Invocations : u.inv[k].state = "Completed" =>
           /\ t.inv[k].state = "Completed"
           /\ u.inv[k].deps = t.inv[k].deps
           /\ \A j : t.inv[k].consumed[j] # "no" => u.inv[k].consumed[j] # "no"
    <3> TAKE k \in Invocations
    <3> HAVE u.inv[k].state = "Completed"
    <3>1. u.inv[k] = t.inv[k]
      BY <1>0, <2>2
    <3> QED
      BY <3>1
  <2>5. t \in Tasks /\ Admitted(u) \subseteq Admitted(t)
    BY <1>0, <2>1
  <2> QED
    BY <2>3, <2>4, <2>5, JoinedStays
<1>4. Over(u)
  BY DEF Over, IsOpen, Ended
<1>5. \A k \in Invocations : t.inv[k].attempts = <<>> => u.inv[k].state \in {"none", "Admitted", "Cancelled"}
  BY <1>1 DEF Sane, Heads
<1> QED
  BY <1>1, <1>2, <1>3, <1>4, <1>5, QuietSane

\* A result recorded for an invocation that has not ended.
LEMMA ConsumedSane ==
    ASSUME NEW t, Sane(t), NEW i \in Invocations, NEW j \in Invocations, NEW o \in Outcomes,
           IsOpen(t), t.inv[i].state \notin Stopped,
           NEW u, u = [t EXCEPT !.inv[i].consumed[j] = o]
    PROVE  Sane(u) /\ Quiet(t, u)
<1> DEFINE x == [t.inv[i] EXCEPT !.consumed = [t.inv[i].consumed EXCEPT ![j] = o]]
<1>0. t \in Tasks /\ t.inv[i] \in InvRecs
  BY DEF Sane, Tasks
<1>1. x \in InvRecs /\ x.state = t.inv[i].state /\ x.attempts = t.inv[i].attempts
  BY <1>0 DEF InvRecs
<1>2. u = [t EXCEPT !.inv = [t.inv EXCEPT ![i] = x]]
  BY <1>0 DEF Tasks, InvRecs
<1> HIDE DEF x
<1>3. u \in Tasks /\ u.inv = [t.inv EXCEPT ![i] = x]
      /\ u.def = t.def /\ u.state = t.state /\ u.att = t.att /\ u.reserved = t.reserved
  BY <1>0, <1>1, <1>2 DEF Tasks
<1>4. PICK v : v = u
  OBVIOUS
<1>5. Sane(v) /\ Quiet(t, v)
  BY <1>1, <1>3, <1>4, ResultKept
<1> QED
  BY <1>4, <1>5

\* The two commands that record a child's result.
LEMMA ConsumeSane ==
    ASSUME NEW t, Sane(t), NEW i \in Invocations, NEW j \in Invocations
    PROVE  /\ CanConsume(t, i, j) => Sane(Consume(t, i, j)) /\ Quiet(t, Consume(t, i, j))
           /\ CanConsumeTerminal(t, i, j) =>
                Sane(ConsumeTerminal(t, i, j)) /\ Quiet(t, ConsumeTerminal(t, i, j))
<1>1. ASSUME CanConsume(t, i, j)
      PROVE  Sane(Consume(t, i, j)) /\ Quiet(t, Consume(t, i, j))
  <2>1. IsOpen(t) /\ t.inv[i].state \notin Stopped /\ "Completed" \in Outcomes
    BY <1>1 DEF CanConsume, Outcomes, Stopped
  <2> QED
    BY <2>1, ConsumedSane DEF Consume
<1>2. ASSUME CanConsumeTerminal(t, i, j)
      PROVE  Sane(ConsumeTerminal(t, i, j)) /\ Quiet(t, ConsumeTerminal(t, i, j))
  <2>1. IsOpen(t) /\ t.inv[i].state \notin Stopped /\ t.att[Latest(t, j)].outcome \in Outcomes
    BY <1>2 DEF CanConsumeTerminal, Outcomes
  <2> QED
    BY <2>1, ConsumedSane DEF ConsumeTerminal
<1> QED
  BY <1>1, <1>2

\* The budget and the assessment are recorded beside the invocations.
LEMMA BesideSane ==
    ASSUME NEW t, Sane(t), NEW u \in Tasks, u.inv = t.inv, u.att = t.att, u.state = t.state,
           u.def = t.def, u.reserved = t.reserved
    PROVE  Sane(u) /\ Quiet(t, u)
<1>1. Quiet(t, u)
  BY DEF Quiet
<1>2. Joined(u) /\ Over(u)
  BY DEF Joined, Over, Sane, Pending, RequiredResults, Admitted, HasConsumed
<1>3. \A k \in Invocations : t.inv[k].attempts = <<>> => u.inv[k].state \in {"none", "Admitted", "Cancelled"}
  BY DEF Sane, Heads
<1> QED
  BY <1>1, <1>2, <1>3, QuietSane

\* configure and assess.
LEMMA BudgetAndGoalSane ==
    ASSUME NEW t, Sane(t), NEW v \in {"satisfied", "unmet", "indeterminate"}
    PROVE  /\ Sane(Configure(t)) /\ Quiet(t, Configure(t))
           /\ Sane(Assess(t, v)) /\ Quiet(t, Assess(t, v))
<1>1. t \in Tasks
  BY DEF Sane
<1>2. /\ Configure(t) \in Tasks /\ Configure(t).inv = t.inv /\ Configure(t).att = t.att
      /\ Configure(t).state = t.state /\ Configure(t).def = t.def /\ Configure(t).reserved = t.reserved
  BY <1>1 DEF Configure, Tasks
<1>3. /\ Assess(t, v) \in Tasks /\ Assess(t, v).inv = t.inv /\ Assess(t, v).att = t.att
      /\ Assess(t, v).state = t.state /\ Assess(t, v).def = t.def /\ Assess(t, v).reserved = t.reserved
  BY <1>1 DEF Assess, Tasks
<1>4. Sane(Configure(t)) /\ Quiet(t, Configure(t))
  BY <1>2, BesideSane
<1>5. Sane(Assess(t, v)) /\ Quiet(t, Assess(t, v))
  BY <1>3, BesideSane
<1> QED
  BY <1>4, <1>5

----------------------------------------------------------------------------
\* The commands that start and move attempts.

\* the invocations with an attempt that has not stopped, and how the Task ended
LiveOf(t) == {Owner[a] : a \in {b \in Attempts : t.att[b].state \in Stoppable}}
OutcomeOf(t) == IF IsOpen(t) THEN "open" ELSE t.state

\* A live attempt is the latest of its invocation, which has no other live one.
LEMMA OneLive ==
    ASSUME NEW t, Sane(t), NEW a \in Attempts, t.att[a].state \in Stoppable
    PROVE  /\ a \in Started(t) /\ IsLatest(t, a) /\ t.inv[Owner[a]].state = t.att[a].state
           /\ Owner[a] \in Invocations /\ t.state # "completed"
           /\ \A b \in Attempts : t.att[b].state \in Stoppable /\ Owner[b] = Owner[a] => b = a
<1>1. \A b \in Attempts : t.att[b].state \in Stoppable => b \in Started(t) /\ IsLatest(t, b)
  BY DEF Sane, Chain, Marks, Started, Stoppable
<1>2. Owner[a] \in Invocations /\ t.inv[Owner[a]].state = t.att[a].state
  BY <1>1, TopologyAssumption DEF Sane, Heads, IsLatest
<1>3. t.state # "completed"
  BY <1>2 DEF Sane, Over, Admitted, Stoppable
<1> QED
  BY <1>1, <1>2, <1>3 DEF IsLatest

\* a moves from its state to that of y, and its invocation with it
Moves(t, u, a, x, y) ==
    /\ u.inv = [t.inv EXCEPT ![Owner[a]] = x] /\ u.att = [t.att EXCEPT ![a] = y]
    /\ u.def = t.def /\ u.reserved = t.reserved
    /\ u.state = t.state \/ (IsOpen(t) /\ u.state = "failed")
    /\ x.state = y.state /\ x.attempts = t.inv[Owner[a]].attempts
    /\ x.deps = t.inv[Owner[a]].deps /\ x.consumed = t.inv[Owner[a]].consumed
    /\ y.state # "none" /\ y.cancelled = t.att[a].cancelled
    /\ y.retry => y.state = "Failed"
    /\ y.state = "Completed" => y.outcome = "Completed" /\ Pending(t, Owner[a]) = {}

\* A move of the latest attempt keeps the snapshot sane.
LEMMA MovesSane ==
    ASSUME NEW t, Sane(t), NEW u \in Tasks, NEW a \in Started(t), IsLatest(t, a), t.state # "completed",
           NEW x \in InvRecs, NEW y \in AttRecs, Moves(t, u, a, x, y)
    PROVE  Sane(u)
<1> DEFINE i == Owner[a]
<1>0. /\ t \in Tasks /\ a \in Attempts /\ i \in Invocations
      /\ u.inv[i] = x /\ u.att[a] = y
      /\ \A k \in Invocations : k # i => u.inv[k] = t.inv[k]
      /\ \A b \in Attempts : b # a => u.att[b] = t.att[b]
  BY TopologyAssumption DEF Sane, Started, Moves, Tasks
<1>1. Started(u) = Started(t)
  BY <1>0 DEF Started, Moves
<1>2. \A k \in Invocations : u.inv[k].attempts = t.inv[k].attempts /\ Latest(u, k) = Latest(t, k)
                             /\ u.inv[k].deps = t.inv[k].deps /\ u.inv[k].consumed = t.inv[k].consumed
  BY <1>0 DEF Moves, Latest
<1>3. Heads(u)
  <2> SUFFICES ASSUME NEW k \in Invocations
               PROVE  IF u.inv[k].attempts = <<>> THEN u.inv[k].state \in {"none", "Admitted", "Cancelled"}
                      ELSE /\ Latest(u, k) \in Started(u) /\ Owner[Latest(u, k)] = k
                           /\ u.inv[k].state = u.att[Latest(u, k)].state
    BY DEF Heads
  <2>1. CASE k = i
    BY <1>0, <1>1, <1>2, <2>1 DEF IsLatest, Moves
  <2>2. CASE k # i
    <3>1. u.inv[k] = t.inv[k] /\ Latest(u, k) = Latest(t, k)
      BY <1>0, <1>2, <2>2
    <3>2. CASE t.inv[k].attempts = <<>>
      BY <3>1, <3>2 DEF Sane, Heads
    <3>3. CASE t.inv[k].attempts # <<>>
      <4>1. Latest(t, k) \in Started(t) /\ Owner[Latest(t, k)] = k
            /\ t.inv[k].state = t.att[Latest(t, k)].state
        BY <3>3 DEF Sane, Heads
      <4>2. Latest(t, k) # a /\ Latest(t, k) \in Attempts
        BY <2>2, <4>1 DEF Started
      <4> QED
        BY <1>0, <1>1, <3>1, <3>3, <4>1, <4>2
    <3> QED
      BY <3>2, <3>3
  <2> QED
    BY <2>1, <2>2
<1>4. Chain(u)
  BY <1>0, <1>1, <1>2, TopologyAssumption DEF Chain, Sane, IsLatest, Started
<1>5. Marks(u)
  <2> SUFFICES ASSUME NEW b \in Attempts
               PROVE  /\ u.att[b].retry => u.att[b].state = "Failed"
                      /\ u.att[b].cancelled => b \in Started(u) /\ ~IsOpen(u)
                      /\ b \notin Started(u) => u.reserved[b] = 0
                      /\ u.att[b].state = "Completed" => u.att[b].outcome = "Completed"
    BY DEF Marks
  <2>1. IsOpen(u) => IsOpen(t)
    BY DEF Moves, IsOpen, Ended
  <2> QED
    BY <1>0, <1>1, <2>1 DEF Sane, Marks, Moves
<1>6. Admitted(u) = Admitted(t)
  <2>1. t.inv[i].state # "none" /\ u.inv[i].state # "none"
    BY <1>0 DEF Moves, IsLatest, Sane, Heads, Started
  <2> QED
    BY <1>0, <2>1 DEF Admitted
<1>7. \A k \in Invocations : Pending(u, k) = Pending(t, k)
  BY <1>2, <1>6 DEF Pending, RequiredResults, HasConsumed
<1>8. Joined(u)
  <2> SUFFICES ASSUME NEW k \in Invocations, u.inv[k].state = "Completed"
               PROVE  Pending(t, k) = {}
    BY <1>7 DEF Joined
  <2>1. CASE k = i
    BY <1>0, <2>1 DEF Moves
  <2>2. CASE k # i
    BY <1>0, <2>2 DEF Sane, Joined
  <2> QED
    BY <2>1, <2>2
<1>9. Over(u)
  BY DEF Moves, Over
<1> QED
  BY <1>3, <1>4, <1>5, <1>8, <1>9 DEF Sane

\* A move frees the invocation when the attempt stops, and changes no other.
LEMMA MovesLive ==
    ASSUME NEW t, Sane(t), NEW u, NEW a \in Attempts, IsLatest(t, a), NEW x, NEW y, Moves(t, u, a, x, y)
    PROVE  /\ Started(u) = Started(t) \cup {a}
           /\ t.att[a].state \in Stoppable /\ y.state \in Stoppable => LiveOf(u) = LiveOf(t)
           /\ t.att[a].state \in Stoppable /\ y.state \notin Stoppable =>
                Owner[a] \in LiveOf(t) /\ LiveOf(u) = LiveOf(t) \ {Owner[a]}
           /\ t.att[a].state \notin Stoppable /\ y.state \notin Stoppable => LiveOf(u) = LiveOf(t)
<1>0. /\ t \in Tasks /\ u.att[a] = y
      /\ \A b \in Attempts : b # a => u.att[b] = t.att[b]
  BY DEF Sane, Moves, Tasks
<1>1. Started(u) = Started(t) \cup {a}
  BY <1>0 DEF Started, Moves
<1>2. ASSUME t.att[a].state \in Stoppable, y.state \in Stoppable
      PROVE  LiveOf(u) = LiveOf(t)
  <2>1. \A b \in Attempts : u.att[b].state \in Stoppable <=> t.att[b].state \in Stoppable
    BY <1>0, <1>2
  <2> QED
    BY <2>1 DEF LiveOf
<1>3. ASSUME t.att[a].state \notin Stoppable, y.state \notin Stoppable
      PROVE  LiveOf(u) = LiveOf(t)
  <2>1. \A b \in Attempts : u.att[b].state \in Stoppable <=> t.att[b].state \in Stoppable
    BY <1>0, <1>3
  <2> QED
    BY <2>1 DEF LiveOf
<1>4. ASSUME t.att[a].state \in Stoppable, y.state \notin Stoppable
      PROVE  Owner[a] \in LiveOf(t) /\ LiveOf(u) = LiveOf(t) \ {Owner[a]}
  <2>1. \A b \in Attempts : u.att[b].state \in Stoppable <=> t.att[b].state \in Stoppable /\ b # a
    BY <1>0, <1>4
  <2>2. \A b \in Attempts : t.att[b].state \in Stoppable /\ Owner[b] = Owner[a] => b = a
    BY <1>4, OneLive
  <2> QED
    BY <1>4, <2>1, <2>2 DEF LiveOf
<1> QED
  BY <1>1, <1>2, <1>3, <1>4

----------------------------------------------------------------------------
\* What a command may do to the promise and to a cancelled attempt.

\* the step of TaskPromise from the snapshot t to the snapshot u
Stutters(t, u) ==
    /\ OutcomeOf(u) = OutcomeOf(t) /\ LiveOf(u) = LiveOf(t)
    /\ Cardinality(Started(u)) = Cardinality(Started(t)) /\ Reserved(u) = Reserved(t)
Begins(t, u, i) ==
    /\ IsOpen(t) /\ OutcomeOf(u) = OutcomeOf(t)
    /\ i \notin LiveOf(t) /\ LiveOf(u) = LiveOf(t) \cup {i}
    /\ Cardinality(Started(t)) < t.def.maxAttempts
    /\ Cardinality(Started(u)) = Cardinality(Started(t)) + 1
    /\ Reserved(u) \in Reserved(t)..(Reserved(t) + t.def.maxSteps)
    /\ Reserved(u) > Reserved(t) => Reserved(u) <= t.def.steps
Stops(t, u, i) ==
    /\ i \in LiveOf(t) /\ LiveOf(u) = LiveOf(t) \ {i}
    /\ OutcomeOf(u) = OutcomeOf(t) \/ (IsOpen(t) /\ OutcomeOf(u) = "failed")
    /\ Cardinality(Started(u)) = Cardinality(Started(t)) /\ Reserved(u) = Reserved(t)
Ends(t, u) ==
    /\ IsOpen(t) /\ OutcomeOf(u) \in Ended
    /\ OutcomeOf(u) = "completed" => LiveOf(t) = {}
    /\ LiveOf(u) = LiveOf(t)
    /\ Cardinality(Started(u)) = Cardinality(Started(t)) /\ Reserved(u) = Reserved(t)
Promised(t, u) ==
    /\ u.def = t.def
    /\ Stutters(t, u) \/ Ends(t, u) \/ \E i \in Invocations : Begins(t, u, i) \/ Stops(t, u, i)

\* what was cancelled stays cancelled, is not retried, restarted or revived
Sticks(t, u) == \A a \in Attempts : t.att[a].cancelled =>
    /\ u.att[a].cancelled /\ u.att[a].retry = t.att[a].retry
    /\ u.inv[Owner[a]].attempts = t.inv[Owner[a]].attempts
    /\ t.att[a].state \in {"Suspended", "RecoveryRequired"} => u.att[a].state # "Running"

\* one accepted command: sane again, what the promise allows, cancellations kept
Moved(t, u) == /\ Sane(u) /\ Promised(t, u) /\ Sticks(t, u)
               /\ Started(t) \subseteq Started(u)
               /\ IsOpen(u) => IsOpen(t)

\* A command beside the attempts does nothing to either.
LEMMA QuietMoved ==
    ASSUME NEW t, Sane(t), NEW u, Sane(u), Quiet(t, u)
    PROVE  Moved(t, u)
<1>1. Started(u) = Started(t) /\ LiveOf(u) = LiveOf(t) /\ OutcomeOf(u) = OutcomeOf(t)
  BY DEF Quiet, Started, LiveOf, OutcomeOf, IsOpen
<1>2. Reserved(u) = Reserved(t)
  BY DEF Quiet, Reserved
<1>3. Promised(t, u)
  BY <1>1, <1>2 DEF Promised, Stutters, Quiet
<1>4. Sticks(t, u)
  BY TopologyAssumption DEF Sticks, Quiet
<1> QED
  BY <1>1, <1>3, <1>4 DEF Moved, Quiet, IsOpen

\* refresh derives the state of an open Task anew and changes nothing else.
LEMMA RefreshMoved ==
    ASSUME NEW t, Sane(t)
    PROVE  /\ Refresh(t).att = t.att /\ Refresh(t).inv = t.inv /\ Refresh(t).def = t.def
           /\ Refresh(t).goal = t.goal
           /\ IsOpen(Refresh(t)) <=> IsOpen(t)
           /\ ~IsOpen(t) => Refresh(t).state = t.state
           /\ \A r : Moved(r, t) => Moved(r, Refresh(t))
<1> DEFINE u == Refresh(t)
<1>0. t \in Tasks
  BY DEF Sane
<1>1. PICK s \in TaskStates : u = [t EXCEPT !.state = s] /\ (t.state \in Ended => s = t.state)
                              /\ (t.state \notin Ended => s \notin Ended)
  <2>1. CASE t.state \in Ended
    <3>1. u = [t EXCEPT !.state = t.state] /\ t.state \in TaskStates
      BY <1>0, <2>1 DEF Refresh, Tasks
    <3> QED
      BY <2>1, <3>1
  <2>2. CASE t.state \notin Ended
    <3>1. \E s \in {"recovery", "active", "waiting", "ready"} : u = [t EXCEPT !.state = s]
      BY <2>2 DEF Refresh
    <3> QED
      BY <2>2, <3>1 DEF TaskStates, Ended
  <2> QED
    BY <2>1, <2>2
<1> HIDE DEF u
<1>2. /\ u \in Tasks /\ u.att = t.att /\ u.inv = t.inv /\ u.def = t.def /\ u.goal = t.goal
      /\ u.reserved = t.reserved
      /\ IsOpen(u) <=> IsOpen(t)
      /\ ~IsOpen(t) => u.state = t.state
  BY <1>0, <1>1 DEF Tasks, IsOpen
<1>3. Started(u) = Started(t) /\ Admitted(u) = Admitted(t) /\ LiveOf(u) = LiveOf(t)
      /\ OutcomeOf(u) = OutcomeOf(t) /\ Reserved(u) = Reserved(t)
  BY <1>2 DEF Started, Admitted, LiveOf, OutcomeOf, Reserved
<1>4. Sane(u)
  <2>1. Heads(u) /\ Chain(u)
    BY <1>2, <1>3 DEF Sane, Heads, Chain, Latest, IsLatest
  <2>2. Marks(u)
    BY <1>2, <1>3 DEF Sane, Marks
  <2>3. Joined(u)
    BY <1>2, <1>3 DEF Sane, Joined, Pending, RequiredResults, HasConsumed
  <2>4. Over(u)
    BY <1>2, <1>3 DEF Sane, Over, IsOpen, Ended
  <2> QED
    BY <1>2, <2>1, <2>2, <2>3, <2>4 DEF Sane
<1>5. ASSUME NEW r, Moved(r, t)
      PROVE  Moved(r, u)
  <2>1. Promised(r, u)
    BY <1>2, <1>3, <1>5 DEF Moved, Promised, Stutters, Ends, Begins, Stops
  <2>2. Sticks(r, u)
    BY <1>2, <1>5 DEF Moved, Sticks
  <2> QED
    BY <1>2, <1>3, <1>4, <1>5, <2>1, <2>2 DEF Moved
<1> QED
  BY <1>2, <1>5 DEF u

----------------------------------------------------------------------------
\* The start of an attempt.

\* The latest of a longer sequence of attempts.
LEMMA LastAppended ==
    ASSUME NEW s \in Seq(Attempts), NEW a \in Attempts
    PROVE  Append(s, a) \in Seq(Attempts) /\ Append(s, a) # <<>> /\ Last(Append(s, a)) = a
  BY DEF Last

\* What the start writes.
LEMMA StartIs ==
    ASSUME NEW t, Sane(t), NEW a \in Attempts, NEW n \in Nat
    PROVE  /\ Start(t, a, n) \in Tasks
           /\ Start(t, a, n).att[a].state = "Running" /\ ~Start(t, a, n).att[a].retry
           /\ ~Start(t, a, n).att[a].cancelled
           /\ \A b \in Attempts : b # a => Start(t, a, n).att[b] = t.att[b]
           /\ Start(t, a, n).inv[Owner[a]].state = "Running"
           /\ Start(t, a, n).inv[Owner[a]].attempts = Append(t.inv[Owner[a]].attempts, a)
           /\ Start(t, a, n).inv[Owner[a]].deps = t.inv[Owner[a]].deps
           /\ Start(t, a, n).inv[Owner[a]].consumed = t.inv[Owner[a]].consumed
           /\ \A i \in Invocations : i # Owner[a] => Start(t, a, n).inv[i] = t.inv[i]
           /\ Start(t, a, n).reserved = [t.reserved EXCEPT ![a] = n]
           /\ Start(t, a, n).state = t.state /\ Start(t, a, n).def = t.def
<1> DEFINE i == Owner[a]
           x == [t.inv[i] EXCEPT !.state = "Running", !.terminal = FALSE,
                                 !.attempts = Append(t.inv[i].attempts, a)]
           y == [NewAttempt EXCEPT !.state = "Running"]
           u == Start(t, a, n)
<1>0. t \in Tasks /\ i \in Invocations /\ t.inv[i] \in InvRecs /\ t.inv[i].attempts \in Seq(Attempts)
  BY TopologyAssumption DEF Sane, Tasks, InvRecs
<1>1. x \in InvRecs /\ x.state = "Running" /\ x.attempts = Append(t.inv[i].attempts, a)
      /\ x.deps = t.inv[i].deps /\ x.consumed = t.inv[i].consumed
  <2>1. Append(t.inv[i].attempts, a) \in Seq(Attempts) /\ "Running" \in InvStates
    BY <1>0, LastAppended DEF InvStates, Stoppable
  <2> QED
    BY <1>0, <2>1 DEF InvRecs
<1>2. y \in AttRecs /\ y.state = "Running" /\ ~y.retry /\ ~y.cancelled
  BY DEF NewAttempt, AttRecs, Stoppable
<1>3. u = [t EXCEPT !.inv = [t.inv EXCEPT ![i] = x], !.att = [t.att EXCEPT ![a] = y],
                    !.reserved = [t.reserved EXCEPT ![a] = n]]
  BY <1>0 DEF Start, Tasks
<1> HIDE DEF x, y, u
<1>4. /\ u \in Tasks /\ u.inv = [t.inv EXCEPT ![i] = x] /\ u.att = [t.att EXCEPT ![a] = y]
      /\ u.reserved = [t.reserved EXCEPT ![a] = n] /\ u.state = t.state /\ u.def = t.def
  BY <1>0, <1>1, <1>2, <1>3 DEF Tasks
<1>5. /\ u.att[a] = y /\ \A b \in Attempts : b # a => u.att[b] = t.att[b]
      /\ u.inv[i] = x /\ \A k \in Invocations : k # i => u.inv[k] = t.inv[k]
  BY <1>0, <1>4 DEF Tasks
<1> HIDE DEF i
<1>6. /\ u \in Tasks
      /\ u.att[a].state = "Running" /\ ~u.att[a].retry /\ ~u.att[a].cancelled
      /\ \A b \in Attempts : b # a => u.att[b] = t.att[b]
      /\ u.inv[i].state = "Running" /\ u.inv[i].attempts = Append(t.inv[i].attempts, a)
      /\ u.inv[i].deps = t.inv[i].deps /\ u.inv[i].consumed = t.inv[i].consumed
      /\ \A k \in Invocations : k # i => u.inv[k] = t.inv[k]
      /\ u.reserved = [t.reserved EXCEPT ![a] = n] /\ u.state = t.state /\ u.def = t.def
  BY <1>1, <1>2, <1>4, <1>5
<1> QED
  BY <1>6 DEF u, i

\* What it leaves of the attempts.
LEMMA StartAttempts ==
    ASSUME NEW t, Sane(t), NEW a \in Attempts, NEW n \in Nat, NEW u, u = Start(t, a, n)
    PROVE  /\ u.att[a].state = "Running" /\ ~u.att[a].retry
           /\ \A b \in Attempts : b # a => u.att[b] = t.att[b]
           /\ u.state = t.state
<1>1. /\ Start(t, a, n) \in Tasks
      /\ Start(t, a, n).att[a].state = "Running" /\ ~Start(t, a, n).att[a].retry
      /\ ~Start(t, a, n).att[a].cancelled
      /\ \A b \in Attempts : b # a => Start(t, a, n).att[b] = t.att[b]
      /\ Start(t, a, n).inv[Owner[a]].state = "Running"
      /\ Start(t, a, n).inv[Owner[a]].attempts = Append(t.inv[Owner[a]].attempts, a)
      /\ Start(t, a, n).inv[Owner[a]].deps = t.inv[Owner[a]].deps
      /\ Start(t, a, n).inv[Owner[a]].consumed = t.inv[Owner[a]].consumed
      /\ \A i \in Invocations : i # Owner[a] => Start(t, a, n).inv[i] = t.inv[i]
      /\ Start(t, a, n).reserved = [t.reserved EXCEPT ![a] = n]
      /\ Start(t, a, n).state = t.state /\ Start(t, a, n).def = t.def
  BY StartIs
<1> QED
  BY <1>1

\* An invocation may start an attempt only when none of its attempts is live: it was never
\* attempted, or the retry of its latest attempt was authorized.
LEMMA StartFree ==
    ASSUME NEW t, Sane(t), NEW a \in Attempts, CanStart(t, a)
    PROVE  /\ IsOpen(t) /\ a \notin Started(t) /\ Owner[a] \notin LiveOf(t)
           /\ t.reserved[a] = 0 /\ t.inv[Owner[a]].state \in {"Admitted", "Failed"}
           /\ \A b \in Started(t) : Owner[b] = Owner[a] => t.att[b].retry
<1> DEFINE i == Owner[a]
<1>0. i \in Invocations /\ IsOpen(t) /\ a \notin Started(t)
  BY TopologyAssumption DEF CanStart, Started
<1>1. t.reserved[a] = 0
  BY <1>0 DEF Sane, Marks
<1>2. \A b \in Started(t) : Owner[b] = i => t.att[b].retry
  <2> SUFFICES ASSUME NEW b \in Started(t), Owner[b] = i, ~t.att[b].retry
               PROVE  FALSE
    OBVIOUS
  <2>1. t.inv[i].attempts # <<>> /\ Latest(t, i) = b
    BY DEF Sane, Chain, IsLatest
  <2>2. t.inv[i].state = t.att[b].state /\ t.att[b].state # "Admitted"
    BY <1>0, <2>1 DEF Sane, Heads, Tasks, AttRecs, Stopped, Stoppable, Started
  <2> QED
    BY <2>1, <2>2 DEF CanStart
<1>3. i \notin LiveOf(t)
  BY <1>2 DEF LiveOf, Sane, Marks, Stoppable, Started
<1> QED
  BY <1>0, <1>1, <1>2, <1>3 DEF CanStart

\* reserve charges its Steps once, within what is left.
LEMMA StartReserves ==
    ASSUME NEW t, Sane(t), NEW a \in Attempts, NEW n \in Nat, CanStartWith(t, a, n)
    PROVE  /\ Reserved(Start(t, a, n)) \in Reserved(t)..(Reserved(t) + t.def.maxSteps)
           /\ Reserved(Start(t, a, n)) > Reserved(t) => Reserved(Start(t, a, n)) <= t.def.steps
<1>1. t \in Tasks /\ t.reserved[a] = 0 /\ t.def.maxSteps \in Nat /\ t.def.steps \in Nat
      /\ t.reserved \in [Attempts -> Nat]
  BY StartFree DEF CanStartWith, Sane, Tasks, Definition
<1>2. Reserved(t) \in Nat
  BY <1>1, ReservedType
<1>3. Reserved(Start(t, a, n)) = Reserved(t) + n
  <2>1. Start(t, a, n).reserved = [t.reserved EXCEPT ![a] = n]
    BY StartIs
  <2>2. PICK u : u = Start(t, a, n)
    OBVIOUS
  <2> QED
    BY <1>1, <2>1, <2>2, ReservedAdds
<1>4. CASE n = 0
  BY <1>1, <1>2, <1>3, <1>4
<1>5. CASE n # 0
  <2>1. n \in 1..t.def.maxSteps /\ n <= t.def.steps - Reserved(t)
    BY <1>5 DEF CanStartWith, CanReserve, Remaining
  <2> QED
    BY <1>1, <1>2, <1>3, <2>1
<1> QED
  BY <1>4, <1>5

\* AttemptStarted, with or without a reservation.
LEMMA StartMoved ==
    ASSUME NEW t, Sane(t), NEW a \in Attempts, NEW n \in Nat, CanStartWith(t, a, n)
    PROVE  Moved(t, Start(t, a, n)) /\ Started(Start(t, a, n)) = Started(t) \cup {a}
<1> DEFINE i == Owner[a]
<1> DEFINE u == Start(t, a, n)
<1>1. CanStart(t, a) /\ t \in Tasks /\ i \in Invocations
  BY TopologyAssumption DEF CanStartWith, Sane
<1>2. /\ IsOpen(t) /\ a \notin Started(t) /\ i \notin LiveOf(t) /\ t.inv[i].state \in {"Admitted", "Failed"}
      /\ \A b \in Started(t) : Owner[b] = i => t.att[b].retry
  BY <1>1, StartFree
<1>3. /\ u \in Tasks
      /\ u.att[a].state = "Running" /\ ~u.att[a].retry /\ ~u.att[a].cancelled
      /\ \A b \in Attempts : b # a => u.att[b] = t.att[b]
      /\ u.inv[i].state = "Running" /\ u.inv[i].attempts = Append(t.inv[i].attempts, a)
      /\ u.inv[i].deps = t.inv[i].deps /\ u.inv[i].consumed = t.inv[i].consumed
      /\ \A k \in Invocations : k # i => u.inv[k] = t.inv[k]
      /\ u.reserved = [t.reserved EXCEPT ![a] = n] /\ u.state = t.state /\ u.def = t.def
  BY StartIs
<1> HIDE DEF u
<1>4. Started(u) = Started(t) \cup {a}
  BY <1>3 DEF Started
<1>5. u.inv[i].attempts # <<>> /\ Latest(u, i) = a
  <2>1. t.inv[i].attempts \in Seq(Attempts)
    BY <1>1 DEF Tasks, InvRecs
  <2> QED
    BY <1>3, <2>1, LastAppended DEF Latest
<1>6. \A k \in Invocations : k # i => Latest(u, k) = Latest(t, k)
  BY <1>3 DEF Latest
<1>7. Heads(u)
  <2> SUFFICES ASSUME NEW k \in Invocations
               PROVE  IF u.inv[k].attempts = <<>> THEN u.inv[k].state \in {"none", "Admitted", "Cancelled"}
                      ELSE /\ Latest(u, k) \in Started(u) /\ Owner[Latest(u, k)] = k
                           /\ u.inv[k].state = u.att[Latest(u, k)].state
    BY DEF Heads
  <2>1. CASE k = i
    BY <1>3, <1>4, <1>5, <2>1
  <2>2. CASE k # i
    <3>1. CASE t.inv[k].attempts = <<>>
      BY <1>3, <2>2, <3>1 DEF Sane, Heads
    <3>2. CASE t.inv[k].attempts # <<>>
      <4>1. Latest(t, k) \in Started(t) /\ Owner[Latest(t, k)] = k
            /\ t.inv[k].state = t.att[Latest(t, k)].state
        BY <3>2 DEF Sane, Heads
      <4>2. Latest(t, k) # a /\ Latest(t, k) \in Attempts
        BY <2>2, <4>1 DEF Started
      <4> QED
        BY <1>3, <1>4, <1>6, <2>2, <3>2, <4>1, <4>2
    <3> QED
      BY <3>1, <3>2
  <2> QED
    BY <2>1, <2>2
<1>8. Chain(u)
  <2> SUFFICES ASSUME NEW b \in Started(u)
               PROVE  IsLatest(u, b) \/ u.att[b].retry
    BY DEF Chain
  <2>1. CASE b = a
    BY <1>5, <2>1 DEF IsLatest
  <2>2. CASE b # a
    <3>1. b \in Started(t) /\ b \in Attempts /\ u.att[b] = t.att[b] /\ Owner[b] \in Invocations
      BY <1>3, <1>4, <2>2, TopologyAssumption DEF Started
    <3>2. CASE Owner[b] = i
      BY <1>2, <3>1, <3>2
    <3>3. CASE Owner[b] # i
      BY <1>3, <1>6, <3>1, <3>3 DEF Sane, Chain, IsLatest
    <3> QED
      BY <3>2, <3>3
  <2> QED
    BY <2>1, <2>2
<1>9. Marks(u)
  BY <1>1, <1>2, <1>3, <1>4 DEF Sane, Marks, IsOpen, Tasks
<1>10. Joined(u)
  <2>1. Admitted(u) = Admitted(t)
    BY <1>2, <1>3 DEF Admitted
  <2>2. \A k \in Invocations : Pending(u, k) = Pending(t, k)
    BY <1>3, <2>1 DEF Pending, RequiredResults, HasConsumed
  <2> QED
    BY <1>3, <2>2 DEF Sane, Joined
<1>11. Over(u)
  BY <1>2, <1>3 DEF Over, IsOpen, Ended
<1>12. Sane(u)
  BY <1>3, <1>7, <1>8, <1>9, <1>10, <1>11 DEF Sane
<1>13. Begins(t, u, i)
  <2>1. OutcomeOf(u) = OutcomeOf(t)
    BY <1>3 DEF OutcomeOf, IsOpen
  <2>2. LiveOf(u) = LiveOf(t) \cup {i}
    <3>1. \A b \in Attempts : u.att[b].state \in Stoppable <=> t.att[b].state \in Stoppable \/ b = a
      BY <1>3 DEF Stoppable
    <3> QED
      BY <3>1 DEF LiveOf
  <2>3. IsFiniteSet(Started(t))
    BY FS_Subset, TopologyAssumption DEF Started
  <2>4. Cardinality(Started(u)) = Cardinality(Started(t)) + 1
    BY <1>2, <1>4, <2>3, FS_AddElement
  <2>5. Cardinality(Started(t)) < t.def.maxAttempts
    BY <1>1 DEF CanStart
  <2> QED
    BY <1>2, <2>1, <2>2, <2>4, <2>5, StartReserves DEF Begins, u
<1>14. Promised(t, u)
  BY <1>1, <1>3, <1>13 DEF Promised
<1>15. Sticks(t, u)
  BY <1>2 DEF Sticks, Sane, Marks
<1>16. Moved(t, u)
  BY <1>2, <1>4, <1>12, <1>14, <1>15 DEF Moved
<1> QED
  BY <1>4, <1>16 DEF u

----------------------------------------------------------------------------
\* The other commands about one attempt.

Observations == [cursor : Nat, outcome : Outcomes \cup {"none"}, checkpoint : Nat, used : Nat]

\* A move of a live attempt that was not cancelled on to "Running", or that stops or parks it.
LEMMA MovesPromised ==
    ASSUME NEW t, Sane(t), NEW u \in Tasks, NEW a \in Attempts, IsLatest(t, a), a \in Started(t),
           t.state # "completed", NEW x \in InvRecs, NEW y \in AttRecs, Moves(t, u, a, x, y),
           t.att[a].state \in Stoppable \/ (y.state \notin Stoppable /\ u.state = t.state),
           t.att[a].cancelled => y.retry = t.att[a].retry /\ y.state # "Running"
    PROVE  Moved(t, u)
<1>0. /\ t \in Tasks /\ u.att[a] = y /\ u.inv[Owner[a]] = x
      /\ \A b \in Attempts : b # a => u.att[b] = t.att[b]
      /\ \A k \in Invocations : k # Owner[a] => u.inv[k] = t.inv[k]
      /\ Owner[a] \in Invocations
  BY TopologyAssumption DEF Sane, Moves, Tasks
<1>1. Sane(u)
  BY MovesSane
<1>2. Started(u) = Started(t)
  BY MovesLive
<1>3. Reserved(u) = Reserved(t) /\ u.def = t.def
  BY DEF Moves, Reserved
<1>4. OutcomeOf(u) = OutcomeOf(t) \/ (IsOpen(t) /\ OutcomeOf(u) = "failed")
  BY DEF Moves, OutcomeOf, IsOpen, Ended
<1>5. OutcomeOf(u) = OutcomeOf(t) \/ t.att[a].state \in Stoppable
  BY DEF Moves, OutcomeOf, IsOpen
<1>6. Promised(t, u)
  <2>1. CASE t.att[a].state \in Stoppable /\ y.state \notin Stoppable
    <3>1. Stops(t, u, Owner[a])
      BY <1>2, <1>3, <1>4, <2>1, MovesLive DEF Stops
    <3> QED
      BY <1>0, <1>3, <3>1 DEF Promised
  <2>2. CASE ~(t.att[a].state \in Stoppable /\ y.state \notin Stoppable)
    <3>1. LiveOf(u) = LiveOf(t)
      BY <2>2, MovesLive
    <3>2. Stutters(t, u) \/ Ends(t, u)
      BY <1>2, <1>3, <1>4, <3>1 DEF Stutters, Ends, Ended
    <3> QED
      BY <1>3, <3>2 DEF Promised
  <2> QED
    BY <2>1, <2>2
<1>7. Sticks(t, u)
  <2> SUFFICES ASSUME NEW b \in Attempts, t.att[b].cancelled
               PROVE  /\ u.att[b].cancelled /\ u.att[b].retry = t.att[b].retry
                      /\ u.inv[Owner[b]].attempts = t.inv[Owner[b]].attempts
                      /\ t.att[b].state \in {"Suspended", "RecoveryRequired"} => u.att[b].state # "Running"
    BY DEF Sticks
  <2>1. u.inv[Owner[b]].attempts = t.inv[Owner[b]].attempts
    BY <1>0, TopologyAssumption DEF Moves
  <2>2. CASE b = a
    BY <1>0, <2>1, <2>2 DEF Moves
  <2>3. CASE b # a
    <3>1. u.att[b] = t.att[b]
      BY <1>0, <2>3
    <3>2. t.att[b].state \in {"Suspended", "RecoveryRequired"} => t.att[b].state # "Running"
      OBVIOUS
    <3> QED
      BY <2>1, <3>1, <3>2
  <2> QED
    BY <2>2, <2>3
<1>8. IsOpen(u) => IsOpen(t)
  BY DEF Moves, IsOpen, Ended
<1> QED
  BY <1>1, <1>2, <1>6, <1>7, <1>8 DEF Moved

\* AttemptObserved: the recorded outcome, and "failed" once the tokens are overspent.
LEMMA ObserveMoved ==
    ASSUME NEW t, Sane(t), NEW a \in Attempts, NEW o \in Observations, o.outcome \in Outcomes,
           CanObserve(t, a, o)
    PROVE  /\ Moved(t, Observe(t, a, o))
           /\ Observe(t, a, o).att[a].state = o.outcome
           /\ Observe(t, a, o).att[a].retry = t.att[a].retry
           /\ \A b \in Attempts : b # a => Observe(t, a, o).att[b] = t.att[b]
           /\ t.state # "completed" /\ Observe(t, a, o).state # "completed"
<1> DEFINE i == Owner[a]
           x == [t.inv[i] EXCEPT !.state = o.outcome, !.terminal = @ \/ o.outcome \in Stopped]
           y == [t.att[a] EXCEPT !.state = o.outcome, !.outcome = o.outcome,
                                 !.cursor = o.cursor, !.checkpoint = o.checkpoint]
           v == [t EXCEPT !.used = @ + o.used, !.att = [t.att EXCEPT ![a] = y],
                          !.inv = [t.inv EXCEPT ![i] = x]]
           u == Observe(t, a, o)
<1>0. t \in Tasks /\ t.inv[i] \in InvRecs /\ t.att[a] \in AttRecs /\ i \in Invocations
      /\ t.att[a].state \in Stoppable /\ t.used \in Nat
  BY TopologyAssumption DEF Sane, Tasks, CanObserve
<1>1. /\ a \in Started(t) /\ IsLatest(t, a) /\ t.state # "completed"
  BY <1>0, OneLive
<1>2. /\ x \in InvRecs /\ x.state = o.outcome /\ x.attempts = t.inv[i].attempts
      /\ x.deps = t.inv[i].deps /\ x.consumed = t.inv[i].consumed
  <2>1. o.outcome \in InvStates /\ (t.inv[i].terminal \/ o.outcome \in Stopped) \in BOOLEAN
    BY DEF InvStates, Outcomes, Stoppable
  <2> QED
    BY <1>0, <2>1 DEF InvRecs
<1>3. /\ y \in AttRecs /\ y.state = o.outcome /\ y.outcome = o.outcome
      /\ y.cancelled = t.att[a].cancelled /\ y.retry = t.att[a].retry
  <2>1. o.outcome \in Stopped \cup Stoppable
    BY DEF Outcomes, Stoppable
  <2> QED
    BY <1>0, <2>1 DEF AttRecs, Observations
<1>4. ~y.retry
  BY <1>0, <1>3 DEF Sane, Marks, Stoppable
<1>5. PICK s \in {t.state, "failed"} : u = [v EXCEPT !.state = s] /\ (s # t.state => IsOpen(t))
  <2>1. v.state = t.state /\ v = [v EXCEPT !.state = t.state]
    BY <1>0 DEF Tasks
  <2>2. u = IF Overspent(v) /\ IsOpen(v) THEN [v EXCEPT !.state = "failed"] ELSE v
    BY <1>0 DEF Observe, Tasks
  <2> QED
    BY <2>1, <2>2 DEF IsOpen
<1> HIDE DEF x, y, u
<1>6. /\ v \in Tasks /\ v.inv = [t.inv EXCEPT ![i] = x] /\ v.att = [t.att EXCEPT ![a] = y]
      /\ v.def = t.def /\ v.reserved = t.reserved
  <2>1. t.used + o.used \in Nat
    BY <1>0 DEF Observations
  <2> QED
    BY <1>0, <1>2, <1>3, <2>1 DEF Tasks
<1> HIDE DEF v
<1>7. /\ u \in Tasks /\ u.inv = [t.inv EXCEPT ![i] = x] /\ u.att = [t.att EXCEPT ![a] = y]
      /\ u.def = t.def /\ u.reserved = t.reserved /\ u.state = s
  <2>1. s \in TaskStates
    BY <1>0 DEF Tasks, TaskStates, Ended
  <2> QED
    BY <1>5, <1>6, <2>1 DEF Tasks
<1>8. Moves(t, u, a, x, y)
  <2>1. y.state # "none"
    BY <1>3 DEF Outcomes, Stopped
  <2>2. o.outcome = "Completed" => Pending(t, i) = {}
    BY DEF CanObserve
  <2> QED
    BY <1>2, <1>3, <1>4, <1>5, <1>7, <2>1, <2>2 DEF Moves
<1>9. y.state # "Running"
  BY <1>3 DEF Outcomes, Stopped
<1>10. Moved(t, u)
  BY <1>0, <1>1, <1>2, <1>3, <1>7, <1>8, <1>9, MovesPromised
<1>11. u.att[a].state = o.outcome /\ u.att[a].retry = t.att[a].retry
       /\ \A b \in Attempts : b # a => u.att[b] = t.att[b]
  BY <1>0, <1>3, <1>7 DEF Tasks
<1>12. u.state # "completed"
  BY <1>1, <1>5, <1>7
<1> QED
  BY <1>1, <1>10, <1>11, <1>12 DEF u

\* AttemptResumed of a waiting attempt that was not cancelled.
LEMMA ResumeMoved ==
    ASSUME NEW t, Sane(t), NEW a \in Attempts, NEW c, CanResume(t, a, c)
    PROVE  /\ Moved(t, Resume(t, a)) /\ t.state # "completed" /\ Resume(t, a).state = t.state
           /\ a \in Started(t) /\ Resume(t, a).att[a].state = "Running"
           /\ Resume(t, a).att[a].retry = t.att[a].retry
           /\ \A b \in Attempts : b # a => Resume(t, a).att[b] = t.att[b]
<1> DEFINE i == Owner[a]
           x == [t.inv[i] EXCEPT !.state = "Running"]
           y == [t.att[a] EXCEPT !.state = "Running", !.checkpoint = 0]
           u == Resume(t, a)
<1>0. t \in Tasks /\ t.inv[i] \in InvRecs /\ t.att[a] \in AttRecs /\ i \in Invocations
      /\ t.att[a].state \in Stoppable /\ ~t.att[a].cancelled
  BY TopologyAssumption DEF Sane, Tasks, CanResume, Stoppable
<1>1. /\ a \in Started(t) /\ IsLatest(t, a) /\ t.state # "completed"
  BY <1>0, OneLive
<1>2. /\ x \in InvRecs /\ x.state = "Running" /\ x.attempts = t.inv[i].attempts
      /\ x.deps = t.inv[i].deps /\ x.consumed = t.inv[i].consumed
  <2>1. "Running" \in InvStates
    BY DEF InvStates, Stoppable
  <2> QED
    BY <1>0, <2>1 DEF InvRecs
<1>3. /\ y \in AttRecs /\ y.state = "Running" /\ y.cancelled = t.att[a].cancelled /\ y.retry = t.att[a].retry
  <2>1. "Running" \in Stopped \cup Stoppable
    BY DEF Stoppable
  <2> QED
    BY <1>0, <2>1 DEF AttRecs
<1>4. ~y.retry
  BY <1>0, <1>3 DEF Sane, Marks, Stoppable
<1>5. u = [t EXCEPT !.att = [t.att EXCEPT ![a] = y], !.inv = [t.inv EXCEPT ![i] = x]]
  BY <1>0 DEF Resume, Tasks
<1> HIDE DEF x, y, u
<1>7. /\ u \in Tasks /\ u.inv = [t.inv EXCEPT ![i] = x] /\ u.att = [t.att EXCEPT ![a] = y]
      /\ u.def = t.def /\ u.reserved = t.reserved /\ u.state = t.state
  BY <1>0, <1>2, <1>3, <1>5 DEF Tasks
<1>8. Moves(t, u, a, x, y)
  BY <1>2, <1>3, <1>4, <1>7 DEF Moves
<1>10. Moved(t, u)
  BY <1>0, <1>1, <1>2, <1>3, <1>7, <1>8, MovesPromised
<1>11. u.att[a].state = "Running" /\ u.att[a].retry = t.att[a].retry
       /\ \A b \in Attempts : b # a => u.att[b] = t.att[b]
  BY <1>0, <1>3, <1>7 DEF Tasks
<1> QED
  BY <1>1, <1>7, <1>10, <1>11 DEF u

\* AttemptRecoveryRequired of a live attempt.
LEMMA MarkRecoveryMoved ==
    ASSUME NEW t, Sane(t), NEW a \in Attempts, CanMarkRecovery(t, a)
    PROVE  /\ Moved(t, MarkRecovery(t, a)) /\ t.state # "completed" /\ MarkRecovery(t, a).state = t.state
           /\ MarkRecovery(t, a).att[a].retry = t.att[a].retry /\ a \in Started(t)
           /\ \A b \in Attempts : b # a => MarkRecovery(t, a).att[b] = t.att[b]
<1> DEFINE i == Owner[a]
           x == [t.inv[i] EXCEPT !.state = "RecoveryRequired"]
           y == [t.att[a] EXCEPT !.state = "RecoveryRequired", !.checkpoint = 0]
           u == MarkRecovery(t, a)
<1>0. t \in Tasks /\ t.inv[i] \in InvRecs /\ t.att[a] \in AttRecs /\ i \in Invocations
      /\ t.att[a].state \in Stoppable
  BY TopologyAssumption DEF Sane, Tasks, CanMarkRecovery
<1>1. /\ a \in Started(t) /\ IsLatest(t, a) /\ t.state # "completed"
  BY <1>0, OneLive
<1>2. /\ x \in InvRecs /\ x.state = "RecoveryRequired" /\ x.attempts = t.inv[i].attempts
      /\ x.deps = t.inv[i].deps /\ x.consumed = t.inv[i].consumed
  <2>1. "RecoveryRequired" \in InvStates
    BY DEF InvStates, Stoppable
  <2> QED
    BY <1>0, <2>1 DEF InvRecs
<1>3. /\ y \in AttRecs /\ y.state = "RecoveryRequired"
      /\ y.cancelled = t.att[a].cancelled /\ y.retry = t.att[a].retry
  <2>1. "RecoveryRequired" \in Stopped \cup Stoppable
    BY DEF Stoppable
  <2> QED
    BY <1>0, <2>1 DEF AttRecs
<1>4. ~y.retry
  BY <1>0, <1>3 DEF Sane, Marks, Stoppable
<1>5. u = [t EXCEPT !.att = [t.att EXCEPT ![a] = y], !.inv = [t.inv EXCEPT ![i] = x]]
  BY <1>0 DEF MarkRecovery, Tasks
<1> HIDE DEF x, y, u
<1>7. /\ u \in Tasks /\ u.inv = [t.inv EXCEPT ![i] = x] /\ u.att = [t.att EXCEPT ![a] = y]
      /\ u.def = t.def /\ u.reserved = t.reserved /\ u.state = t.state
  BY <1>0, <1>2, <1>3, <1>5 DEF Tasks
<1>8. Moves(t, u, a, x, y)
  BY <1>2, <1>3, <1>4, <1>7 DEF Moves
<1>10. Moved(t, u)
  BY <1>0, <1>1, <1>2, <1>3, <1>7, <1>8, MovesPromised
<1>11. u.att[a].retry = t.att[a].retry /\ \A b \in Attempts : b # a => u.att[b] = t.att[b]
  BY <1>0, <1>3, <1>7 DEF Tasks
<1> QED
  BY <1>1, <1>7, <1>10, <1>11 DEF u

\* RetryAuthorized of the latest attempt of an open Task.
LEMMA RetryMoved ==
    ASSUME NEW t, Sane(t), NEW a \in Attempts, NEW c, CanAuthorizeRetry(t, a, c)
    PROVE  /\ Moved(t, AuthorizeRetry(t, a)) /\ IsOpen(t) /\ AuthorizeRetry(t, a).state = t.state
           /\ a \in Started(t)
           /\ \A b \in Attempts : b # a => AuthorizeRetry(t, a).att[b] = t.att[b]
<1> DEFINE i == Owner[a]
           x == [t.inv[i] EXCEPT !.state = "Failed"]
           y == [t.att[a] EXCEPT !.retry = TRUE, !.state = "Failed", !.checkpoint = 0]
           u == AuthorizeRetry(t, a)
<1>0. t \in Tasks /\ t.inv[i] \in InvRecs /\ t.att[a] \in AttRecs /\ i \in Invocations
      /\ ~t.att[a].cancelled
  BY TopologyAssumption DEF Sane, Tasks, CanAuthorizeRetry
<1>1. /\ a \in Started(t) /\ IsLatest(t, a) /\ t.state # "completed" /\ IsOpen(t)
  BY DEF CanAuthorizeRetry, Started, IsOpen, Ended
<1>2. /\ x \in InvRecs /\ x.state = "Failed" /\ x.attempts = t.inv[i].attempts
      /\ x.deps = t.inv[i].deps /\ x.consumed = t.inv[i].consumed
  <2>1. "Failed" \in InvStates
    BY DEF InvStates, Stopped
  <2> QED
    BY <1>0, <2>1 DEF InvRecs
<1>3. /\ y \in AttRecs /\ y.state = "Failed" /\ y.cancelled = t.att[a].cancelled
  <2>1. "Failed" \in Stopped \cup Stoppable
    BY DEF Stopped
  <2> QED
    BY <1>0, <2>1 DEF AttRecs
<1>5. u = [t EXCEPT !.att = [t.att EXCEPT ![a] = y], !.inv = [t.inv EXCEPT ![i] = x]]
  BY <1>0 DEF AuthorizeRetry, Tasks
<1> HIDE DEF x, y, u
<1>7. /\ u \in Tasks /\ u.inv = [t.inv EXCEPT ![i] = x] /\ u.att = [t.att EXCEPT ![a] = y]
      /\ u.def = t.def /\ u.reserved = t.reserved /\ u.state = t.state
  BY <1>0, <1>2, <1>3, <1>5 DEF Tasks
<1>8. Moves(t, u, a, x, y)
  BY <1>2, <1>3, <1>7 DEF Moves
<1>9. y.state \notin Stoppable /\ u.state = t.state
  BY <1>3, <1>7 DEF Stoppable
<1>10. Moved(t, u)
  BY <1>0, <1>1, <1>2, <1>3, <1>7, <1>8, <1>9, MovesPromised
<1>11. \A b \in Attempts : b # a => u.att[b] = t.att[b]
  BY <1>7
<1> QED
  BY <1>1, <1>7, <1>10, <1>11 DEF u

----------------------------------------------------------------------------
\* The end of the Task.

\* complete and fail record how an open Task ended.
LEMMA EndMoved ==
    ASSUME NEW t, Sane(t)
    PROVE  /\ CanComplete(t) => Moved(t, Complete(t)) /\ Complete(t).inv = t.inv /\ Complete(t).att = t.att
           /\ CanEnd(t) => Moved(t, Fail(t)) /\ Fail(t).att = t.att /\ Fail(t).state = "failed"
<1>0. t \in Tasks
  BY DEF Sane
<1>1. ASSUME IsOpen(t), NEW s \in {"completed", "failed"},
             s = "completed" => \A i \in Admitted(t) : t.inv[i].state = "Completed",
             NEW u, u = [t EXCEPT !.state = s]
      PROVE  Moved(t, u) /\ u.inv = t.inv /\ u.att = t.att /\ u.state = s
  <2>1. s \in TaskStates /\ s \in Ended
    BY DEF TaskStates, Ended
  <2>2. /\ u \in Tasks /\ u.inv = t.inv /\ u.att = t.att /\ u.def = t.def /\ u.reserved = t.reserved
        /\ u.state = s
    BY <1>0, <1>1, <2>1 DEF Tasks
  <2>3. Started(u) = Started(t) /\ Admitted(u) = Admitted(t) /\ LiveOf(u) = LiveOf(t)
        /\ Reserved(u) = Reserved(t) /\ OutcomeOf(u) = s
    BY <2>1, <2>2 DEF Started, Admitted, LiveOf, OutcomeOf, Reserved, IsOpen
  <2>4. Sane(u)
    <3>1. Heads(u) /\ Chain(u)
      BY <2>2, <2>3 DEF Sane, Heads, Chain, Latest, IsLatest
    <3>2. Marks(u)
      BY <1>1, <2>2, <2>3 DEF Sane, Marks
    <3>3. Joined(u)
      BY <2>2, <2>3 DEF Sane, Joined, Pending, RequiredResults, HasConsumed
    <3>4. Over(u)
      BY <1>1, <2>2, <2>3 DEF Over
    <3> QED
      BY <2>2, <3>1, <3>2, <3>3, <3>4 DEF Sane
  <2>5. s = "completed" => LiveOf(t) = {}
    <3> SUFFICES ASSUME s = "completed", NEW a \in Attempts, t.att[a].state \in Stoppable
                 PROVE  FALSE
      BY DEF LiveOf
    <3>1. Owner[a] \in Invocations /\ t.inv[Owner[a]].state \in Stoppable
      BY OneLive
    <3> QED
      BY <1>1, <3>1 DEF Admitted, Stoppable
  <2>6. Promised(t, u)
    BY <1>1, <2>1, <2>2, <2>3, <2>5 DEF Promised, Ends
  <2>7. Sticks(t, u)
    BY <1>1 DEF Sticks, Sane, Marks
  <2> QED
    BY <1>1, <2>2, <2>3, <2>4, <2>6, <2>7 DEF Moved
<1>2. ASSUME CanComplete(t)
      PROVE  Moved(t, Complete(t)) /\ Complete(t).inv = t.inv /\ Complete(t).att = t.att
  BY <1>1, <1>2 DEF CanComplete, Complete
<1>3. ASSUME CanEnd(t)
      PROVE  Moved(t, Fail(t)) /\ Fail(t).att = t.att /\ Fail(t).state = "failed"
  BY <1>1, <1>3 DEF CanEnd, Fail
<1> QED
  BY <1>2, <1>3

\* CancelRequested marks the chosen invocations and their attempts and ends the Task.
LEMMA CancelMoved ==
    ASSUME NEW t, Sane(t), CanEnd(t)
    PROVE  /\ Moved(t, CancelTask(t)) /\ CancelTask(t).state = "cancelled"
           /\ \A a \in Attempts : CancelTask(t).att[a].state = t.att[a].state
                                  /\ CancelTask(t).att[a].retry = t.att[a].retry
<1> DEFINE chosen == {i \in Admitted(t) : t.def.policy = "All" \/ i = Root}
           I(i) == IF i \notin chosen THEN t.inv[i]
                   ELSE [t.inv[i] EXCEPT !.cancelled = TRUE,
                           !.state = IF t.inv[i].state = "Admitted" THEN "Cancelled" ELSE t.inv[i].state]
           C(a) == t.att[a].cancelled \/ (Owner[a] \in chosen /\ a \in Started(t))
           A(a) == [t.att[a] EXCEPT !.cancelled = C(a)]
           u == CancelTask(t)
<1>0. t \in Tasks /\ IsOpen(t)
  BY DEF Sane, CanEnd
<1>1. u = [t EXCEPT !.inv = [i \in Invocations |-> I(i)], !.att = [a \in Attempts |-> A(a)],
                    !.state = "cancelled"]
  BY DEF CancelTask
<1>2. \A i \in Invocations :
         /\ I(i) \in InvRecs /\ I(i).attempts = t.inv[i].attempts /\ I(i).deps = t.inv[i].deps
         /\ I(i).consumed = t.inv[i].consumed
         /\ I(i).state = t.inv[i].state \/ (t.inv[i].state = "Admitted" /\ I(i).state = "Cancelled")
  <2> SUFFICES ASSUME NEW i \in Invocations
               PROVE  /\ I(i) \in InvRecs /\ I(i).attempts = t.inv[i].attempts /\ I(i).deps = t.inv[i].deps
                      /\ I(i).consumed = t.inv[i].consumed
                      /\ I(i).state = t.inv[i].state \/ (t.inv[i].state = "Admitted" /\ I(i).state = "Cancelled")
    OBVIOUS
  <2>1. t.inv[i] \in InvRecs /\ "Cancelled" \in InvStates
    BY <1>0 DEF Tasks, InvStates, Stopped
  <2> HIDE DEF chosen
  <2> QED
    BY <2>1 DEF InvRecs
<1>3. \A a \in Attempts :
         /\ A(a) \in AttRecs /\ A(a).state = t.att[a].state /\ A(a).retry = t.att[a].retry
         /\ A(a).outcome = t.att[a].outcome /\ (A(a).cancelled => t.att[a].cancelled \/ a \in Started(t))
         /\ (t.att[a].cancelled => A(a).cancelled)
  <2> SUFFICES ASSUME NEW a \in Attempts
               PROVE  /\ A(a) \in AttRecs /\ A(a).state = t.att[a].state /\ A(a).retry = t.att[a].retry
                      /\ A(a).outcome = t.att[a].outcome
                      /\ (A(a).cancelled => t.att[a].cancelled \/ a \in Started(t))
                      /\ (t.att[a].cancelled => A(a).cancelled)
    OBVIOUS
  <2>1. t.att[a] \in AttRecs /\ C(a) \in BOOLEAN
    BY <1>0 DEF Tasks
  <2>2. C(a) => t.att[a].cancelled \/ a \in Started(t)
    OBVIOUS
  <2>3. t.att[a].cancelled => C(a)
    OBVIOUS
  <2> HIDE DEF C
  <2> QED
    BY <2>1, <2>2, <2>3 DEF AttRecs
<1> HIDE DEF I, A, u
<1>4. /\ u \in Tasks /\ u.inv = [i \in Invocations |-> I(i)] /\ u.att = [a \in Attempts |-> A(a)]
      /\ u.state = "cancelled" /\ u.def = t.def /\ u.reserved = t.reserved
  <2>1. "cancelled" \in TaskStates
    BY DEF TaskStates, Ended
  <2> QED
    BY <1>0, <1>1, <1>2, <1>3, <2>1 DEF Tasks
<1>5. /\ \A i \in Invocations :
           /\ u.inv[i].attempts = t.inv[i].attempts /\ u.inv[i].deps = t.inv[i].deps
           /\ u.inv[i].consumed = t.inv[i].consumed
           /\ u.inv[i].state = t.inv[i].state \/ (t.inv[i].state = "Admitted" /\ u.inv[i].state = "Cancelled")
      /\ \A a \in Attempts :
           /\ u.att[a].state = t.att[a].state /\ u.att[a].retry = t.att[a].retry
           /\ u.att[a].outcome = t.att[a].outcome
           /\ (u.att[a].cancelled => t.att[a].cancelled \/ a \in Started(t))
           /\ (t.att[a].cancelled => u.att[a].cancelled)
  BY <1>2, <1>3, <1>4
<1>6. /\ Started(u) = Started(t) /\ Admitted(u) = Admitted(t)
      /\ Reserved(u) = Reserved(t) /\ OutcomeOf(u) = "cancelled" /\ "cancelled" \in Ended
  <2>1. Admitted(u) = Admitted(t)
    BY <1>5 DEF Admitted
  <2> QED
    <3>1. Reserved(u) = Reserved(t)
      BY <1>4 DEF Reserved
    <3>2. Started(u) = Started(t)
      BY <1>5 DEF Started
    <3>3. OutcomeOf(u) = "cancelled" /\ "cancelled" \in Ended
      BY <1>4 DEF OutcomeOf, IsOpen, Ended
    <3> QED
      BY <2>1, <3>1, <3>2, <3>3
<1>7. LiveOf(u) = LiveOf(t)
  <2>1. {b \in Attempts : u.att[b].state \in Stoppable} = {b \in Attempts : t.att[b].state \in Stoppable}
    BY <1>5
  <2> QED
    BY <2>1 DEF LiveOf
<1>8. Heads(u)
  <2> SUFFICES ASSUME NEW k \in Invocations
               PROVE  IF u.inv[k].attempts = <<>> THEN u.inv[k].state \in {"none", "Admitted", "Cancelled"}
                      ELSE /\ Latest(u, k) \in Started(u) /\ Owner[Latest(u, k)] = k
                           /\ u.inv[k].state = u.att[Latest(u, k)].state
    BY DEF Heads
  <2>1. Latest(u, k) = Latest(t, k)
    BY <1>5 DEF Latest
  <2>2. CASE t.inv[k].attempts = <<>>
    BY <1>5, <2>2 DEF Sane, Heads
  <2>3. CASE t.inv[k].attempts # <<>>
    <3>1. Latest(t, k) \in Started(t) /\ Owner[Latest(t, k)] = k /\ Latest(t, k) \in Attempts
          /\ t.inv[k].state = t.att[Latest(t, k)].state
      BY <2>3 DEF Sane, Heads, Started
    <3>2. t.att[Latest(t, k)].state # "Admitted"
      BY <1>0, <3>1 DEF Tasks, AttRecs, Stopped, Stoppable
    <3> QED
      BY <1>5, <1>6, <2>1, <2>3, <3>1, <3>2
  <2> QED
    BY <2>2, <2>3
<1>9. Chain(u)
  <2> SUFFICES ASSUME NEW a \in Started(t)
               PROVE  IsLatest(u, a) \/ u.att[a].retry
    BY <1>6 DEF Chain
  <2>1. a \in Attempts /\ Owner[a] \in Invocations
    BY TopologyAssumption DEF Started
  <2>2. IsLatest(t, a) \/ t.att[a].retry
    BY DEF Sane, Chain
  <2> QED
    BY <1>5, <2>1, <2>2 DEF IsLatest, Latest
<1>10. Marks(u)
  BY <1>4, <1>5, <1>6 DEF Sane, Marks, IsOpen
<1>11. Joined(u)
  <2>1. \A k \in Invocations : Pending(u, k) = Pending(t, k)
    BY <1>5, <1>6 DEF Pending, RequiredResults, HasConsumed
  <2> QED
    BY <1>5, <2>1 DEF Sane, Joined
<1>12. Over(u)
  BY <1>4 DEF Over
<1>13. Sane(u)
  BY <1>4, <1>8, <1>9, <1>10, <1>11, <1>12 DEF Sane
<1>14. Promised(t, u)
  BY <1>0, <1>4, <1>6, <1>7 DEF Promised, Ends
<1>15. Sticks(t, u)
  BY <1>0 DEF Sticks, Sane, Marks
<1>16. Moved(t, u)
  BY <1>0, <1>6, <1>13, <1>14, <1>15 DEF Moved
<1> QED
  BY <1>4, <1>5, <1>16 DEF u

\* The registered Task.
LEMMA RegisteredSane ==
    ASSUME NEW def \in Definition
    PROVE  /\ Sane(Registered(def)) /\ OutcomeOf(Registered(def)) = "open" /\ LiveOf(Registered(def)) = {}
           /\ Started(Registered(def)) = {} /\ Reserved(Registered(def)) = 0
           /\ Registered(def).state # "completed"
<1> DEFINE t == Registered(def)
<1>1. PICK n \in InvRecs : n = NewInvocation /\ n.state = "none" /\ n.attempts = <<>>
  <2>0. PICK c \in [Invocations -> Outcomes \cup {"no"}] : NewInvocation =
           [state |-> "none", attempts |-> <<>>, deps |-> {}, consumed |-> c, terminal |-> FALSE,
            cancelled |-> FALSE]
    BY DEF NewInvocation
  <2>1. NewInvocation \in InvRecs /\ NewInvocation.attempts = <<>> /\ NewInvocation.state = "none"
    BY <2>0 DEF InvRecs, InvStates
  <2> QED
    BY <2>1
<1>2. PICK m \in AttRecs : m = NewAttempt /\ m.state = "none" /\ ~m.retry /\ ~m.cancelled
  <2>1. NewAttempt \in AttRecs /\ NewAttempt.state = "none" /\ ~NewAttempt.retry /\ ~NewAttempt.cancelled
    BY DEF NewAttempt, AttRecs
  <2> QED
    BY <2>1
<1>3. /\ t \in Tasks /\ t.state = "ready" /\ t.inv = [i \in Invocations |-> n]
      /\ t.att = [a \in Attempts |-> m] /\ t.reserved = [a \in Attempts |-> 0]
  BY <1>1, <1>2 DEF Registered, Tasks, TaskStates
<1> HIDE DEF t
<1>4. Started(t) = {} /\ Admitted(t) = {} /\ LiveOf(t) = {} /\ OutcomeOf(t) = "open"
  BY <1>1, <1>2, <1>3 DEF Started, Admitted, LiveOf, OutcomeOf, IsOpen, Ended, Stoppable
<1>5. Sane(t)
  <2>1. Heads(t) /\ Chain(t) /\ Marks(t)
    BY <1>1, <1>2, <1>3, <1>4 DEF Heads, Chain, Marks
  <2>2. Joined(t) /\ Over(t)
    BY <1>1, <1>3 DEF Joined, Over
  <2> QED
    BY <1>3, <2>1, <2>2 DEF Sane
<1>6. Reserved(t) = 0
  <2>0. [a \in Attempts |-> 0] \in [Attempts -> Nat]
    OBVIOUS
  <2>1. PICK h \in [Attempts -> Nat] : h = t.reserved /\ \A a \in Attempts : h[a] = 0
    BY <1>3, <2>0
  <2>2. PICK g : Sums(h, Attempts, g) /\ Reserved(t) = g[Attempts]
    BY <2>1, ReservedIsSum
  <2>3. g[Attempts] = 0
    BY <2>1, <2>2, SumZero, TopologyAssumption
  <2> QED
    BY <2>2, <2>3
<1> QED
  BY <1>3, <1>4, <1>5, <1>6 DEF t

----------------------------------------------------------------------------
(* The driver. *)

----------------------------------------------------------------------------
\* Types of the Task record, the execution streams and the driver calls.

RowKinds == Terminals \cup Checkpoints \cup
            {"Bound", "Started", "Model", "Effect", "Receipt", "NotCommitted", "Wait",
             "Intent", "Session", "Proof"}
Pcs == {"idle", "start", "admit", "run", "commit", "record", "observe", "proof", "recheck", "grant",
        "deliver", "cancelwait"}
Calls == [pc : Pcs, a : Attempts, n : Nat, seen : Seq(RowKinds \cup {"resume"}),
          obs : Observations, todo : SUBSET Attempts]

Types ==
    /\ Sane(task) /\ task.def \in Definitions
    /\ log \in [Attempts -> Seq(RowKinds)]
    /\ active \in SUBSET Attempts /\ entered \in SUBSET Attempts
    /\ drv \in [Drivers -> Calls]
    /\ \A d \in Drivers : At(d, "observe") => drv[d].obs.outcome \in Outcomes

----------------------------------------------------------------------------
\* What holds between the Task and the streams of its executions.

Fresh(l) == ~\E k \in Terminals \cup Checkpoints \cup {"Started", "Intent"} : Has(l, k)
Admitting(d, a) == At(d, "admit") /\ Here(d) = a
RunsLive(d, a) == Running(d) /\ Here(d) = a /\ Live(log[a])

\* n is the suspension an execution waits at
WaitsAt(l, n) == /\ l[n] = "Suspended" /\ ~Has(l, "Intent") /\ ~HasTerminal(l)
                 /\ \A m \in 1..Len(l) : l[m] \in Checkpoints => m <= n

\* no driver call runs the attempt on, or ever will
Halted(a) == /\ a \in Started(task)
             /\ Suspension(log[a]) = 0
             /\ \A d \in Drivers : ~RunsLive(d, a)
             /\ Fresh(log[a]) => \A d \in Drivers : ~Admitting(d, a)

Rows(l) ==
    /\ \A n \in 1..Len(l) : l[n] = "Suspended" =>
         /\ Has(l, "Started")
         /\ \/ ~Has(l, "Effect") \/ Has(l, "Wait")
            \/ \E m \in 1..Len(l) : m > n /\ l[m] = "Prepared"
    /\ Has(l, "NotCommitted") => Has(l, "Effect")

Claims ==
    /\ \A a \in active : ~Fresh(log[a])
    /\ \A d \in Drivers :
         /\ drv[d].pc \in {"admit", "run", "commit", "record"} => Here(d) \in Started(task)
         /\ drv[d].pc \in {"run", "commit"} => Has(log[Here(d)], "Started")
         /\ At(d, "commit") => HasTerminal(log[Here(d)])
         /\ Running(d) => Here(d) \in active \/ Has(log[Here(d)], "Intent")
         /\ At(d, "record") /\ Fresh(log[Here(d)]) =>
              \A e \in Drivers : ~Admitting(e, Here(d))
    /\ \A d, e \in Drivers :
         /\ drv[d].pc \in {"run", "commit"} /\ drv[e].pc \in {"run", "commit"}
         /\ Here(d) = Here(e)
         => d = e

\* an effect that was started is known not to have been committed
Settled(l) == Has(l, "Effect") => Has(l, "NotCommitted")

Halts ==
    /\ \A a \in Attempts : task.att[a].state \in {"Failed", "RecoveryRequired"} => Halted(a)
    /\ \A d \in Drivers :
         /\ At(d, "observe") /\ drv[d].obs.outcome \in {"Failed", "RecoveryRequired"} =>
              Halted(Here(d))
         /\ drv[d].pc \in {"proof", "recheck", "grant"} => Halted(Here(d)) /\ Settled(drv[d].seen)
         /\ At(d, "grant") => Settled(log[Here(d)])

Effects ==
    /\ \A a \in entered : a \in Started(task) /\ Has(log[a], "Effect")
                          /\ ~Has(log[a], "NotCommitted") /\ ~task.att[a].retry
    /\ EffectInOneAttempt

Backed == task.state = "completed" => \A i \in Admitted(task) :
    LET l == log[Latest(task, i)] IN Has(l, "Completed") /\ (Has(l, "Effect") => Has(l, "Receipt"))

Inv == /\ Types /\ (\A a \in Attempts : Rows(log[a])) /\ Claims /\ Halts /\ Effects /\ Backed

----------------------------------------------------------------------------
\* Reading an execution stream.

\* What an append leaves and adds.
LEMMA Written ==
    ASSUME NEW l \in Seq(RowKinds), NEW ks \in Seq(RowKinds)
    PROVE  /\ l \o ks \in Seq(RowKinds) /\ Len(l) \in Nat /\ Len(ks) \in Nat
           /\ Len(l \o ks) = Len(l) + Len(ks)
           /\ \A n \in 1..Len(l) : n \in 1..Len(l \o ks) /\ (l \o ks)[n] = l[n]
           /\ \A n \in 1..Len(ks) : Len(l) + n \in 1..Len(l \o ks) /\ (l \o ks)[Len(l) + n] = ks[n]
           /\ \A n \in 1..Len(l \o ks) : n > Len(l) => n - Len(l) \in 1..Len(ks)
                                                       /\ (l \o ks)[n] = ks[n - Len(l)]
  BY ConcatProperties, LenProperties

\* A stream has the kinds it had and those appended.
LEMMA HasWritten ==
    ASSUME NEW l \in Seq(RowKinds), NEW ks \in Seq(RowKinds), NEW k
    PROVE  Has(l \o ks, k) <=> Has(l, k) \/ Has(ks, k)
<1>1. ASSUME Has(l, k) PROVE Has(l \o ks, k)
  BY <1>1, Written DEF Has
<1>2. ASSUME Has(ks, k) PROVE Has(l \o ks, k)
  <2>1. PICK n \in 1..Len(ks) : ks[n] = k
    BY <1>2 DEF Has
  <2>2. Len(l) + n \in 1..Len(l \o ks) /\ (l \o ks)[Len(l) + n] = k
    BY <2>1, Written
  <2> QED
    BY <2>2 DEF Has
<1>3. ASSUME Has(l \o ks, k), ~Has(l, k) PROVE Has(ks, k)
  <2>1. PICK n \in 1..Len(l \o ks) : (l \o ks)[n] = k
    BY <1>3 DEF Has
  <2>2. n > Len(l)
    BY <1>3, <2>1, Written DEF Has
  <2>3. n - Len(l) \in 1..Len(ks) /\ (l \o ks)[n] = ks[n - Len(l)]
    BY <2>1, <2>2, Written
  <2> QED
    BY <2>1, <2>3 DEF Has
<1> QED
  BY <1>1, <1>2, <1>3

\* A terminal fact is one of four kinds.
LEMMA TerminalIs ==
    ASSUME NEW l
    PROVE  HasTerminal(l) <=> \E k \in Terminals : Has(l, k)
  BY DEF HasTerminal, Has

\* The first fact of the given kinds.
LEMMA FirstIs ==
    ASSUME NEW l \in Seq(RowKinds), NEW K, \E n \in 1..Len(l) : l[n] \in K
    PROVE  First(l, K) \in 1..Len(l) /\ l[First(l, K)] \in K
<1> DEFINE S == {n \in 1..Len(l) : l[n] \in K}
<1>0. Len(l) \in Nat
  BY LenProperties
<1>1. S \in SUBSET Nat /\ S # {}
  BY <1>0
<1>2. PICK n \in S : \A m \in S : n <= m
  <2> HIDE DEF S
  <2> QED
    BY <1>1, Smallest
<1>3. n \in 1..Len(l) /\ l[n] \in K /\ \A m \in 1..(n - 1) : l[m] \notin K
  BY <1>0, <1>2
<1> QED
  BY <1>3 DEF First

\* The last such fact.
LEMMA LastIs ==
    ASSUME NEW l \in Seq(RowKinds), NEW K, \E n \in 1..Len(l) : l[n] \in K
    PROVE  /\ LastOf(l, K) \in 1..Len(l) /\ l[LastOf(l, K)] \in K
           /\ \A m \in 1..Len(l) : l[m] \in K => m <= LastOf(l, K)
<1> DEFINE S == {n \in 1..Len(l) : l[n] \in K}
           R == {Len(l) - n : n \in S}
<1>0. Len(l) \in Nat
  BY LenProperties
<1>1. R \in SUBSET Nat /\ R # {}
  BY <1>0
<1>2. PICK r \in R : \A m \in R : r <= m
  <2> HIDE DEF R
  <2> QED
    BY <1>1, Smallest
<1>3. PICK n \in S : r = Len(l) - n
  BY <1>2
<1>4. \A m \in S : m <= n
  <2> SUFFICES ASSUME NEW m \in S
               PROVE  m <= n
    OBVIOUS
  <2>1. Len(l) - m \in R
    OBVIOUS
  <2>2. m \in Nat /\ n \in Nat
    BY <1>0
  <2>3. r <= Len(l) - m
    <3> HIDE DEF R, S
    <3> QED
      BY <1>2, <2>1
  <2> HIDE DEF R, S
  <2> QED
    BY <1>0, <1>3, <2>2, <2>3
<1>5. n \in 1..Len(l) /\ l[n] \in K /\ \A m \in (n + 1)..Len(l) : l[m] \notin K
  BY <1>0, <1>3, <1>4
<1>6. LastOf(l, K) \in 1..Len(l) /\ l[LastOf(l, K)] \in K
      /\ \A m \in (LastOf(l, K) + 1)..Len(l) : l[m] \notin K
  BY <1>5 DEF LastOf
<1> QED
  BY <1>0, <1>6

\* current_suspension names the fact the execution waits at, and 0 if there is none.
LEMMA SuspensionIs ==
    ASSUME NEW l \in Seq(RowKinds)
    PROVE  /\ Suspension(l) \in 0..Len(l) /\ Len(l) \in Nat
           /\ Suspension(l) # 0 => WaitsAt(l, Suspension(l))
           /\ \A n \in 1..Len(l) : WaitsAt(l, n) => Suspension(l) = n
<1> DEFINE C == LastOf(l, Checkpoints)
<1>0. Len(l) \in Nat
  BY LenProperties
<1>1. CASE Has(l, "Intent") \/ HasTerminal(l)
  BY <1>0, <1>1 DEF Suspension, WaitsAt
<1>2. CASE ~\E n \in 1..Len(l) : l[n] \in Checkpoints
  BY <1>0, <1>2 DEF Suspension, WaitsAt, Checkpoints
<1>3. CASE ~(Has(l, "Intent") \/ HasTerminal(l)) /\ \E n \in 1..Len(l) : l[n] \in Checkpoints
  <2>1. /\ C \in 1..Len(l) /\ l[C] \in Checkpoints
        /\ \A m \in 1..Len(l) : l[m] \in Checkpoints => m <= C
    BY <1>3, LastIs
  <2>2. Suspension(l) = IF l[C] = "Suspended" THEN C ELSE 0
    BY <1>3 DEF Suspension
  <2> HIDE DEF C
  <2>3. \A n \in 1..Len(l) : WaitsAt(l, n) => n = C
    BY <1>0, <2>1 DEF WaitsAt, Checkpoints
  <2>4. CASE l[C] = "Suspended"
    BY <1>0, <1>3, <2>1, <2>2, <2>3, <2>4 DEF WaitsAt
  <2>5. CASE l[C] # "Suspended"
    BY <1>0, <2>1, <2>2, <2>3, <2>5 DEF WaitsAt
  <2> QED
    BY <2>4, <2>5
<1> QED
  BY <1>1, <1>2, <1>3

\* Only a new suspension makes an execution wait.
LEMMA NoNewWait ==
    ASSUME NEW l \in Seq(RowKinds), NEW ks \in Seq(RowKinds), ~Has(ks, "Suspended"), Suspension(l) = 0
    PROVE  Suspension(l \o ks) = 0
<1> SUFFICES ASSUME Suspension(l \o ks) # 0
             PROVE  FALSE
  OBVIOUS
<1> DEFINE m == l \o ks
           n == Suspension(l \o ks)
<1>1. m \in Seq(RowKinds)
  BY Written
<1>2. n \in 1..Len(m) /\ WaitsAt(m, n)
  <2>1. n \in 0..Len(m) /\ Len(m) \in Nat /\ n # 0 /\ WaitsAt(m, n)
    BY <1>1, SuspensionIs
  <2> HIDE DEF n
  <2> QED
    BY <2>1
<1>3. n \in 1..Len(l) /\ m[n] = l[n]
  BY <1>2, Written DEF Has, WaitsAt
<1>4. ~Has(l, "Intent") /\ ~HasTerminal(l)
  BY <1>2, HasWritten, TerminalIs DEF WaitsAt
<1>5. \A i \in 1..Len(l) : l[i] \in Checkpoints => i <= n
  BY <1>2, Written DEF WaitsAt
<1>6. WaitsAt(l, n)
  BY <1>2, <1>3, <1>4, <1>5 DEF WaitsAt
<1> QED
  BY <1>2, <1>3, <1>6, SuspensionIs

\* The shape of a stream survives what is appended to it.
LEMMA RowsWritten ==
    ASSUME NEW l \in Seq(RowKinds), NEW ks \in Seq(RowKinds), Rows(l),
           ~Has(ks, "Suspended"),
           Has(ks, "Effect") => Has(ks, "Prepared"),
           Has(ks, "NotCommitted") => Has(l, "Effect")
    PROVE  Rows(l \o ks)
<1> DEFINE m == l \o ks
<1>1. ASSUME NEW n \in 1..Len(m), m[n] = "Suspended"
      PROVE  /\ Has(m, "Started")
             /\ \/ ~Has(m, "Effect") \/ Has(m, "Wait")
                \/ \E i \in 1..Len(m) : i > n /\ m[i] = "Prepared"
  <2>1. n \in 1..Len(l) /\ l[n] = "Suspended"
    BY <1>1, Written DEF Has
  <2>2. /\ Has(l, "Started")
        /\ \/ ~Has(l, "Effect") \/ Has(l, "Wait")
           \/ \E i \in 1..Len(l) : i > n /\ l[i] = "Prepared"
    BY <2>1 DEF Rows
  <2>3. CASE Has(l, "Wait")
    BY <2>2, <2>3, HasWritten
  <2>4. CASE \E i \in 1..Len(l) : i > n /\ l[i] = "Prepared"
    <3>1. PICK i \in 1..Len(l) : i > n /\ l[i] = "Prepared"
      BY <2>4
    <3>2. i \in 1..Len(m) /\ m[i] = "Prepared"
      BY <3>1, Written
    <3> QED
      BY <2>2, <3>1, <3>2, HasWritten
  <2>5. CASE ~Has(l, "Effect")
    <3>1. CASE Has(ks, "Effect")
      <4>1. PICK i \in 1..Len(ks) : ks[i] = "Prepared"
        BY <3>1 DEF Has
      <4>2. Len(l) + i \in 1..Len(m) /\ m[Len(l) + i] = "Prepared" /\ Len(l) + i > n
        BY <2>1, <4>1, Written
      <4> QED
        BY <2>2, <4>2, HasWritten
    <3>2. CASE ~Has(ks, "Effect")
      BY <2>2, <2>5, <3>2, HasWritten
    <3> QED
      BY <3>1, <3>2
  <2> QED
    BY <2>2, <2>3, <2>4, <2>5
<1>2. Has(m, "NotCommitted") => Has(m, "Effect")
  BY HasWritten DEF Rows
<1> HIDE DEF m
<1> QED
  BY <1>1, <1>2 DEF Rows, m

\* What an inspection reports is an observation.
LEMMA InspectionIs ==
    ASSUME NEW l \in Seq(RowKinds), NEW after \in Nat
    PROVE  /\ Inspection(l, after) \in Observations
           /\ Inspection(l, after).outcome = StoppedOutcome(l)
           /\ StoppedOutcome(l) \in Outcomes
<1>0. Len(l) \in Nat
  BY LenProperties
<1>1. StoppedOutcome(l) \in Outcomes
  BY DEF StoppedOutcome, Outcomes, Stopped
<1>2. HasTerminal(l) => Terminal(l) \in 1..Len(l)
  BY FirstIs DEF HasTerminal, Terminal
<1>3. Has(l, "Intent") => First(l, {"Intent"}) \in 1..Len(l)
  <2>1. ASSUME Has(l, "Intent") PROVE \E n \in 1..Len(l) : l[n] \in {"Intent"}
    BY <2>1 DEF Has
  <2> QED
    BY <2>1, FirstIs
<1>4. (\E n \in 1..Len(l) : l[n] \in Checkpoints) => LastOf(l, Checkpoints) \in 1..Len(l)
  BY LastIs
<1>5. SourceCursor(l) \in Nat
  BY <1>0, <1>2, <1>3, <1>4 DEF SourceCursor
<1>6. Suspension(l) \in Nat
  BY <1>0, SuspensionIs
<1>7. Terminating(l) - 1 \in Nat
  BY <1>0, <1>2 DEF Terminating
<1>8. UsedAfter(l, after) \in Nat
  <2> DEFINE t == Terminating(l) - 1
             I == (after + 1)..t
             S == {n \in I : l[n] = "Model"}
  <2>1. IsFiniteSet(I)
    <3>1. t \in Int /\ after + 1 \in Int
      BY <1>7
    <3> HIDE DEF t
    <3> QED
      BY <3>1, FS_Interval
  <2>2. S \in SUBSET I
    OBVIOUS
  <2>3. Cardinality(S) \in Nat
    <3> HIDE DEF S, I
    <3> QED
      BY <2>1, <2>2, FS_Subset, FS_CardinalityType
  <2> QED
    BY <2>3 DEF UsedAfter
<1> DEFINE c == IF StoppedOutcome(l) = "Suspended" THEN Suspension(l) ELSE 0
<1>9. c \in Nat
  BY <1>6
<1>10. Inspection(l, after) = [cursor |-> SourceCursor(l), outcome |-> StoppedOutcome(l),
                               checkpoint |-> c, used |-> UsedAfter(l, after)]
  BY DEF Inspection
<1> HIDE DEF c
<1> QED
  BY <1>1, <1>5, <1>8, <1>9, <1>10 DEF Observations

----------------------------------------------------------------------------
\* What a step may do to the Task, the streams and the calls.

TaskMoves ==
    \/ task' = task
    \/ /\ Moved(task, task')
       /\ \A a \in Attempts : task'.att[a].state \in {"Failed", "RecoveryRequired"} =>
            task.att[a].state \in {"Failed", "RecoveryRequired"} \/ Halted(a)
       /\ \A a \in Attempts : task'.att[a].retry =>
            task.att[a].retry \/ ~Has(log[a], "Effect") \/ Has(log[a], "NotCommitted")
       /\ task'.state = "completed" => \A i \in Admitted(task') :
            LET l == log[Latest(task', i)] IN Has(l, "Completed") /\ (Has(l, "Effect") => Has(l, "Receipt"))

\* an execution suspends, and starts an effect, only while a call runs it
Appends(a, ks) ==
    /\ log'[a] = log[a] \o ks
    /\ Has(ks, "Suspended") => (\E d \in Drivers : RunsLive(d, a)) /\ Rows(log'[a])
    /\ Has(ks, "Effect") => /\ Has(ks, "Prepared") /\ ~Has(log[a], "Effect")
                            /\ \E d \in Drivers : RunsLive(d, a)
    /\ Has(ks, "NotCommitted") => Has(log[a], "Effect") /\ a \notin entered
LogMoves ==
    /\ log' \in [Attempts -> Seq(RowKinds)]
    /\ \A a \in Attempts : log'[a] = log[a] \/ \E ks \in Seq(RowKinds) : Appends(a, ks)

ActiveMoves ==
    /\ active' \in SUBSET Attempts
    /\ \A a \in active' : a \in active \/ ~Fresh(log'[a])
    /\ \A a \in active \ active' :
         \/ Has(log'[a], "Intent")
         \/ \E d \in Drivers : drv[d].pc \in {"run", "commit"} /\ Here(d) = a /\ drv'[d].pc = "record"
         \/ \A d \in Drivers : drv'[d].pc = "idle"

EnteredMoves ==
    \/ entered' = entered
    \/ \E d \in Drivers : /\ RunsLive(d, Here(d)) /\ entered' = entered \cup {Here(d)} /\ task' = task
                          /\ ~Has(log[Here(d)], "Effect") /\ Has(log'[Here(d)], "Effect")

\* how a call comes to each of its points
ToAdmit(d) == LET a == drv'[d].a IN
    a \in Started(task') /\ (a \notin Started(task) \/ Suspension(log[a]) # 0)
ToRun(d) == LET a == Here(d) IN
    /\ At(d, "admit") /\ drv'[d].a = a
    /\ Fresh(log[a]) \/ Suspension(log[a]) # 0
    /\ a \notin active /\ a \in active' /\ Has(log'[a], "Started")
    /\ \A e \in Drivers \ {d} : drv'[e] = drv[e]
ToCommit(d) == Running(d) /\ drv'[d].a = Here(d) /\ HasTerminal(log'[Here(d)])
ToRecord(d) == LET a == drv'[d].a IN
    /\ a \in Started(task)
    /\ Fresh(log[a]) => \A e \in Drivers : ~Admitting(e, a)
ToObserve(d) == LET o == drv'[d].obs.outcome IN
    o \in Outcomes /\ (o \in {"Failed", "RecoveryRequired"} => Halted(drv'[d].a))
ToRetry(d) == Halted(drv'[d].a) /\ Settled(drv'[d].seen)

CallMoves(d) ==
    \/ drv'[d] = drv[d]
    \/ LET pc == drv'[d].pc IN
       /\ pc = "admit" => ToAdmit(d)
       /\ pc = "run" => ToRun(d)
       /\ pc = "commit" => ToCommit(d)
       /\ pc = "record" => ToRecord(d)
       /\ pc = "observe" => ToObserve(d)
       /\ pc \in {"proof", "recheck"} => ToRetry(d)
       /\ pc = "grant" => ToRetry(d) /\ Settled(log[drv'[d].a])
DriverMoves == drv' \in [Drivers -> Calls] /\ \A d \in Drivers : CallMoves(d)

Does == TaskMoves /\ LogMoves /\ ActiveMoves /\ EnteredMoves /\ DriverMoves

----------------------------------------------------------------------------
\* Such steps preserve the invariant.

\* Streams only grow.
LEMMA LogGrows ==
    ASSUME Inv, Does, NEW a \in Attempts
    PROVE  /\ \A k : Has(log[a], k) => Has(log'[a], k)
           /\ Fresh(log'[a]) => Fresh(log[a])
           /\ Live(log'[a]) => Live(log[a])
           /\ HasTerminal(log[a]) => HasTerminal(log'[a])
<1>1. \A k : Has(log[a], k) => Has(log'[a], k)
  <2>1. CASE log'[a] = log[a]
    BY <2>1
  <2>2. CASE \E ks \in Seq(RowKinds) : Appends(a, ks)
    <3>1. PICK ks \in Seq(RowKinds) : log'[a] = log[a] \o ks
      BY <2>2 DEF Appends
    <3>2. log[a] \in Seq(RowKinds)
      BY DEF Inv, Types
    <3> QED
      BY <3>1, <3>2, HasWritten
  <2> QED
    BY <2>1, <2>2 DEF Does, LogMoves
<1>2. HasTerminal(log[a]) => HasTerminal(log'[a])
  BY <1>1, TerminalIs
<1> QED
  BY <1>1, <1>2 DEF Fresh, Live

\* An attempt that exists keeps existing.
LEMMA StartedGrows ==
    ASSUME Inv, Does
    PROVE  Started(task) \subseteq Started(task') /\ Sane(task') /\ task'.def = task.def
  BY DEF Inv, Types, Does, TaskMoves, Moved, Promised

\* A halted attempt stays halted.
LEMMA HaltedKept ==
    ASSUME Inv, Does, NEW a \in Attempts, Halted(a)
    PROVE  Halted(a)'
<1>1. (a \in Started(task))'
  BY StartedGrows DEF Halted
<1>2. Suspension(log'[a]) = 0
  <2>1. CASE log'[a] = log[a]
    BY <2>1 DEF Halted
  <2>2. CASE \E ks \in Seq(RowKinds) : Appends(a, ks)
    <3>1. PICK ks \in Seq(RowKinds) : Appends(a, ks)
      BY <2>2
    <3>2. ~Has(ks, "Suspended") /\ log'[a] = log[a] \o ks
      BY <3>1 DEF Appends, Halted
    <3>3. log[a] \in Seq(RowKinds) /\ Suspension(log[a]) = 0
      BY DEF Inv, Types, Halted
    <3> QED
      BY <3>2, <3>3, NoNewWait
  <2> QED
    BY <2>1, <2>2 DEF Does, LogMoves
<1>3. ASSUME NEW d \in Drivers, RunsLive(d, a)'
      PROVE  FALSE
  <2>1. drv'[d].pc = "run" /\ drv'[d].a = a /\ Live(log'[a])
    BY <1>3 DEF RunsLive, Running, At, Here
  <2>2. Live(log[a])
    BY <2>1, LogGrows
  <2>3. CASE drv'[d] = drv[d]
    BY <2>1, <2>2, <2>3 DEF Halted, RunsLive, Running, At, Here
  <2>4. CASE ToRun(d)
    <3>1. At(d, "admit") /\ Here(d) = a /\ (Fresh(log[a]) \/ Suspension(log[a]) # 0)
      BY <2>1, <2>4 DEF ToRun
    <3> QED
      BY <3>1 DEF Halted, Admitting
  <2> QED
    BY <2>1, <2>3, <2>4 DEF Does, DriverMoves, CallMoves
<1>4. ASSUME Fresh(log'[a]), NEW d \in Drivers, Admitting(d, a)'
      PROVE  FALSE
  <2>1. drv'[d].pc = "admit" /\ drv'[d].a = a /\ Fresh(log[a])
    BY <1>4, LogGrows DEF Admitting, At, Here
  <2>2. CASE drv'[d] = drv[d]
    BY <2>1, <2>2 DEF Halted, Admitting, At, Here
  <2>3. CASE ToAdmit(d)
    BY <2>1, <2>3 DEF Halted, ToAdmit
  <2> QED
    BY <2>1, <2>2, <2>3 DEF Does, DriverMoves, CallMoves
<1> QED
  BY <1>1, <1>2, <1>3, <1>4 DEF Halted

\* It starts no effect any more.
LEMMA SettledKept ==
    ASSUME Inv, Does, NEW a \in Attempts, Halted(a), Settled(log[a])
    PROVE  Settled(log'[a])
<1>1. CASE log'[a] = log[a]
  BY <1>1
<1>2. CASE \E ks \in Seq(RowKinds) : Appends(a, ks)
  <2>1. PICK ks \in Seq(RowKinds) : Appends(a, ks)
    BY <1>2
  <2>2. ~Has(ks, "Effect") /\ log'[a] = log[a] \o ks /\ log[a] \in Seq(RowKinds)
    BY <2>1 DEF Appends, Halted, Inv, Types
  <2> QED
    BY <2>2, HasWritten DEF Settled
<1> QED
  BY <1>1, <1>2 DEF Does, LogMoves

\* An execution that could be admitted neither ended nor runs, and is in no other call's hands.
LEMMA Admissible ==
    ASSUME Inv, NEW a \in Attempts, Fresh(log[a]) \/ Suspension(log[a]) # 0
    PROVE  /\ ~Has(log[a], "Intent") /\ ~HasTerminal(log[a])
           /\ Suspension(log[a]) # 0 => ~Fresh(log[a]) /\ Has(log[a], "Started")
<1>1. CASE Suspension(log[a]) # 0
  <2>1. log[a] \in Seq(RowKinds) /\ Rows(log[a])
    BY DEF Inv, Types
  <2>2. PICK n : n = Suspension(log[a])
    OBVIOUS
  <2>3. n \in 1..Len(log[a]) /\ WaitsAt(log[a], n)
    BY <1>1, <2>1, <2>2, SuspensionIs
  <2>4. Has(log[a], "Started")
    BY <2>1, <2>3 DEF WaitsAt, Rows
  <2> QED
    BY <2>3, <2>4 DEF WaitsAt, Fresh
<1>2. CASE Suspension(log[a]) = 0 /\ Fresh(log[a])
  BY <1>2, TerminalIs DEF Fresh
<1> QED
  BY <1>1, <1>2

\* The shape of the streams.
LEMMA RowsKept ==
    ASSUME Inv, Does, NEW a \in Attempts
    PROVE  Rows(log'[a])
<1>0. Rows(log[a]) /\ log[a] \in Seq(RowKinds)
  BY DEF Inv, Types
<1>1. CASE log'[a] = log[a]
  BY <1>0, <1>1
<1>2. CASE \E ks \in Seq(RowKinds) : Appends(a, ks)
  <2>1. PICK ks \in Seq(RowKinds) : Appends(a, ks)
    BY <1>2
  <2>2. CASE Has(ks, "Suspended")
    BY <2>1, <2>2 DEF Appends
  <2>3. CASE ~Has(ks, "Suspended")
    BY <1>0, <2>1, <2>3, RowsWritten DEF Appends
  <2> QED
    BY <2>2, <2>3
<1> QED
  BY <1>1, <1>2 DEF Does, LogMoves

\* What the calls hold of their executions.
LEMMA ClaimsKept ==
    ASSUME Inv, Does
    PROVE  Claims'
<1>0. Claims /\ drv \in [Drivers -> Calls] /\ drv' \in [Drivers -> Calls]
      /\ active \in SUBSET Attempts
  BY DEF Inv, Types, Does, DriverMoves
<1>1. ASSUME NEW a \in active' PROVE ~Fresh(log'[a])
  <2>1. a \in Attempts
    BY DEF Does, ActiveMoves
  <2>2. CASE a \in active
    BY <1>0, <2>1, <2>2, LogGrows DEF Claims
  <2> QED
    BY <2>2 DEF Does, ActiveMoves
<1>2. ASSUME NEW d \in Drivers
      PROVE  /\ drv'[d].pc \in {"admit", "run", "commit", "record"} => drv'[d].a \in Started(task')
             /\ drv'[d].pc \in {"run", "commit"} => Has(log'[drv'[d].a], "Started")
             /\ drv'[d].pc = "commit" => HasTerminal(log'[drv'[d].a])
             /\ drv'[d].pc = "run" => drv'[d].a \in active' \/ Has(log'[drv'[d].a], "Intent")
             /\ drv'[d].pc = "record" /\ Fresh(log'[drv'[d].a]) =>
                  \A e \in Drivers : ~(drv'[e].pc = "admit" /\ drv'[e].a = drv'[d].a)
  <2>0. Here(d) \in Attempts /\ drv'[d].a \in Attempts
    BY <1>0 DEF Calls, Here
  <2>1. /\ drv[d].pc \in {"admit", "run", "commit", "record"} => Here(d) \in Started(task)
        /\ drv[d].pc \in {"run", "commit"} => Has(log[Here(d)], "Started")
        /\ drv[d].pc = "commit" => HasTerminal(log[Here(d)])
        /\ drv[d].pc = "run" => Here(d) \in active \/ Has(log[Here(d)], "Intent")
        /\ drv[d].pc = "record" /\ Fresh(log[Here(d)]) =>
             \A e \in Drivers : ~(drv[e].pc = "admit" /\ Here(e) = Here(d))
    BY <1>0 DEF Claims, At, Running, Admitting
  <2>2. drv'[d] = drv[d] => drv'[d].a = Here(d) /\ drv'[d].pc = drv[d].pc
    BY DEF Here
  <2>3. /\ drv'[d].pc = "admit" /\ drv'[d] # drv[d] => ToAdmit(d)
        /\ drv'[d].pc = "run" /\ drv'[d] # drv[d] => ToRun(d)
        /\ drv'[d].pc = "commit" /\ drv'[d] # drv[d] => ToCommit(d)
        /\ drv'[d].pc = "record" /\ drv'[d] # drv[d] => ToRecord(d)
    BY DEF Does, DriverMoves, CallMoves
  <2>4. drv'[d].pc \in {"admit", "run", "commit", "record"} => drv'[d].a \in Started(task')
    BY <2>1, <2>2, <2>3, StartedGrows DEF ToAdmit, ToRun, ToCommit, ToRecord, At, Running
  <2>5. drv'[d].pc \in {"run", "commit"} => Has(log'[drv'[d].a], "Started")
    <3>1. Has(log[Here(d)], "Started") => Has(log'[Here(d)], "Started")
      BY <2>0, LogGrows
    <3> QED
      BY <2>1, <2>2, <2>3, <3>1 DEF ToRun, ToCommit, At, Running
  <2>6. drv'[d].pc = "commit" => HasTerminal(log'[drv'[d].a])
    BY <2>0, <2>1, <2>2, <2>3, LogGrows DEF ToCommit
  <2>7. drv'[d].pc = "run" => drv'[d].a \in active' \/ Has(log'[drv'[d].a], "Intent")
    <3> SUFFICES ASSUME drv'[d].pc = "run", drv'[d] = drv[d], Here(d) \in active \ active',
                        ~Has(log'[Here(d)], "Intent")
                 PROVE  FALSE
      BY <2>0, <2>1, <2>2, <2>3, LogGrows DEF ToRun
    <3>1. PICK e \in Drivers : drv[e].pc \in {"run", "commit"} /\ Here(e) = Here(d) /\ drv'[e].pc = "record"
      BY DEF Does, ActiveMoves
    <3>2. e = d
      BY <1>0, <3>1 DEF Claims
    <3> QED
      BY <3>1, <3>2
  <2>8. ASSUME drv'[d].pc = "record", Fresh(log'[drv'[d].a]),
               NEW e \in Drivers, drv'[e].pc = "admit", drv'[e].a = drv'[d].a
        PROVE  FALSE
    <3>1. Fresh(log[drv'[d].a])
      BY <2>0, <2>8, LogGrows
    <3>2. drv'[d].a \in Started(task) /\ ~Admitting(e, drv'[d].a)
      BY <2>1, <2>2, <2>3, <2>8, <3>1 DEF ToRecord, Admitting, At
    <3>3. ToAdmit(e)
      BY <2>8, <3>2 DEF Does, DriverMoves, CallMoves, Admitting, At, Here
    <3>4. Suspension(log[drv'[d].a]) # 0
      BY <2>8, <3>2, <3>3 DEF ToAdmit
    <3> QED
      BY <2>0, <3>1, <3>4, Admissible
  <2> QED
    BY <2>4, <2>5, <2>6, <2>7, <2>8
<1>3. ASSUME NEW d \in Drivers, NEW e \in Drivers,
             drv'[d].pc \in {"run", "commit"}, drv'[e].pc \in {"run", "commit"},
             drv'[d].a = drv'[e].a
      PROVE  d = e
  <2>1. ASSUME NEW x \in Drivers, drv'[x].pc \in {"run", "commit"}
        PROVE  (drv[x].pc \in {"run", "commit"} /\ Here(x) = drv'[x].a) \/ ToRun(x)
    BY <2>1 DEF Does, DriverMoves, CallMoves, ToCommit, Running, At, Here
  <2>2. ASSUME NEW x \in Drivers, NEW y \in Drivers, x # y, ToRun(x),
               drv'[y].pc \in {"run", "commit"}, drv'[x].a = drv'[y].a
        PROVE  FALSE
    <3>1. drv[y].pc \in {"run", "commit"} /\ Here(y) = Here(x) /\ Here(x) \in Attempts
      BY <1>0, <2>2 DEF ToRun, Here, Calls
    <3>2. Here(y) \in active \/ Has(log[Here(y)], "Intent") \/ HasTerminal(log[Here(y)])
      BY <1>0, <3>1 DEF Claims, Running, At
    <3>3. ~Has(log[Here(x)], "Intent") /\ ~HasTerminal(log[Here(x)]) /\ Here(x) \notin active
      BY <2>2, <3>1, Admissible DEF ToRun
    <3> QED
      BY <3>1, <3>2, <3>3
  <2>3. CASE d # e /\ (ToRun(d) \/ ToRun(e))
    BY <1>3, <2>2, <2>3
  <2>4. CASE ~ToRun(d) /\ ~ToRun(e)
    <3>1. /\ drv[d].pc \in {"run", "commit"} /\ drv[e].pc \in {"run", "commit"}
          /\ Here(d) = Here(e)
      BY <1>3, <2>1, <2>4
    <3> QED
      BY <1>0, <3>1 DEF Claims
  <2> QED
    BY <2>3, <2>4
<1> QED
  BY <1>1, <1>2, <1>3 DEF Claims, At, Here, Running, Admitting

\* Attempts recorded as failed or in recovery are halted.
LEMMA HaltsKept ==
    ASSUME Inv, Does
    PROVE  Halts'
<1>0. Halts /\ drv' \in [Drivers -> Calls]
  BY DEF Inv, Does, DriverMoves
<1>1. ASSUME NEW a \in Attempts, task'.att[a].state \in {"Failed", "RecoveryRequired"}
      PROVE  Halted(a)'
  <2>1. Halted(a)
    BY <1>0, <1>1 DEF Halts, Does, TaskMoves
  <2> QED
    BY <2>1, HaltedKept
<1>2. ASSUME NEW d \in Drivers, drv'[d].pc = "observe",
             drv'[d].obs.outcome \in {"Failed", "RecoveryRequired"}
      PROVE  Halted(Here(d))'
  <2>1. PICK a \in Attempts : a = drv'[d].a
    BY <1>0 DEF Calls
  <2>2. Halted(a)
    BY <1>0, <1>2, <2>1 DEF Halts, Does, DriverMoves, CallMoves, ToObserve, At, Here
  <2>3. Halted(a)'
    BY <2>2, HaltedKept
  <2> QED
    BY <2>1, <2>3 DEF Halted, Here, RunsLive, Admitting, Running, At
<1>3. ASSUME NEW d \in Drivers, drv'[d].pc \in {"proof", "recheck", "grant"}
      PROVE  /\ Halted(Here(d))' /\ Settled(drv'[d].seen)
             /\ drv'[d].pc = "grant" => Settled(log'[drv'[d].a])
  <2>1. PICK a \in Attempts : a = drv'[d].a
    BY <1>0 DEF Calls
  <2>2. /\ Halted(a) /\ Settled(drv'[d].seen)
        /\ drv'[d].pc = "grant" => Settled(log[a])
    BY <1>0, <1>3, <2>1 DEF Halts, Does, DriverMoves, CallMoves, ToRetry, At, Here
  <2>3. Halted(a)'
    BY <2>2, HaltedKept
  <2>4. drv'[d].pc = "grant" => Settled(log'[a])
    BY <2>2, SettledKept
  <2> QED
    BY <2>1, <2>2, <2>3, <2>4 DEF Halted, Here, RunsLive, Admitting, Running, At
<1> QED
  BY <1>1, <1>2, <1>3 DEF Halts, At, Here, Settled

\* No effect takes place in two attempts.
LEMMA EffectsKept ==
    ASSUME Inv, Does
    PROVE  Effects'
<1>0. Effects /\ Claims /\ Halts /\ Sane(task) /\ entered \in SUBSET Attempts
      /\ drv \in [Drivers -> Calls]
  BY DEF Inv, Types
<1>1. ASSUME NEW d \in Drivers, RunsLive(d, Here(d))
      PROVE  /\ Here(d) \in Attempts /\ Here(d) \in Started(task)
             /\ ~task.att[Here(d)].retry /\ IsLatest(task, Here(d))
  <2>1. Here(d) \in Attempts /\ Here(d) \in Started(task)
    BY <1>0, <1>1 DEF Claims, RunsLive, Running, At, Started
  <2>2. ~Halted(Here(d))
    BY <1>1 DEF Halted
  <2>3. task.att[Here(d)].state # "Failed"
    BY <1>0, <2>1, <2>2 DEF Halts
  <2>4. ~task.att[Here(d)].retry
    BY <1>0, <2>1, <2>3 DEF Sane, Marks
  <2> QED
    BY <1>0, <2>1, <2>4 DEF Sane, Chain
<1>2. ASSUME NEW a \in entered'
      PROVE  /\ a \in Attempts /\ (a \in entered \/ \E d \in Drivers : RunsLive(d, a) /\ a = Here(d))
             /\ a \in Started(task') /\ Has(log'[a], "Effect") /\ ~Has(log'[a], "NotCommitted")
             /\ ~task'.att[a].retry
  <2>1. CASE a \in entered
    <3>1. /\ a \in Attempts /\ a \in Started(task) /\ Has(log[a], "Effect")
          /\ ~Has(log[a], "NotCommitted") /\ ~task.att[a].retry
      BY <1>0, <2>1 DEF Effects
    <3>2. ~Has(log'[a], "NotCommitted")
      <4>1. CASE log'[a] = log[a]
        BY <3>1, <4>1
      <4>2. CASE \E ks \in Seq(RowKinds) : Appends(a, ks)
        <5>1. PICK ks \in Seq(RowKinds) : Appends(a, ks)
          BY <4>2
        <5>2. log[a] \in Seq(RowKinds) /\ ~Has(ks, "NotCommitted") /\ log'[a] = log[a] \o ks
          BY <2>1, <3>1, <5>1 DEF Appends, Inv, Types
        <5> QED
          BY <3>1, <5>2, HasWritten
      <4> QED
        BY <3>1, <4>1, <4>2 DEF Does, LogMoves
    <3>3. ~task'.att[a].retry
      BY <3>1 DEF Does, TaskMoves
    <3> QED
      BY <2>1, <3>1, <3>2, <3>3, StartedGrows, LogGrows
  <2>2. CASE a \notin entered
    <3>1. PICK d \in Drivers : /\ RunsLive(d, Here(d)) /\ entered' = entered \cup {Here(d)} /\ task' = task
                               /\ ~Has(log[Here(d)], "Effect") /\ Has(log'[Here(d)], "Effect")
      BY <1>2, <2>2 DEF Does, EnteredMoves
    <3>2. a = Here(d)
      BY <1>2, <2>2, <3>1
    <3>3. a \in Attempts /\ a \in Started(task) /\ ~task.att[a].retry
      BY <1>1, <3>1, <3>2
    <3>4. ~Has(log[a], "NotCommitted") /\ log[a] \in Seq(RowKinds)
      BY <3>1, <3>2, <3>3 DEF Inv, Types, Rows
    <3>5. ~Has(log'[a], "NotCommitted")
      <4>1. CASE log'[a] = log[a]
        BY <3>4, <4>1
      <4>2. CASE \E ks \in Seq(RowKinds) : Appends(a, ks)
        <5>1. PICK ks \in Seq(RowKinds) : Appends(a, ks)
          BY <4>2
        <5>2. ~Has(ks, "NotCommitted") /\ log'[a] = log[a] \o ks
          BY <3>1, <3>2, <5>1 DEF Appends
        <5> QED
          BY <3>4, <5>2, HasWritten
      <4> QED
        BY <3>3, <4>1, <4>2 DEF Does, LogMoves
    <3> QED
      BY <3>1, <3>2, <3>3, <3>5
  <2> QED
    BY <2>1, <2>2
<1>3. ASSUME NEW a \in entered', NEW b \in entered', Owner[a] = Owner[b]
      PROVE  a = b
  <2>1. \A c \in entered' : c \in Attempts /\ IsLatest(task, c)
    <3> SUFFICES ASSUME NEW c \in entered'
                 PROVE  c \in Attempts /\ IsLatest(task, c)
      OBVIOUS
    <3>1. CASE c \in entered
      BY <1>0, <3>1 DEF Effects, Sane, Chain
    <3>2. CASE c \notin entered
      BY <1>1, <1>2, <3>2
    <3> QED
      BY <3>1, <3>2
  <2> QED
    BY <1>3, <2>1 DEF IsLatest
<1> QED
  BY <1>2, <1>3 DEF Effects, EffectInOneAttempt

\* A completed Task stays backed by its executions.
LEMMA BackedKept ==
    ASSUME Inv, Does
    PROVE  Backed'
<1> SUFFICES ASSUME task'.state = "completed", NEW i \in Admitted(task')
             PROVE  LET l == log'[Latest(task', i)]
                    IN  Has(l, "Completed") /\ (Has(l, "Effect") => Has(l, "Receipt"))
  BY DEF Backed
<1>1. PICK a : a = Latest(task', i)
  OBVIOUS
<1>2. Has(log[a], "Completed") /\ (Has(log[a], "Effect") => Has(log[a], "Receipt"))
  BY <1>1 DEF Inv, Backed, Does, TaskMoves
<1>3. a \in Attempts
  <2>1. Sane(task') /\ task'.inv[i].state = "Completed" /\ i \in Invocations
    BY StartedGrows DEF Sane, Over, Admitted
  <2> QED
    BY <1>1, <2>1 DEF Sane, Heads, Started
<1>4. HasTerminal(log[a])
  BY <1>2, TerminalIs DEF Terminals
<1>5. Has(log'[a], "Effect") => Has(log[a], "Effect")
  <2>1. CASE log'[a] = log[a]
    BY <2>1
  <2>2. CASE \E ks \in Seq(RowKinds) : Appends(a, ks)
    <3>1. PICK ks \in Seq(RowKinds) : Appends(a, ks)
      BY <2>2
    <3>2. log[a] \in Seq(RowKinds) /\ ~Has(ks, "Effect") /\ log'[a] = log[a] \o ks
      BY <1>3, <1>4, <3>1 DEF Appends, RunsLive, Live, Inv, Types
    <3> QED
      BY <3>2, HasWritten
  <2> QED
    BY <1>3, <2>1, <2>2 DEF Does, LogMoves
<1> QED
  BY <1>1, <1>2, <1>3, <1>5, LogGrows

\* The types.
LEMMA TypesKept ==
    ASSUME Inv, Does
    PROVE  Types'
<1>1. Sane(task') /\ task'.def = task.def /\ task.def \in Definitions
  BY StartedGrows DEF Inv, Types
<1>2. log' \in [Attempts -> Seq(RowKinds)] /\ active' \in SUBSET Attempts
      /\ drv' \in [Drivers -> Calls]
  BY DEF Does, LogMoves, ActiveMoves, DriverMoves
<1>3. entered' \in SUBSET Attempts
  BY DEF Inv, Types, Does, EnteredMoves, Calls, Here
<1>4. ASSUME NEW d \in Drivers, drv'[d].pc = "observe"
      PROVE  drv'[d].obs.outcome \in Outcomes
  BY <1>4 DEF Inv, Types, At, Does, DriverMoves, CallMoves, ToObserve
<1> QED
  BY <1>1, <1>2, <1>3, <1>4 DEF Types, At

\* Every step of this kind preserves the invariant.
LEMMA InvKept ==
    ASSUME Inv, Does
    PROVE  Inv'
<1>1. Types' /\ Claims' /\ Halts' /\ Effects' /\ Backed'
  BY TypesKept, ClaimsKept, HaltsKept, EffectsKept, BackedKept
<1>2. (\A a \in Attempts : Rows(log[a]))'
  BY RowsKept
<1> QED
  BY <1>1, <1>2 DEF Inv

----------------------------------------------------------------------------
\* Every action is a step of this kind.

\* A stream is read for one kind.
LEMMA Kinds ==
    ASSUME NEW x, NEW y, NEW k
    PROVE  /\ ~Has(<<>>, k)
           /\ Has(<<x>>, k) <=> k = x
           /\ Has(<<x, y>>, k) <=> k \in {x, y}
           /\ x \in RowKinds => <<x>> \in Seq(RowKinds)
           /\ x \in RowKinds /\ y \in RowKinds => <<x, y>> \in Seq(RowKinds)
           /\ <<>> \in Seq(RowKinds)
<1>1. ~Has(<<>>, k)
  BY DEF Has
<1>2. Has(<<x>>, k) <=> k = x
  BY DEF Has
<1>3. Has(<<x, y>>, k) <=> k \in {x, y}
  <2>1. Has(<<x, y>>, k) => k \in {x, y}
    BY DEF Has
  <2>2. k = x => Has(<<x, y>>, k)
    <3>1. 1 \in 1..Len(<<x, y>>) /\ <<x, y>>[1] = x
      OBVIOUS
    <3> QED
      BY <3>1 DEF Has
  <2>3. k = y => Has(<<x, y>>, k)
    <3>1. 2 \in 1..Len(<<x, y>>) /\ <<x, y>>[2] = y
      OBVIOUS
    <3> QED
      BY <3>1 DEF Has
  <2> QED
    BY <2>1, <2>2, <2>3
<1> QED
  BY <1>1, <1>2, <1>3

\* An idle call, and a call that goes on.
LEMMA IdleIs ==
    /\ Idle \in Calls /\ Idle.pc = "idle" /\ Idle.seen = <<>>
    /\ \A pc \in Pcs, a \in Attempts :
         /\ [Idle EXCEPT !.pc = pc, !.a = a] \in Calls
         /\ [Idle EXCEPT !.pc = pc, !.a = a].pc = pc
         /\ [Idle EXCEPT !.pc = pc, !.a = a].a = a
<1> DEFINE x == CHOOSE a \in Attempts : TRUE
           o == [cursor |-> 0, outcome |-> "none", checkpoint |-> 0, used |-> 0]
<1>1. x \in Attempts
  BY TopologyAssumption
<1>2. o \in Observations
  BY DEF Observations
<1>3. Idle = [pc |-> "idle", a |-> x, n |-> 0, seen |-> <<>>, obs |-> o, todo |-> {}]
  BY DEF Idle
<1> HIDE DEF x, o
<1>4. Idle \in Calls /\ Idle.pc = "idle" /\ Idle.seen = <<>>
  BY <1>1, <1>2, <1>3 DEF Calls, Pcs
<1> QED
  BY <1>4 DEF Calls

\* A step of the call d replaces its record and no other.
LEMMA StepIs ==
    ASSUME Inv, NEW d \in Drivers, NEW c \in Calls, Step(d, c)
    PROVE  /\ drv' \in [Drivers -> Calls] /\ drv'[d] = c
           /\ \A e \in Drivers : e # d => drv'[e] = drv[e]
  BY DEF Inv, Types, Step

\* An append to one stream leaves the others alone.
LEMMA WriteMoves ==
    ASSUME Inv, NEW a \in Attempts, NEW ks \in Seq(RowKinds), Write(a, ks),
           log'[a] = log[a] \o ks => Appends(a, ks)
    PROVE  /\ LogMoves /\ log'[a] = log[a] \o ks
           /\ \A k : Has(log'[a], k) <=> Has(log[a], k) \/ Has(ks, k)
<1>1. log \in [Attempts -> Seq(RowKinds)]
  BY DEF Inv, Types
<1>2. log' = [log EXCEPT ![a] = log[a] \o ks]
  BY DEF Write
<1>3. log[a] \o ks \in Seq(RowKinds) /\ log[a] \in Seq(RowKinds)
  BY <1>1, Written
<1>4. /\ log' \in [Attempts -> Seq(RowKinds)] /\ log'[a] = log[a] \o ks
      /\ \A b \in Attempts : b # a => log'[b] = log[b]
  BY <1>1, <1>2, <1>3
<1>5. \A k : Has(log'[a], k) <=> Has(log[a], k) \/ Has(ks, k)
  BY <1>3, <1>4, HasWritten
<1>6. LogMoves
  BY <1>4 DEF LogMoves
<1> QED
  BY <1>4, <1>5, <1>6

\* The parts of a step that leave their variable alone.
LEMMA Leaves ==
    ASSUME Inv
    PROVE  /\ task' = task => TaskMoves
           /\ log' = log => LogMoves
           /\ active' = active => ActiveMoves
           /\ entered' = entered => EnteredMoves
           /\ drv' = drv => DriverMoves
<1>1. log' = log => LogMoves
  BY DEF Inv, Types, LogMoves
<1>2. active' = active => ActiveMoves
  BY DEF Inv, Types, ActiveMoves
<1>3. drv' = drv => DriverMoves
  BY DEF Inv, Types, DriverMoves, CallMoves
<1> QED
  BY <1>1, <1>2, <1>3 DEF TaskMoves, EnteredMoves

\* A new snapshot is refreshed before it is kept.
LEMMA NewSnapshot ==
    ASSUME Inv, NEW t, task' = Refresh(t), Moved(task, t),
           \A a \in Attempts : t.att[a].state \in {"Failed", "RecoveryRequired"} =>
              task.att[a].state \in {"Failed", "RecoveryRequired"} \/ Halted(a),
           \A a \in Attempts : t.att[a].retry =>
              task.att[a].retry \/ ~Has(log[a], "Effect") \/ Has(log[a], "NotCommitted"),
           t.state = "completed" => \A i \in Admitted(t) :
              LET l == log[Latest(t, i)]
              IN  Has(l, "Completed") /\ (Has(l, "Effect") => Has(l, "Receipt"))
    PROVE  TaskMoves /\ Started(task') = Started(t)
<1>1. Sane(t)
  BY DEF Moved
<1>2. /\ task'.att = t.att /\ task'.inv = t.inv
      /\ IsOpen(task') <=> IsOpen(t)
      /\ ~IsOpen(t) => task'.state = t.state
      /\ Moved(task, task')
  BY <1>1, RefreshMoved
<1>3. task'.state = "completed" => t.state = "completed"
  BY <1>2 DEF IsOpen, Ended
<1>4. Admitted(task') = Admitted(t) /\ Started(task') = Started(t)
      /\ \A i : Latest(task', i) = Latest(t, i)
  BY <1>2 DEF Admitted, Started, Latest
<1> QED
  BY <1>2, <1>3, <1>4 DEF TaskMoves

\* A command that is accepted changes the Task and nothing else.
LEMMA CommandDoes ==
    ASSUME Inv, NEW can, NEW t, Command(can, t), Moved(task, t),
           \A a \in Attempts : t.att[a].state = task.att[a].state /\ t.att[a].retry = task.att[a].retry,
           t.state = "completed" => \A i \in Admitted(t) :
              LET l == log[Latest(t, i)]
              IN  Has(l, "Completed") /\ (Has(l, "Effect") => Has(l, "Receipt"))
    PROVE  Does
<1>1. task' = Refresh(t) /\ log' = log /\ active' = active /\ entered' = entered /\ drv' = drv
  BY DEF Command
<1>2. TaskMoves
  BY <1>1, NewSnapshot
<1> QED
  BY <1>1, <1>2, Leaves DEF Does

\* So does one beside the attempts.
LEMMA QuietDoes ==
    ASSUME Inv, NEW can, NEW t, Command(can, t), IsOpen(task), Sane(t), Quiet(task, t)
    PROVE  Does
<1>1. Moved(task, t)
  BY QuietMoved DEF Inv, Types
<1>2. t.att = task.att /\ t.state # "completed"
  BY DEF Quiet, IsOpen, Ended
<1> QED
  BY <1>1, <1>2, CommandDoes

\* admit_invocation.
LEMMA AdmitInvocationDoes ==
    ASSUME Inv, NEW i \in Invocations, AdmitInvocation(i)
    PROVE  Does
<1> DEFINE deps == IF i \in Continuations THEN {Parent[i]} ELSE {}
           t == Admit(task, i, deps)
<1>1. Command(CanAdmit(task, i, deps), t) /\ CanAdmit(task, i, deps)
  BY DEF AdmitInvocation, Command
<1>2. deps \in SUBSET Invocations
  BY TopologyAssumption
<1>3. Sane(t) /\ Quiet(task, t) /\ IsOpen(task)
  BY <1>1, <1>2, AdmitSane DEF Inv, Types, CanAdmit
<1> HIDE DEF t
<1> QED
  BY <1>1, <1>3, QuietDoes

\* The two commands that change what an invocation waits for, and the offer of a result.
LEMMA ResultsDoes ==
    ASSUME Inv, NEW i \in Invocations, NEW j \in Invocations,
           AdmitDependency(i, j) \/ ConsumeChild(i, j) \/ ConsumeTerminalChild(i, j)
    PROVE  Does
<1>0. Sane(task)
  BY DEF Inv, Types
<1>1. CASE AdmitDependency(i, j)
  <2> DEFINE t == AddDependency(task, i, j)
  <2>1. Command(CanAddDependency(task, i, j), t) /\ CanAddDependency(task, i, j)
    BY <1>1 DEF AdmitDependency, Command
  <2>2. Sane(t) /\ Quiet(task, t) /\ IsOpen(task)
    BY <1>0, <2>1, AddDependencySane DEF CanAddDependency
  <2> HIDE DEF t
  <2> QED
    BY <2>1, <2>2, QuietDoes
<1>2. CASE ConsumeChild(i, j)
  <2> DEFINE t == Consume(task, i, j)
  <2>1. Command(CanConsume(task, i, j), t) /\ CanConsume(task, i, j)
    BY <1>2 DEF ConsumeChild, Command
  <2>2. Sane(t) /\ Quiet(task, t) /\ IsOpen(task)
    BY <1>0, <2>1, ConsumeSane DEF CanConsume
  <2> HIDE DEF t
  <2> QED
    BY <2>1, <2>2, QuietDoes
<1>3. CASE ConsumeTerminalChild(i, j)
  <2> DEFINE t == ConsumeTerminal(task, i, j)
  <2>1. Command(CanConsumeTerminal(task, i, j), t) /\ CanConsumeTerminal(task, i, j)
    BY <1>3 DEF ConsumeTerminalChild, Command
  <2>2. Sane(t) /\ Quiet(task, t) /\ IsOpen(task)
    BY <1>0, <2>1, ConsumeSane DEF CanConsumeTerminal
  <2> HIDE DEF t
  <2> QED
    BY <2>1, <2>2, QuietDoes
<1> QED
  BY <1>1, <1>2, <1>3

\* configure_step_budget, fail and assess_goal.
LEMMA TaskCommandDoes ==
    ASSUME Inv, ConfigureBudget \/ FailTask \/ AssessGoal
    PROVE  Does
<1>0. Sane(task)
  BY DEF Inv, Types
<1>1. CASE ConfigureBudget
  <2> DEFINE t == Configure(task)
  <2>1. Command(CanConfigure(task), t) /\ IsOpen(task)
    BY <1>1 DEF ConfigureBudget, Command, CanConfigure
  <2>2. Sane(t) /\ Quiet(task, t)
    BY <1>0, BudgetAndGoalSane
  <2> HIDE DEF t
  <2> QED
    BY <2>1, <2>2, QuietDoes
<1>2. CASE AssessGoal
  <2> DEFINE t == Assess(task, GoalVerdict(task))
  <2>1. Command(CanAssess(task), t) /\ IsOpen(task)
    BY <1>2 DEF AssessGoal, Command, CanAssess
  <2>2. GoalVerdict(task) \in {"satisfied", "unmet", "indeterminate"}
    BY DEF GoalVerdict
  <2>3. Sane(t) /\ Quiet(task, t)
    BY <1>0, <2>2, BudgetAndGoalSane
  <2> HIDE DEF t
  <2> QED
    BY <2>1, <2>3, QuietDoes
<1>3. CASE FailTask
  <2> DEFINE t == Fail(task)
  <2>1. Command(CanEnd(task), t) /\ CanEnd(task)
    BY <1>3 DEF FailTask, Command
  <2>2. Moved(task, t) /\ t.att = task.att /\ t.state = "failed"
    BY <1>0, <2>1, EndMoved
  <2> HIDE DEF t
  <2> QED
    BY <2>1, <2>2, CommandDoes
<1> QED
  BY <1>1, <1>2, <1>3

\* An execution found completed has its terminal fact and no unsettled effect.
LEMMA CompletedIs ==
    ASSUME NEW l \in Seq(RowKinds), Has(l, "Started"), StoppedOutcome(l) = "Completed"
    PROVE  Has(l, "Completed") /\ (Has(l, "Effect") => Has(l, "Receipt"))
<1>0. Len(l) \in Nat /\ Len(l) # 0
  BY LenProperties DEF Has
<1>1. l[SourceCursor(l)] = "Completed" /\ ~Unsettled(l)
  BY DEF StoppedOutcome
<1>2. HasTerminal(l) => Terminal(l) \in 1..Len(l)
  BY FirstIs DEF HasTerminal, Terminal
<1>3. Has(l, "Intent") => First(l, {"Intent"}) \in 1..Len(l)
  <2>1. ASSUME Has(l, "Intent") PROVE \E n \in 1..Len(l) : l[n] \in {"Intent"}
    BY <2>1 DEF Has
  <2> QED
    BY <2>1, FirstIs
<1>4. (\E n \in 1..Len(l) : l[n] \in Checkpoints) => LastOf(l, Checkpoints) \in 1..Len(l)
  BY LastIs
<1>5. SourceCursor(l) \in 1..Len(l)
  BY <1>0, <1>2, <1>3, <1>4 DEF SourceCursor
<1>6. Has(l, "Completed") /\ HasTerminal(l)
  BY <1>1, <1>5 DEF Has, HasTerminal, Terminals
<1>7. Suspension(l) = 0 /\ CancelledSuspension(l) = 0
  BY <1>1, <1>6 DEF Suspension, CancelledSuspension, SourceCursor
<1> QED
  BY <1>1, <1>6, <1>7 DEF Unsettled

\* complete: every attempt it relies on is inspected again.
LEMMA CompleteTaskDoes ==
    ASSUME Inv, CompleteTask
    PROVE  Does
<1> DEFINE t == Complete(task)
<1>0. Sane(task)
  BY DEF Inv, Types
<1>1. Command(CanComplete(task), t) /\ CanComplete(task)
  BY DEF CompleteTask, Command
<1>2. Moved(task, t) /\ t.inv = task.inv /\ t.att = task.att
  BY <1>0, <1>1, EndMoved
<1>3. Admitted(t) = Admitted(task) /\ \A i : Latest(t, i) = Latest(task, i)
  BY <1>2 DEF Admitted, Latest
<1> HIDE DEF t
<1>4. ASSUME NEW i \in Admitted(task)
      PROVE  LET l == log[Latest(task, i)]
             IN  Has(l, "Completed") /\ (Has(l, "Effect") => Has(l, "Receipt"))
  <2>1. PICK a : a = Latest(task, i)
    OBVIOUS
  <2>2. i \in Invocations /\ task.inv[i].state = "Completed"
    BY <1>1 DEF CanComplete, Admitted
  <2>3. a \in Started(task) /\ task.att[a].state = "Completed"
    BY <1>0, <2>1, <2>2 DEF Sane, Heads
  <2>4. a \in Attempts /\ task.att[a].outcome = "Completed"
    BY <1>0, <2>3 DEF Sane, Marks, Started
  <2>5. Inspectable(log[a]) /\ StoppedOutcome(log[a]) = "Completed"
    BY <2>3, <2>4 DEF CompleteTask
  <2>6. log[a] \in Seq(RowKinds) /\ Has(log[a], "Started")
    BY <2>4, <2>5 DEF Inv, Types, Inspectable
  <2> QED
    BY <2>1, <2>5, <2>6, CompletedIs
<1>5. \A i \in Admitted(t) : LET l == log[Latest(t, i)]
                           IN  Has(l, "Completed") /\ (Has(l, "Effect") => Has(l, "Receipt"))
  BY <1>3, <1>4
<1>6. \A a \in Attempts : t.att[a].state = task.att[a].state /\ t.att[a].retry = task.att[a].retry
  BY <1>2
<1> QED
  BY <1>1, <1>2, <1>5, <1>6, CommandDoes

\* What is read of an execution that waits: it was admitted and can be inspected, and is
\* reported as suspended.
LEMMA WaitingIs ==
    ASSUME NEW l \in Seq(RowKinds), Rows(l), Suspension(l) # 0
    PROVE  Inspectable(l) /\ StoppedOutcome(l) = "Suspended"
<1>1. PICK n : n = Suspension(l)
  OBVIOUS
<1>2. n \in 1..Len(l) /\ WaitsAt(l, n) /\ Len(l) \in Nat
  BY <1>1, SuspensionIs
<1>3. Has(l, "Started")
  BY <1>2 DEF WaitsAt, Rows
<1>4. Inspectable(l)
  BY <1>2, <1>3 DEF WaitsAt, HasTerminal, Conflicting, Terminating, Inspectable
<1>5. SourceCursor(l) = n
  <2>1. \E m \in 1..Len(l) : l[m] \in Checkpoints
    BY <1>2 DEF WaitsAt, Checkpoints
  <2>2. n = IF l[LastOf(l, Checkpoints)] = "Suspended" THEN LastOf(l, Checkpoints) ELSE 0
    BY <1>1, <1>2, <2>1 DEF Suspension, WaitsAt
  <2>3. n = LastOf(l, Checkpoints)
    BY <1>1, <2>2
  <2> QED
    BY <1>2, <2>1, <2>3 DEF WaitsAt, SourceCursor
<1>6. l[SourceCursor(l)] = "Suspended"
  BY <1>2, <1>5 DEF WaitsAt
<1>7. ~Unsettled(l)
  <2> SUFFICES ASSUME Has(l, "Effect"), ~Has(l, "Wait")
               PROVE  FALSE
    BY DEF Unsettled
  <2>1. PICK m \in 1..Len(l) : m > n /\ l[m] = "Prepared"
    BY <1>2 DEF WaitsAt, Rows
  <2> QED
    BY <1>2, <2>1 DEF WaitsAt, Checkpoints
<1> QED
  BY <1>4, <1>6, <1>7 DEF StoppedOutcome

----------------------------------------------------------------------------
\* The calls that run attempts.

\* run, before the start.
LEMMA RunBeginDoes ==
    ASSUME Inv, NEW d \in Workers, NEW a \in Attempts, RunBegin(d, a)
    PROVE  Does
<1>0. d \in Drivers /\ drv[d] \in Calls /\ Sane(task)
  BY DEF Drivers, Inv, Types
<1>1. PICK want \in 1..task.def.maxSteps :
        Step(d, [drv[d] EXCEPT !.pc = "start", !.a = a,
            !.n = IF ~task.budgeted THEN 0
                  ELSE IF want < Remaining(task) THEN want
                  ELSE Remaining(task)])
  BY DEF RunBegin
<1>2. task.budgeted => Remaining(task) > 0
  BY DEF RunBegin
<1>3. Remaining(task) \in Int
  <2>1. task.reserved \in [Attempts -> Nat] /\ task.def.steps \in Nat
    BY <1>0 DEF Sane, Tasks, Definition
  <2>2. Reserved(task) \in Nat
    BY <2>1, ReservedType
  <2> QED
    BY <2>1, <2>2 DEF Remaining
<1>4. PICK n \in Nat : Step(d, [drv[d] EXCEPT !.pc = "start", !.a = a, !.n = n])
  <2>1. PICK n : n = IF ~task.budgeted THEN 0
                     ELSE IF want < Remaining(task) THEN want
                     ELSE Remaining(task)
    OBVIOUS
  <2>2. want \in Nat
    BY <1>0 DEF Sane, Tasks, Definition
  <2>3. n \in Nat
    BY <1>2, <1>3, <2>1, <2>2
  <2>4. Step(d, [drv[d] EXCEPT !.pc = "start", !.a = a, !.n = n])
    BY <1>1, <2>1
  <2> QED
    BY <2>3, <2>4
<1> DEFINE c == [drv[d] EXCEPT !.pc = "start", !.a = a, !.n = n]
<1>5. c \in Calls /\ c.pc = "start"
  BY <1>0 DEF Calls, Pcs
<1>6. Step(d, c)
  BY <1>4
<1> HIDE DEF c
<1>7. drv' \in [Drivers -> Calls] /\ drv'[d] = c /\ \A e \in Drivers : e # d => drv'[e] = drv[e]
  BY <1>0, <1>5, <1>6, StepIs
<1>8. DriverMoves
  BY <1>5, <1>7 DEF DriverMoves, CallMoves
<1>9. task' = task /\ log' = log /\ active' = active /\ entered' = entered
  BY DEF RunBegin
<1> QED
  BY <1>8, <1>9, Leaves DEF Does

\* run: the start fact.
LEMMA RunStartDoes ==
    ASSUME Inv, NEW d \in Drivers, RunStart(d)
    PROVE  Does
<1>0. drv[d] \in Calls /\ Sane(task)
  BY DEF Inv, Types
<1>1. PICK a \in Attempts : a = Here(d)
  BY <1>0 DEF Calls, Here
<1>2. log' = log /\ active' = active /\ entered' = entered
  BY DEF RunStart
<1>3. CASE task' = task /\ Done(d)
  <2>1. drv' \in [Drivers -> Calls] /\ drv'[d] = Idle /\ \A e \in Drivers : e # d => drv'[e] = drv[e]
    BY <1>3, IdleIs, StepIs DEF Done
  <2>2. DriverMoves
    BY <2>1, IdleIs DEF DriverMoves, CallMoves
  <2> QED
    BY <1>2, <1>3, <2>2, Leaves DEF Does
<1>4. CASE CanStartWith(task, a, drv[d].n) /\ task' = Refresh(Start(task, a, drv[d].n)) /\ Go(d, "admit")
  <2>1. PICK n \in Nat : n = drv[d].n
    BY <1>0 DEF Calls
  <2> DEFINE t == Start(task, a, n)
             c == [Idle EXCEPT !.pc = "admit", !.a = a]
  <2>2. /\ Moved(task, t) /\ Started(t) = Started(task) \cup {a}
        /\ t.att[a].state = "Running" /\ ~t.att[a].retry
        /\ \A b \in Attempts : b # a => t.att[b] = task.att[b]
        /\ t.state = task.state
    <3>1. Moved(task, t) /\ Started(t) = Started(task) \cup {a}
      BY <1>0, <1>4, <2>1, StartMoved
    <3>2. /\ t.att[a].state = "Running" /\ ~t.att[a].retry
          /\ \A b \in Attempts : b # a => t.att[b] = task.att[b]
          /\ t.state = task.state
      <4>1. PICK u : u = t
        OBVIOUS
      <4>2. u = Start(task, a, n)
        BY <4>1
      <4>3. /\ u.att[a].state = "Running" /\ ~u.att[a].retry
            /\ \A b \in Attempts : b # a => u.att[b] = task.att[b]
            /\ u.state = task.state
        BY <1>0, <4>2, StartAttempts
      <4> HIDE DEF t
      <4> QED
        BY <4>1, <4>3
    <3> QED
      BY <3>1, <3>2
  <2>3. IsOpen(task) /\ a \notin Started(task)
    BY <1>4 DEF CanStartWith, CanStart, Started
  <2>4. task' = Refresh(t)
    BY <1>4, <2>1
  <2> HIDE DEF t
  <2>5. TaskMoves /\ Started(task') = Started(t)
    <3>1. t.state # "completed"
      BY <2>2, <2>3 DEF IsOpen, Ended
    <3>2. \A b \in Attempts : t.att[b].state \in {"Failed", "RecoveryRequired"} =>
              task.att[b].state \in {"Failed", "RecoveryRequired"}
      BY <2>2
    <3>3. \A b \in Attempts : t.att[b].retry => task.att[b].retry
      BY <2>2
    <3> QED
      BY <2>2, <2>4, <3>1, <3>2, <3>3, NewSnapshot
  <2>0. "admit" \in Pcs
    BY DEF Pcs
  <2>6. c \in Calls /\ c.pc = "admit" /\ c.a = a
    BY <2>0, IdleIs
  <2>7. Step(d, c)
    BY <1>1, <1>4 DEF Go, Here
  <2> HIDE DEF c
  <2>8. drv' \in [Drivers -> Calls] /\ drv'[d] = c /\ \A e \in Drivers : e # d => drv'[e] = drv[e]
    BY <2>6, <2>7, StepIs
  <2>9. ToAdmit(d)
    BY <2>2, <2>3, <2>5, <2>6, <2>8 DEF ToAdmit
  <2>10. DriverMoves
    BY <2>6, <2>8, <2>9 DEF DriverMoves, CallMoves
  <2> QED
    BY <1>2, <2>5, <2>10, Leaves DEF Does
<1> QED
  BY <1>1, <1>3, <1>4 DEF RunStart

\* resume: the command named by the checkpoint.
LEMMA ResumeBeginDoes ==
    ASSUME Inv, NEW d \in Workers, NEW a \in Attempts, ResumeBegin(d, a)
    PROVE  Does
<1>0. d \in Drivers /\ drv[d] \in Calls /\ Sane(task)
  BY DEF Drivers, Inv, Types
<1>1. /\ Suspension(log[a]) # 0 /\ a \in Started(task)
      /\ log' = log /\ active' = active /\ entered' = entered
  BY DEF ResumeBegin, Started
<1>2. TaskMoves /\ Started(task) \subseteq Started(task')
  <2>1. PICK f : Accepts(f, CanResume(task, a, Suspension(log[a]))) /\ Commit(f, Resume(task, a))
    BY DEF ResumeBegin
  <2>2. CASE f \in facts
    <3>1. task' = task
      BY <2>1, <2>2 DEF Commit
    <3> QED
      BY <3>1 DEF TaskMoves
  <2>3. CASE f \notin facts
    <3>1. PICK t : t = Resume(task, a)
      OBVIOUS
    <3>2. task' = Refresh(t) /\ CanResume(task, a, Suspension(log[a]))
      BY <2>1, <2>3, <3>1 DEF Commit, Accepts
    <3>3. /\ Moved(task, t) /\ t.state # "completed"
          /\ t.att[a].state = "Running" /\ t.att[a].retry = task.att[a].retry
          /\ \A b \in Attempts : b # a => t.att[b] = task.att[b]
      BY <1>0, <3>1, <3>2, ResumeMoved
    <3>4. \A b \in Attempts : t.att[b].state \in {"Failed", "RecoveryRequired"} =>
              task.att[b].state \in {"Failed", "RecoveryRequired"}
      BY <3>3
    <3>5. \A b \in Attempts : t.att[b].retry => task.att[b].retry
      BY <3>3
    <3>6. TaskMoves /\ Started(task') = Started(t)
      BY <3>2, <3>3, <3>4, <3>5, NewSnapshot
    <3> QED
      BY <3>3, <3>6 DEF Moved
  <2> QED
    BY <2>2, <2>3
<1> DEFINE c == [drv[d] EXCEPT !.pc = "admit", !.a = a, !.seen = <<"resume">>]
<1>3. c \in Calls /\ c.pc = "admit" /\ c.a = a
  <2>1. "admit" \in Pcs /\ <<"resume">> \in Seq(RowKinds \cup {"resume"})
    BY DEF Pcs
  <2> QED
    BY <1>0, <2>1 DEF Calls
<1>4. Step(d, c)
  BY DEF ResumeBegin
<1> HIDE DEF c
<1>5. drv' \in [Drivers -> Calls] /\ drv'[d] = c /\ \A e \in Drivers : e # d => drv'[e] = drv[e]
  BY <1>0, <1>3, <1>4, StepIs
<1>6. ToAdmit(d)
  BY <1>1, <1>2, <1>3, <1>5 DEF ToAdmit
<1>7. DriverMoves
  BY <1>3, <1>5, <1>6 DEF DriverMoves, CallMoves
<1> QED
  BY <1>1, <1>2, <1>7, Leaves DEF Does

\* bind_execution and the admission of the execution, or its refusal.
LEMMA ExecutionAdmitDoes ==
    ASSUME Inv, NEW d \in Drivers, ExecutionAdmit(d)
    PROVE  Does
<1>0. drv[d] \in Calls /\ At(d, "admit")
  BY DEF Inv, Types, ExecutionAdmit
<1>1. PICK a \in Attempts : a = Here(d)
  BY <1>0 DEF Calls, Here
<1>2. log[a] \in Seq(RowKinds) /\ a \in Started(task) /\ (a \in active => ~Fresh(log[a]))
  BY <1>0, <1>1 DEF Inv, Types, Claims, At
<1>3. task' = task /\ entered' = entered
  BY DEF ExecutionAdmit
<1>4. PICK bind \in {<<>>, <<"Bound">>} : bind = IF Has(log[a], "Bound") THEN <<>> ELSE <<"Bound">>
  OBVIOUS
<1>5. Fresh(log[a]) <=> ~\E k \in Terminals \cup Checkpoints \cup {"Started", "Intent"} : Has(log[a], k)
  BY DEF Fresh
<1>6. CASE a \notin active /\ (Fresh(log[a]) \/ Suspension(log[a]) # 0)
           /\ active' = active \cup {a} /\ Go(d, "run")
           /\ Write(a, IF Fresh(log[a]) THEN bind \o <<"Started">>
                       ELSE IF Has(log[a], "Wait") THEN <<"Receipt", "Merged">> ELSE <<"Merged">>)
  <2>1. PICK ks \in Seq(RowKinds) :
           /\ Write(a, ks) /\ (Fresh(log[a]) => Has(ks, "Started"))
           /\ \A k \in {"Suspended", "Effect", "NotCommitted"} : ~Has(ks, k)
    <3>1. CASE Fresh(log[a])
      <4>1. "Started" \in RowKinds /\ "Bound" \in RowKinds
        BY DEF RowKinds
      <4>2. PICK ks : ks = bind \o <<"Started">>
        OBVIOUS
      <4>3. bind \in Seq(RowKinds) /\ <<"Started">> \in Seq(RowKinds)
            /\ \A k : (Has(bind, k) => k = "Bound") /\ (Has(<<"Started">>, k) <=> k = "Started")
        BY <1>4, <4>1, Kinds
      <4>4. ks \in Seq(RowKinds) /\ Has(ks, "Started")
            /\ \A k \in {"Suspended", "Effect", "NotCommitted"} : ~Has(ks, k)
        BY <4>2, <4>3, Written, HasWritten
      <4> QED
        BY <1>6, <3>1, <4>2, <4>4
    <3>2. CASE ~Fresh(log[a])
      <4>1. PICK ks \in {<<"Receipt", "Merged">>, <<"Merged">>} :
               ks = IF Has(log[a], "Wait") THEN <<"Receipt", "Merged">> ELSE <<"Merged">>
        OBVIOUS
      <4>2. ks \in Seq(RowKinds) /\ \A k \in {"Suspended", "Effect", "NotCommitted"} : ~Has(ks, k)
        <5>1. {"Receipt", "Merged"} \subseteq RowKinds
          BY DEF RowKinds, Checkpoints
        <5> QED
          BY <4>1, <5>1, Kinds
      <4> QED
        BY <1>6, <3>2, <4>1, <4>2
    <3> QED
      BY <3>1, <3>2
  <2>2. LogMoves /\ \A k : Has(log'[a], k) <=> Has(log[a], k) \/ Has(ks, k)
    BY <2>1, WriteMoves DEF Appends
  <2>3. Has(log'[a], "Started")
    BY <1>6, <2>1, <2>2, Admissible
  <2>4. ~Fresh(log'[a])
    BY <2>3 DEF Fresh
  <2>5. ActiveMoves
    BY <1>6, <2>4 DEF ActiveMoves, Inv, Types
  <2> DEFINE c == [Idle EXCEPT !.pc = "run", !.a = a]
  <2>0. "run" \in Pcs
    BY DEF Pcs
  <2>6. c \in Calls /\ c.pc = "run" /\ c.a = a
    BY <2>0, IdleIs
  <2>7. Step(d, c)
    BY <1>1, <1>6 DEF Go, Here
  <2> HIDE DEF c
  <2>8. drv' \in [Drivers -> Calls] /\ drv'[d] = c /\ \A e \in Drivers : e # d => drv'[e] = drv[e]
    BY <2>6, <2>7, StepIs
  <2>9. ToRun(d)
    BY <1>0, <1>1, <1>6, <2>3, <2>6, <2>8 DEF ToRun
  <2>10. DriverMoves
    BY <2>6, <2>8, <2>9 DEF DriverMoves, CallMoves
  <2> QED
    BY <1>3, <2>2, <2>5, <2>10, Leaves DEF Does
<1>7. CASE (a \in active \/ ~Fresh(log[a])) /\ Go(d, "record") /\ Write(a, bind) /\ active' = active
  <2>1. bind \in Seq(RowKinds) /\ \A k \in {"Suspended", "Effect", "NotCommitted"} : ~Has(bind, k)
    <3>1. "Bound" \in RowKinds
      BY DEF RowKinds
    <3> QED
      BY <1>4, <3>1, Kinds
  <2>2. LogMoves
    BY <1>7, <2>1, WriteMoves DEF Appends
  <2> DEFINE c == [Idle EXCEPT !.pc = "record", !.a = a]
  <2>0. "record" \in Pcs
    BY DEF Pcs
  <2>6. c \in Calls /\ c.pc = "record" /\ c.a = a
    BY <2>0, IdleIs
  <2>7. Step(d, c)
    BY <1>1, <1>7 DEF Go, Here
  <2> HIDE DEF c
  <2>8. drv' \in [Drivers -> Calls] /\ drv'[d] = c /\ \A e \in Drivers : e # d => drv'[e] = drv[e]
    BY <2>6, <2>7, StepIs
  <2>9. ToRecord(d)
    BY <1>2, <1>7, <2>6, <2>8 DEF ToRecord
  <2>10. DriverMoves
    BY <2>6, <2>8, <2>9 DEF DriverMoves, CallMoves
  <2> QED
    BY <1>3, <1>7, <2>2, <2>10, Leaves DEF Does
<1> QED
  <2>1. CASE a \notin active /\ (Fresh(log[a]) \/ (drv[d].seen = <<"resume">> /\ Suspension(log[a]) # 0))
    BY <1>1, <1>4, <1>5, <1>6, <2>1 DEF ExecutionAdmit
  <2>2. CASE ~(a \notin active /\ (Fresh(log[a]) \/ (drv[d].seen = <<"resume">> /\ Suspension(log[a]) # 0)))
    BY <1>1, <1>4, <1>5, <1>7, <2>2 DEF ExecutionAdmit
  <2> QED
    BY <2>1, <2>2

----------------------------------------------------------------------------
\* The execution a call awaits.

\* A call that goes on for its execution.
LEMMA GoIs ==
    ASSUME Inv, NEW d \in Drivers, NEW pc \in Pcs, Go(d, pc)
    PROVE  /\ drv' \in [Drivers -> Calls] /\ drv'[d].pc = pc /\ drv'[d].a = Here(d)
           /\ Here(d) \in Attempts
           /\ \A e \in Drivers : e # d => drv'[e] = drv[e]
<1>0. drv[d] \in Calls
  BY DEF Inv, Types
<1>1. PICK a \in Attempts : a = drv[d].a
  BY <1>0 DEF Calls
<1> DEFINE c == [Idle EXCEPT !.pc = pc, !.a = a]
<1>2. c \in Calls /\ c.pc = pc /\ c.a = a
  BY IdleIs
<1>3. Step(d, c)
  BY <1>1 DEF Go
<1> HIDE DEF c
<1> QED
  BY <1>1, <1>2, <1>3, StepIs DEF Here

\* What a running call knows of its execution.
LEMMA RunsIs ==
    ASSUME Inv, NEW d \in Drivers, drv[d].pc \in {"run", "commit"}
    PROVE  /\ Here(d) \in Attempts /\ Here(d) \in Started(task)
           /\ log[Here(d)] \in Seq(RowKinds) /\ Has(log[Here(d)], "Started") /\ ~Fresh(log[Here(d)])
<1>1. Here(d) \in Attempts /\ drv[d] \in Calls
  BY DEF Inv, Types, Here, Calls
<1>2. Here(d) \in Started(task) /\ Has(log[Here(d)], "Started")
  BY DEF Inv, Claims
<1> QED
  BY <1>1, <1>2 DEF Inv, Types, Fresh

\* What a call appends between its own steps, when it is no suspension, effect or inspection.
LEMMA WorkDoes ==
    ASSUME Inv, NEW d \in Drivers, Running(d), NEW x \in {"Model", "Receipt"}, Work(d, <<x>>)
    PROVE  Does
<1>1. PICK a \in Attempts : a = Here(d)
  BY RunsIs DEF Running, At
<1>2. <<x>> \in Seq(RowKinds) /\ \A k : Has(<<x>>, k) <=> k = x
  <2>1. x \in RowKinds
    BY DEF RowKinds
  <2> QED
    BY <2>1, Kinds
<1>3. LogMoves
  <2>1. PICK ks \in Seq(RowKinds) : ks = <<x>>
    BY <1>2
  <2>2. Write(a, ks)
    BY <1>1, <2>1 DEF Work
  <2>3. ~Has(ks, "Suspended") /\ ~Has(ks, "Effect") /\ ~Has(ks, "NotCommitted")
    BY <1>2, <2>1
  <2> QED
    BY <2>2, <2>3, WriteMoves DEF Appends
<1>4. task' = task /\ active' = active /\ entered' = entered /\ drv' = drv
  BY DEF Work
<1> QED
  BY <1>3, <1>4, Leaves DEF Does

\* A model call and the receipt of an effect.
LEMMA ModelAndReceiptDoes ==
    ASSUME Inv, NEW d \in Drivers, ModelCall(d) \/ EffectReceipt(d)
    PROVE  Does
<1>1. CASE ModelCall(d)
  BY <1>1, WorkDoes DEF ModelCall
<1>2. CASE EffectReceipt(d)
  BY <1>2, WorkDoes DEF EffectReceipt
<1> QED
  BY <1>1, <1>2

\* The start of an effect.
LEMMA EffectStartDoes ==
    ASSUME Inv, NEW d \in Drivers, EffectStart(d)
    PROVE  Does
<1>1. PICK a \in Attempts : a = Here(d)
  BY RunsIs DEF EffectStart, Running, At
<1>2. PICK ks \in Seq(RowKinds) : ks = <<"Prepared", "Effect">> /\ \A k : Has(ks, k) <=> k \in {"Prepared", "Effect"}
  <2>1. "Prepared" \in RowKinds /\ "Effect" \in RowKinds
    BY DEF RowKinds, Checkpoints
  <2>2. PICK ks : ks = <<"Prepared", "Effect">>
    OBVIOUS
  <2>3. ks \in Seq(RowKinds) /\ \A k : Has(ks, k) <=> k \in {"Prepared", "Effect"}
    BY <2>1, <2>2, Kinds
  <2> QED
    BY <2>2, <2>3
<1>3. RunsLive(d, a) /\ ~Has(log[a], "Effect") /\ Write(a, ks)
      /\ entered' \in {entered, entered \cup {a}}
      /\ task' = task /\ active' = active /\ drv' = drv
  BY <1>1, <1>2 DEF EffectStart, RunsLive
<1>4. log'[a] = log[a] \o ks => Appends(a, ks)
  BY <1>2, <1>3 DEF Appends
<1>5. LogMoves /\ Has(log'[a], "Effect")
  BY <1>2, <1>3, <1>4, WriteMoves
<1>6. EnteredMoves
  BY <1>1, <1>3, <1>5 DEF EnteredMoves
<1> QED
  BY <1>3, <1>5, <1>6, Leaves DEF Does

\* What Return releases.
LEMMA ReturnIs ==
    ASSUME Inv, NEW d \in Drivers, drv[d].pc \in {"run", "commit"}, Return(d)
    PROVE  ActiveMoves /\ DriverMoves
<1>1. /\ Here(d) \in Attempts /\ Here(d) \in Started(task) /\ ~Fresh(log[Here(d)])
  BY RunsIs
<1>2. /\ drv' \in [Drivers -> Calls] /\ drv'[d].pc = "record" /\ drv'[d].a = Here(d)
      /\ \A e \in Drivers : e # d => drv'[e] = drv[e]
  <2>1. "record" \in Pcs
    BY DEF Pcs
  <2> QED
    BY <2>1, GoIs DEF Return
<1>3. ToRecord(d)
  BY <1>1, <1>2 DEF ToRecord
<1>4. DriverMoves
  BY <1>2, <1>3 DEF DriverMoves, CallMoves
<1>5. ActiveMoves
  BY <1>2 DEF Return, ActiveMoves, Inv, Types
<1> QED
  BY <1>4, <1>5

\* A suspension before the effect, or behind its start at an external wait.
LEMMA SuspendDoes ==
    ASSUME Inv, NEW d \in Drivers, Suspend(d)
    PROVE  Does
<1>0. drv[d].pc = "run"
  BY DEF Suspend, Running, At
<1>1. PICK a \in Attempts : a = Here(d) /\ log[a] \in Seq(RowKinds) /\ Has(log[a], "Started")
  BY <1>0, RunsIs
<1>2. /\ RunsLive(d, a) /\ ~Has(log[a], "Suspended") /\ Rows(log[a])
      /\ task' = task /\ entered' = entered
  BY <1>1 DEF Suspend, RunsLive, Inv
<1>3. PICK ks \in Seq(RowKinds) :
         /\ Write(a, ks) /\ ~Has(ks, "Effect") /\ ~Has(ks, "NotCommitted")
         /\ ~Has(log[a], "Effect") \/ Has(ks, "Wait")
  <2>1. "Wait" \in RowKinds /\ "Suspended" \in RowKinds
    BY DEF RowKinds, Checkpoints
  <2>2. CASE ~Has(log[a], "Effect") /\ Write(a, <<"Suspended">>)
    BY <2>1, <2>2, Kinds
  <2>3. CASE Write(a, <<"Wait", "Suspended">>)
    <3>1. PICK ks : ks = <<"Wait", "Suspended">>
      OBVIOUS
    <3>2. ks \in Seq(RowKinds) /\ \A k : Has(ks, k) <=> k \in {"Wait", "Suspended"}
      BY <2>1, <3>1, Kinds
    <3>3. Write(a, ks)
      BY <2>3, <3>1
    <3> QED
      BY <3>2, <3>3
  <2> QED
    BY <1>1, <2>2, <2>3 DEF Suspend
<1>4. ASSUME log'[a] = log[a] \o ks PROVE Appends(a, ks)
  <2>1. \A k : Has(log'[a], k) <=> Has(log[a], k) \/ Has(ks, k)
    BY <1>1, <1>4, HasWritten
  <2>2. Rows(log'[a])
    BY <1>1, <1>2, <1>3, <2>1 DEF Rows
  <2> QED
    BY <1>2, <1>3, <1>4, <2>2 DEF Appends
<1>5. LogMoves
  BY <1>3, <1>4, WriteMoves
<1>6. ActiveMoves /\ DriverMoves
  BY <1>0, ReturnIs DEF Suspend
<1> QED
  BY <1>2, <1>5, <1>6, Leaves DEF Does

\* The terminal fact.
LEMMA FinishDoes ==
    ASSUME Inv, NEW d \in Drivers, Finish(d)
    PROVE  Does
<1>0. drv[d].pc = "run"
  BY DEF Finish, Running, At
<1>1. PICK a \in Attempts : a = Here(d)
  BY <1>0, RunsIs
<1>2. PICK x \in {"Completed", "Cancelled", "Failed"} : Write(a, <<x>>)
  BY <1>1 DEF Finish
<1>3. PICK ks \in Seq(RowKinds) : ks = <<x>> /\ \A k : Has(ks, k) <=> k = x
  <2>1. x \in RowKinds
    BY DEF RowKinds, Terminals
  <2> QED
    BY <2>1, Kinds
<1>4. Write(a, ks) /\ ~Has(ks, "Suspended") /\ ~Has(ks, "Effect") /\ ~Has(ks, "NotCommitted")
  BY <1>2, <1>3
<1>5. LogMoves /\ \A k : Has(log'[a], k) <=> Has(log[a], k) \/ Has(ks, k)
  BY <1>4, WriteMoves DEF Appends
<1>6. HasTerminal(log'[a])
  BY <1>3, <1>5, TerminalIs DEF Terminals
<1>7. /\ drv' \in [Drivers -> Calls] /\ drv'[d].pc = "commit" /\ drv'[d].a = Here(d)
      /\ \A e \in Drivers : e # d => drv'[e] = drv[e]
  <2>1. "commit" \in Pcs
    BY DEF Pcs
  <2> QED
    BY <2>1, GoIs DEF Finish
<1>8. ToCommit(d)
  BY <1>1, <1>6, <1>7 DEF ToCommit, Finish
<1>9. DriverMoves
  BY <1>7, <1>8 DEF DriverMoves, CallMoves
<1>10. task' = task /\ active' = active /\ entered' = entered
  BY DEF Finish
<1> QED
  BY <1>5, <1>9, <1>10, Leaves DEF Does

\* The Session commit behind it.
LEMMA CommitTurnDoes ==
    ASSUME Inv, NEW d \in Drivers, CommitTurn(d)
    PROVE  Does
<1>0. drv[d].pc = "commit"
  BY DEF CommitTurn, At
<1>1. PICK a \in Attempts : a = Here(d)
  BY <1>0, RunsIs
<1>2. PICK ks \in Seq(RowKinds) : ks = <<"Session">> /\ \A k : Has(ks, k) <=> k = "Session"
  <2>1. "Session" \in RowKinds
    BY DEF RowKinds
  <2> QED
    BY <2>1, Kinds
<1>3. Write(a, ks) /\ ~Has(ks, "Suspended") /\ ~Has(ks, "Effect") /\ ~Has(ks, "NotCommitted")
  BY <1>1, <1>2 DEF CommitTurn
<1>4. LogMoves
  BY <1>3, WriteMoves DEF Appends
<1>5. ActiveMoves /\ DriverMoves
  BY <1>0, ReturnIs DEF CommitTurn
<1>6. task' = task /\ entered' = entered
  BY DEF CommitTurn
<1> QED
  BY <1>4, <1>5, <1>6, Leaves DEF Does

\* The inspection of an interrupted effect, and the repair of a Session commit.
LEMMA OutsideDoes ==
    ASSUME Inv, NEW a \in Attempts, InspectEffect(a) \/ RepairSession(a)
    PROVE  Does
<1>1. PICK x \in {"Receipt", "NotCommitted", "Session"} :
         Write(a, <<x>>) /\ (x = "NotCommitted" => Has(log[a], "Effect") /\ a \notin entered)
  BY DEF InspectEffect, RepairSession
<1>2. PICK ks \in Seq(RowKinds) : ks = <<x>> /\ \A k : Has(ks, k) <=> k = x
  <2>1. x \in RowKinds
    BY DEF RowKinds
  <2> QED
    BY <2>1, Kinds
<1>3. /\ Write(a, ks) /\ ~Has(ks, "Suspended") /\ ~Has(ks, "Effect")
      /\ Has(ks, "NotCommitted") => Has(log[a], "Effect") /\ a \notin entered
  BY <1>1, <1>2
<1>4. LogMoves
  BY <1>3, WriteMoves DEF Appends
<1>5. task' = task /\ active' = active /\ entered' = entered /\ drv' = drv
  BY DEF InspectEffect, RepairSession
<1> QED
  BY <1>4, <1>5, Leaves DEF Does

----------------------------------------------------------------------------
\* Observation.

\* A call that ends.
LEMMA DoneIs ==
    ASSUME Inv, NEW d \in Drivers, Done(d)
    PROVE  DriverMoves
<1>1. drv' \in [Drivers -> Calls] /\ drv'[d] = Idle /\ \A e \in Drivers : e # d => drv'[e] = drv[e]
  BY IdleIs, StepIs DEF Done
<1> QED
  BY <1>1, IdleIs DEF DriverMoves, CallMoves

\* reconcile is called for an attempt no call owns.
LEMMA ReconcileDoes ==
    ASSUME Inv, NEW d \in Operators, NEW a \in Attempts, Reconcile(d, a)
    PROVE  Does
<1>0. d \in Drivers /\ drv[d] \in Calls
  BY DEF Drivers, Inv, Types
<1> DEFINE c == [drv[d] EXCEPT !.pc = "record", !.a = a]
<1>1. c \in Calls /\ c.pc = "record" /\ c.a = a
  <2>1. "record" \in Pcs
    BY DEF Pcs
  <2> QED
    BY <1>0, <2>1 DEF Calls
<1>2. Step(d, c)
  BY DEF Reconcile
<1> HIDE DEF c
<1>3. drv' \in [Drivers -> Calls] /\ drv'[d] = c /\ \A e \in Drivers : e # d => drv'[e] = drv[e]
  BY <1>0, <1>1, <1>2, StepIs
<1>4. a \in Started(task) /\ \A e \in Drivers : ~Admitting(e, a)
  BY DEF Reconcile, Started, Stoppable, Owns, Admitting, At
<1>5. ToRecord(d)
  BY <1>1, <1>3, <1>4 DEF ToRecord
<1>6. DriverMoves
  BY <1>1, <1>3, <1>5 DEF DriverMoves, CallMoves
<1>7. task' = task /\ log' = log /\ active' = active /\ entered' = entered
  BY DEF Reconcile
<1> QED
  BY <1>6, <1>7, Leaves DEF Does

\* An execution read as failed or in need of recovery is halted: it neither runs nor waits.
LEMMA ReadHalted ==
    ASSUME Inv, NEW d \in Drivers, At(d, "record"), NEW a \in Attempts, a = Here(d), a \notin active,
           ~Inspectable(log[a]) \/ StoppedOutcome(log[a]) \in {"Failed", "RecoveryRequired"}
    PROVE  Halted(a)
<1>0. log[a] \in Seq(RowKinds) /\ Rows(log[a]) /\ Claims
  BY DEF Inv, Types
<1>1. a \in Started(task)
  BY <1>0 DEF Claims, At
<1>2. Suspension(log[a]) = 0
  BY <1>0, WaitingIs
<1>3. \A e \in Drivers : ~RunsLive(e, a)
  BY <1>0 DEF Claims, RunsLive, Live
<1>4. Fresh(log[a]) => \A e \in Drivers : ~Admitting(e, a)
  BY <1>0 DEF Claims
<1> QED
  BY <1>1, <1>2, <1>3, <1>4 DEF Halted

\* record_stopped, up to its command.
LEMMA RecordInspectDoes ==
    ASSUME Inv, NEW d \in Drivers, RecordInspect(d)
    PROVE  Does
<1>0. drv[d] \in Calls /\ Sane(task)
  BY DEF Inv, Types
<1>1. PICK a \in Attempts : a = Here(d)
  BY <1>0 DEF Calls, Here
<1>2. log' = log /\ active' = active /\ entered' = entered /\ At(d, "record")
  BY DEF RecordInspect
<1>3. CASE Done(d) /\ task' = task
  BY <1>2, <1>3, DoneIs, Leaves DEF Does
<1>4. CASE /\ Done(d) /\ a \notin active /\ ~Inspectable(log[a]) /\ CanMarkRecovery(task, a)
           /\ Commit(<<"missing-evidence", a>>, MarkRecovery(task, a))
  <2>1. TaskMoves
    <3>1. CASE <<"missing-evidence", a>> \in facts
      BY <1>4, <3>1 DEF Commit, TaskMoves
    <3>2. CASE <<"missing-evidence", a>> \notin facts
      <4>1. PICK t : t = MarkRecovery(task, a)
        OBVIOUS
      <4>2. task' = Refresh(t)
        BY <1>4, <3>2, <4>1 DEF Commit
      <4>3. /\ Moved(task, t) /\ t.state # "completed" /\ t.att[a].retry = task.att[a].retry
            /\ \A b \in Attempts : b # a => t.att[b] = task.att[b]
        BY <1>0, <1>4, <4>1, MarkRecoveryMoved
      <4>4. Halted(a)
        BY <1>1, <1>2, <1>4, ReadHalted
      <4>5. \A b \in Attempts : t.att[b].retry => task.att[b].retry
        BY <4>3
      <4>6. \A b \in Attempts : t.att[b].state \in {"Failed", "RecoveryRequired"} =>
              task.att[b].state \in {"Failed", "RecoveryRequired"} \/ Halted(b)
        BY <4>3, <4>4
      <4> QED
        BY <4>2, <4>3, <4>5, <4>6, NewSnapshot
    <3> QED
      BY <3>1, <3>2
  <2> QED
    BY <1>2, <1>4, <2>1, DoneIs, Leaves DEF Does
<1>5. CASE /\ a \notin active /\ task' = task
           /\ Step(d, [drv[d] EXCEPT !.pc = "observe",
                                     !.obs = Inspection(log[a], task.att[a].cursor)])
  <2> DEFINE o == Inspection(log[a], task.att[a].cursor)
             c == [drv[d] EXCEPT !.pc = "observe", !.obs = o]
  <2>1. o \in Observations /\ o.outcome = StoppedOutcome(log[a]) /\ o.outcome \in Outcomes
    <3>1. log[a] \in Seq(RowKinds) /\ task.att[a].cursor \in Nat
      BY <1>0 DEF Inv, Types, Sane, Tasks, AttRecs
    <3> QED
      BY <3>1, InspectionIs
  <2> HIDE DEF o
  <2>2. c \in Calls /\ c.pc = "observe" /\ c.obs = o /\ c.a = a
    <3>1. "observe" \in Pcs
      BY DEF Pcs
    <3> QED
      BY <1>0, <1>1, <2>1, <3>1 DEF Calls, Here
  <2>3. Step(d, c)
    BY <1>5 DEF o
  <2> HIDE DEF c
  <2>4. drv' \in [Drivers -> Calls] /\ drv'[d] = c /\ \A e \in Drivers : e # d => drv'[e] = drv[e]
    BY <2>2, <2>3, StepIs
  <2>5. ToObserve(d)
    BY <1>1, <1>2, <1>5, <2>1, <2>2, <2>4, ReadHalted DEF ToObserve
  <2>6. DriverMoves
    BY <2>2, <2>4, <2>5 DEF DriverMoves, CallMoves
  <2> QED
    BY <1>2, <1>5, <2>6, Leaves DEF Does
<1> QED
  BY <1>1, <1>3, <1>4, <1>5 DEF RecordInspect

\* record_stopped: its command.
LEMMA RecordCommitDoes ==
    ASSUME Inv, NEW d \in Drivers, RecordCommit(d)
    PROVE  Does
<1>0. drv[d] \in Calls /\ Sane(task) /\ At(d, "observe") /\ drv[d].obs.outcome \in Outcomes
  BY DEF Inv, Types, RecordCommit
<1>1. PICK a \in Attempts, o \in Observations : a = Here(d) /\ o = drv[d].obs
  BY <1>0 DEF Calls, Here
<1>2. log' = log /\ active' = active /\ entered' = entered /\ Done(d)
  BY DEF RecordCommit
<1>3. TaskMoves
  <2>1. CASE task' = task
    BY <2>1 DEF TaskMoves
  <2>2. CASE CanObserve(task, a, o) /\ task' = Refresh(Observe(task, a, o))
    <3>1. PICK t : t = Observe(task, a, o)
      OBVIOUS
    <3>2. /\ Moved(task, t) /\ t.att[a].state = o.outcome /\ t.att[a].retry = task.att[a].retry
          /\ \A b \in Attempts : b # a => t.att[b] = task.att[b]
          /\ t.state # "completed"
      BY <1>0, <1>1, <2>2, <3>1, ObserveMoved
    <3>3. o.outcome \in {"Failed", "RecoveryRequired"} => Halted(a)
      BY <1>0, <1>1 DEF Inv, Halts
    <3>4. \A b \in Attempts : t.att[b].retry => task.att[b].retry
      BY <3>2
    <3>5. \A b \in Attempts : t.att[b].state \in {"Failed", "RecoveryRequired"} =>
              task.att[b].state \in {"Failed", "RecoveryRequired"} \/ Halted(b)
      BY <3>2, <3>3
    <3>6. task' = Refresh(t)
      BY <2>2, <3>1
    <3> QED
      BY <3>2, <3>4, <3>5, <3>6, NewSnapshot
  <2> QED
    BY <1>1, <2>1, <2>2 DEF RecordCommit
<1> QED
  BY <1>2, <1>3, DoneIs, Leaves DEF Does

----------------------------------------------------------------------------
\* Retry authorization.

\* authorize_retry begins with what the stream proves.
LEMMA RetryBeginDoes ==
    ASSUME Inv, NEW d \in Operators, NEW a \in Attempts, RetryBegin(d, a)
    PROVE  Does
<1>0. d \in Drivers /\ drv[d] \in Calls /\ log[a] \in Seq(RowKinds)
  BY DEF Drivers, Inv, Types
<1>1. Settled(log[a]) /\ Halted(a)
  BY DEF RetryBegin, ValidateEffects, Settled, Inv, Halts
<1> DEFINE c == [drv[d] EXCEPT !.pc = "proof", !.a = a, !.seen = log[a]]
<1>2. c \in Calls /\ c.pc = "proof" /\ c.seen = log[a] /\ c.a = a
  <2>1. "proof" \in Pcs /\ log[a] \in Seq(RowKinds \cup {"resume"})
    BY <1>0 DEF Pcs
  <2> QED
    BY <1>0, <2>1 DEF Calls
<1>3. Step(d, c)
  BY DEF RetryBegin
<1> HIDE DEF c
<1>4. drv' \in [Drivers -> Calls] /\ drv'[d] = c /\ \A e \in Drivers : e # d => drv'[e] = drv[e]
  BY <1>0, <1>2, <1>3, StepIs
<1>5. ToRetry(d)
  BY <1>1, <1>2, <1>4 DEF ToRetry
<1>6. DriverMoves
  BY <1>2, <1>4, <1>5 DEF DriverMoves, CallMoves
<1>7. task' = task /\ log' = log /\ active' = active /\ entered' = entered
  BY DEF RetryBegin
<1> QED
  BY <1>6, <1>7, Leaves DEF Does

\* The proof in the Ledger.
LEMMA RetryProofDoes ==
    ASSUME Inv, NEW d \in Drivers, RetryProof(d)
    PROVE  Does
<1>0. drv[d] \in Calls /\ At(d, "proof") /\ drv[d].seen \in Seq(RowKinds \cup {"resume"})
      /\ Halted(Here(d)) /\ Settled(drv[d].seen)
  BY DEF Inv, Types, Halts, At, Calls, RetryProof
<1>1. PICK a \in Attempts : a = Here(d)
  BY <1>0 DEF Calls, Here
<1>2. task' = task /\ active' = active /\ entered' = entered
  BY DEF RetryProof
<1>3. LogMoves
  <2>1. CASE log' = log
    BY <2>1, Leaves
  <2>2. CASE Write(a, <<"Proof">>)
    <3>1. PICK ks \in Seq(RowKinds) : ks = <<"Proof">> /\ \A k : Has(ks, k) <=> k = "Proof"
      <4>1. "Proof" \in RowKinds
        BY DEF RowKinds
      <4> QED
        BY <4>1, Kinds
    <3>2. Write(a, ks) /\ ~Has(ks, "Suspended") /\ ~Has(ks, "Effect") /\ ~Has(ks, "NotCommitted")
      BY <2>2, <3>1
    <3> QED
      BY <3>2, WriteMoves DEF Appends
  <2> QED
    BY <1>1, <2>1, <2>2 DEF RetryProof
<1>4. DriverMoves
  <2>1. CASE Done(d)
    BY <2>1, DoneIs
  <2>2. ASSUME NEW seen \in Seq(RowKinds \cup {"resume"}),
               Settled(seen),
               Step(d, [drv[d] EXCEPT !.pc = "recheck", !.seen = seen])
        PROVE  DriverMoves
    <3> DEFINE c == [drv[d] EXCEPT !.pc = "recheck", !.seen = seen]
    <3>1. c \in Calls /\ c.pc = "recheck" /\ c.seen = seen /\ c.a = Here(d)
      <4>1. "recheck" \in Pcs
        BY DEF Pcs
      <4> QED
        BY <1>0, <4>1 DEF Calls, Here
    <3>2. Step(d, c)
      BY <2>2
    <3> HIDE DEF c
    <3>3. drv' \in [Drivers -> Calls] /\ drv'[d] = c /\ \A e \in Drivers : e # d => drv'[e] = drv[e]
      BY <3>1, <3>2, StepIs
    <3>4. ToRetry(d)
      BY <1>0, <2>2, <3>1, <3>3 DEF ToRetry
    <3> QED
      BY <3>1, <3>3, <3>4 DEF DriverMoves, CallMoves
  <2>3. CASE Step(d, [drv[d] EXCEPT !.pc = "recheck"])
    <3>1. [drv[d] EXCEPT !.pc = "recheck"] = [drv[d] EXCEPT !.pc = "recheck", !.seen = drv[d].seen]
      BY <1>0 DEF Calls
    <3> QED
      BY <1>0, <2>2, <2>3, <3>1
  <2>4. CASE Step(d, [drv[d] EXCEPT !.pc = "recheck", !.seen = Append(@, "Proof")])
    <3>1. PICK seen : seen = Append(drv[d].seen, "Proof")
      OBVIOUS
    <3>2. seen \in Seq(RowKinds \cup {"resume"})
      BY <1>0, <3>1 DEF RowKinds
    <3>3. \A k : Has(seen, k) <=> Has(drv[d].seen, k) \/ k = "Proof"
      <4>0. PICK l : l = drv[d].seen
        OBVIOUS
      <4>1. Len(l) \in Nat /\ Len(seen) = Len(l) + 1 /\ seen[Len(l) + 1] = "Proof"
            /\ \A n \in 1..Len(l) : seen[n] = l[n]
        BY <1>0, <3>1, <4>0
      <4>2. ASSUME NEW k, Has(seen, k) PROVE Has(l, k) \/ k = "Proof"
        BY <4>1, <4>2 DEF Has
      <4>3. ASSUME NEW k, Has(l, k) PROVE Has(seen, k)
        BY <4>1, <4>3 DEF Has
      <4>4. Has(seen, "Proof")
        <5>1. Len(l) + 1 \in 1..Len(seen)
          BY <4>1
        <5> QED
          BY <4>1, <5>1 DEF Has
      <4> QED
        BY <4>0, <4>2, <4>3, <4>4
    <3> QED
      BY <1>0, <2>2, <2>4, <3>1, <3>2, <3>3 DEF Settled
  <2> QED
    BY <2>1, <2>3, <2>4 DEF RetryProof
<1> QED
  BY <1>2, <1>3, <1>4, Leaves DEF Does

\* The last read of the Ledger.
LEMMA RetryRecheckDoes ==
    ASSUME Inv, NEW d \in Drivers, RetryRecheck(d)
    PROVE  Does
<1>0. drv[d] \in Calls /\ At(d, "recheck") /\ Halted(Here(d)) /\ Settled(drv[d].seen)
  BY DEF Inv, Types, Halts, At, RetryRecheck
<1>1. task' = task /\ log' = log /\ active' = active /\ entered' = entered
  BY DEF RetryRecheck
<1>2. DriverMoves
  <2>1. CASE Done(d)
    BY <2>1, DoneIs
  <2>2. CASE log[Here(d)] = drv[d].seen /\ Step(d, [drv[d] EXCEPT !.pc = "grant"])
    <3> DEFINE c == [drv[d] EXCEPT !.pc = "grant"]
    <3>1. c \in Calls /\ c.pc = "grant" /\ c.seen = drv[d].seen /\ c.a = Here(d)
      <4>1. "grant" \in Pcs
        BY DEF Pcs
      <4> QED
        BY <1>0, <4>1 DEF Calls, Here
    <3>2. Step(d, c)
      BY <2>2
    <3> HIDE DEF c
    <3>3. drv' \in [Drivers -> Calls] /\ drv'[d] = c /\ \A e \in Drivers : e # d => drv'[e] = drv[e]
      BY <3>1, <3>2, StepIs
    <3>4. ToRetry(d) /\ Settled(log[drv'[d].a])
      BY <1>0, <2>2, <3>1, <3>3 DEF ToRetry
    <3> QED
      BY <3>1, <3>3, <3>4 DEF DriverMoves, CallMoves
  <2> QED
    BY <2>1, <2>2 DEF RetryRecheck
<1> QED
  BY <1>1, <1>2, Leaves DEF Does

\* The Task command behind the proof.
LEMMA RetryGrantDoes ==
    ASSUME Inv, NEW d \in Drivers, RetryGrant(d)
    PROVE  Does
<1>0. drv[d] \in Calls /\ At(d, "grant") /\ Sane(task)
      /\ Settled(log[Here(d)])
  BY DEF Inv, Types, Halts, At, RetryGrant
<1>1. PICK a \in Attempts : a = Here(d)
  BY <1>0 DEF Calls, Here
<1>2. log' = log /\ active' = active /\ entered' = entered /\ Done(d)
  BY DEF RetryGrant
<1>3. TaskMoves
  <2>1. CASE task' = task
    BY <2>1 DEF TaskMoves
  <2>2. ASSUME NEW f, f \notin facts, NEW x,
               Accepts(f, CanAuthorizeRetry(task, a, x)), Commit(f, AuthorizeRetry(task, a))
        PROVE  TaskMoves
    <3>1. PICK t : t = AuthorizeRetry(task, a)
      OBVIOUS
    <3>2. CanAuthorizeRetry(task, a, x) /\ task' = Refresh(t)
      BY <2>2, <3>1 DEF Accepts, Commit
    <3>3. /\ Moved(task, t) /\ IsOpen(task) /\ t.state = task.state
          /\ \A b \in Attempts : b # a => t.att[b] = task.att[b]
      BY <1>0, <3>1, <3>2, RetryMoved
    <3>4. t.state # "completed"
      BY <3>3 DEF IsOpen, Ended
    <3>5. task.att[a].state \in {"Failed", "RecoveryRequired"}
      BY <3>2 DEF CanAuthorizeRetry
    <3>6. \A b \in Attempts : t.att[b].state \in {"Failed", "RecoveryRequired"} =>
              task.att[b].state \in {"Failed", "RecoveryRequired"}
      BY <3>3, <3>5
    <3>7. \A b \in Attempts : t.att[b].retry =>
              task.att[b].retry \/ ~Has(log[b], "Effect") \/ Has(log[b], "NotCommitted")
      BY <1>0, <1>1, <2>2, <3>3 DEF Settled
    <3> QED
      BY <3>2, <3>3, <3>4, <3>6, <3>7, NewSnapshot
  <2>3. CASE Commit(<<"retry", a>>, AuthorizeRetry(task, a)) /\ <<"retry", a>> \in facts
    BY <2>1, <2>3 DEF Commit
  <2> QED
    BY <1>1, <2>1, <2>2, <2>3 DEF RetryGrant
<1> QED
  BY <1>2, <1>3, DoneIs, Leaves DEF Does

----------------------------------------------------------------------------
\* Cancellation and the crash of the process.

\* cancel: the Task fact.
LEMMA CancelDoes ==
    ASSUME Inv, NEW d \in Drivers, Cancel(d)
    PROVE  Does
<1>0. drv[d] \in Calls /\ Sane(task)
  BY DEF Inv, Types
<1>1. log' = log /\ active' = active /\ entered' = entered
  BY DEF Cancel
<1>2. TaskMoves
  <2>1. Accepts(<<"cancel">>, CanEnd(task)) /\ Commit(<<"cancel">>, CancelTask(task))
    BY DEF Cancel
  <2>2. CASE <<"cancel">> \in facts
    BY <2>1, <2>2 DEF Commit, TaskMoves
  <2>3. CASE <<"cancel">> \notin facts
    <3>1. PICK t : t = CancelTask(task)
      OBVIOUS
    <3>2. CanEnd(task) /\ task' = Refresh(t)
      BY <2>1, <2>3, <3>1 DEF Accepts, Commit
    <3>3. /\ Moved(task, t) /\ t.state = "cancelled"
          /\ \A a \in Attempts : t.att[a].state = task.att[a].state /\ t.att[a].retry = task.att[a].retry
      BY <1>0, <3>1, <3>2, CancelMoved
    <3> QED
      BY <3>2, <3>3, NewSnapshot
  <2> QED
    BY <2>2, <2>3
<1>3. DriverMoves
  <2>1. PICK s : Step(d, [drv[d] EXCEPT !.pc = "deliver", !.todo = {a \in Started(task) : s.att[a].cancelled}])
    BY DEF Cancel
  <2> DEFINE T == {a \in Started(task) : s.att[a].cancelled}
             c == [drv[d] EXCEPT !.pc = "deliver", !.todo = T]
  <2>2. T \in SUBSET Attempts /\ "deliver" \in Pcs
    BY DEF Started, Pcs
  <2> HIDE DEF T
  <2>3. c \in Calls /\ c.pc = "deliver"
    BY <1>0, <2>2 DEF Calls
  <2>4. Step(d, c)
    BY <2>1 DEF T
  <2> HIDE DEF c
  <2>5. drv' \in [Drivers -> Calls] /\ drv'[d] = c /\ \A e \in Drivers : e # d => drv'[e] = drv[e]
    BY <2>3, <2>4, StepIs
  <2> QED
    BY <2>3, <2>5 DEF DriverMoves, CallMoves
<1> QED
  BY <1>1, <1>2, <1>3, Leaves DEF Does

\* One delivery, or none.
LEMMA DeliverDoes ==
    ASSUME Inv, NEW d \in Drivers, Deliver(d)
    PROVE  Does
<1>0. drv[d] \in Calls
  BY DEF Inv, Types
<1>1. task' = task /\ entered' = entered
  BY DEF Deliver
<1>2. CASE Done(d) /\ log' = log /\ active' = active
  BY <1>1, <1>2, DoneIs, Leaves DEF Does
<1>3. ASSUME NEW a \in drv[d].todo, Intend(a),
             Step(d, [drv[d] EXCEPT !.todo = @ \ {a}, !.a = a, !.pc = IF AtWait(a) THEN "cancelwait" ELSE @])
      PROVE  Does
  <2>1. a \in Attempts /\ drv[d].todo \in SUBSET Attempts
    BY <1>0 DEF Calls
  <2>2. LogMoves /\ ActiveMoves
    <3>1. CASE log' = log /\ active' = active
      BY <3>1, Leaves
    <3>2. CASE Write(a, <<"Intent">>) /\ active' = active \ {a}
      <4>1. PICK ks \in Seq(RowKinds) : ks = <<"Intent">> /\ \A k : Has(ks, k) <=> k = "Intent"
        <5>1. "Intent" \in RowKinds
          BY DEF RowKinds
        <5> QED
          BY <5>1, Kinds
      <4>2. Write(a, ks) /\ ~Has(ks, "Suspended") /\ ~Has(ks, "Effect") /\ ~Has(ks, "NotCommitted")
        BY <3>2, <4>1
      <4>3. LogMoves /\ Has(log'[a], "Intent")
        BY <2>1, <4>1, <4>2, WriteMoves DEF Appends
      <4> QED
        BY <3>2, <4>3 DEF ActiveMoves, Inv, Types
    <3> QED
      BY <1>3, <3>1, <3>2 DEF Intend
  <2>3. DriverMoves
    <3>1. PICK pc \in {"cancelwait", drv[d].pc} : pc = IF AtWait(a) THEN "cancelwait" ELSE drv[d].pc
      OBVIOUS
    <3>2. drv[d].pc = "deliver"
      BY DEF Deliver, At
    <3> DEFINE T == drv[d].todo \ {a}
               c == [drv[d] EXCEPT !.todo = T, !.a = a, !.pc = pc]
    <3>3. T \in SUBSET Attempts /\ pc \in Pcs
      BY <2>1, <3>1, <3>2 DEF Pcs
    <3>4. Step(d, c)
      BY <1>0, <1>3, <3>1 DEF Calls
    <3> HIDE DEF T
    <3>5. c \in Calls /\ c.pc = pc
      BY <1>0, <2>1, <3>3 DEF Calls
    <3> HIDE DEF c
    <3>6. drv' \in [Drivers -> Calls] /\ drv'[d] = c /\ \A e \in Drivers : e # d => drv'[e] = drv[e]
      BY <3>4, <3>5, StepIs
    <3> QED
      BY <3>1, <3>2, <3>5, <3>6 DEF DriverMoves, CallMoves
  <2> QED
    BY <1>1, <2>2, <2>3, Leaves DEF Does
<1> QED
  BY <1>2, <1>3 DEF Deliver

\* The terminal fact of a Turn that was suspended.
LEMMA DeliverWaitDoes ==
    ASSUME Inv, NEW d \in Drivers, DeliverWait(d)
    PROVE  Does
<1>0. drv[d] \in Calls
  BY DEF Inv, Types
<1>1. PICK a \in Attempts : a = Here(d)
  BY <1>0 DEF Calls, Here
<1>2. task' = task /\ active' = active /\ entered' = entered
  BY DEF DeliverWait
<1>3. LogMoves
  <2>1. CASE log' = log
    BY <2>1, Leaves
  <2>2. CASE Write(a, <<"CancelledAtWait">>)
    <3>1. PICK ks \in Seq(RowKinds) : ks = <<"CancelledAtWait">> /\ \A k : Has(ks, k) <=> k = "CancelledAtWait"
      <4>1. "CancelledAtWait" \in RowKinds
        BY DEF RowKinds, Terminals
      <4> QED
        BY <4>1, Kinds
    <3>2. Write(a, ks) /\ ~Has(ks, "Suspended") /\ ~Has(ks, "Effect") /\ ~Has(ks, "NotCommitted")
      BY <2>2, <3>1
    <3> QED
      BY <3>2, WriteMoves DEF Appends
  <2> QED
    BY <1>1, <2>1, <2>2 DEF DeliverWait
<1> DEFINE c == [drv[d] EXCEPT !.pc = "deliver"]
<1>4. c \in Calls /\ c.pc = "deliver"
  <2>1. "deliver" \in Pcs
    BY DEF Pcs
  <2> QED
    BY <1>0, <2>1 DEF Calls
<1>5. Step(d, c)
  BY DEF DeliverWait
<1> HIDE DEF c
<1>6. drv' \in [Drivers -> Calls] /\ drv'[d] = c /\ \A e \in Drivers : e # d => drv'[e] = drv[e]
  BY <1>4, <1>5, StepIs
<1>7. DriverMoves
  BY <1>4, <1>6 DEF DriverMoves, CallMoves
<1> QED
  BY <1>2, <1>3, <1>7, Leaves DEF Does

\* The process dies.
LEMMA CrashDoes ==
    ASSUME Inv, Crash
    PROVE  Does
<1>1. drv' = [d \in Drivers |-> Idle] /\ active' = {} /\ task' = task /\ log' = log /\ entered' = entered
  BY DEF Crash
<1>2. DriverMoves
  BY <1>1, IdleIs DEF DriverMoves, CallMoves
<1>3. ActiveMoves
  BY <1>1, IdleIs DEF ActiveMoves
<1> QED
  BY <1>1, <1>2, <1>3, Leaves DEF Does

\* So every step does what was said.
LEMMA NextDoes ==
    ASSUME Inv, [Next]_vars
    PROVE  Does
<1>1. ASSUME NEW d \in Drivers, DriverStep(d)
      PROVE  Does
  BY <1>1, RunStartDoes, ExecutionAdmitDoes, ModelAndReceiptDoes, EffectStartDoes, SuspendDoes,
     FinishDoes, CommitTurnDoes, RecordInspectDoes, RecordCommitDoes, RetryProofDoes, RetryRecheckDoes,
     RetryGrantDoes,
     DeliverDoes, DeliverWaitDoes DEF DriverStep
<1>2. CASE \E i \in Invocations : AdmitInvocation(i)
  BY <1>2, AdmitInvocationDoes
<1>3. CASE \E i, j \in Invocations : AdmitDependency(i, j) \/ ConsumeChild(i, j) \/ ConsumeTerminalChild(i, j)
  BY <1>3, ResultsDoes
<1>4. CASE ConfigureBudget \/ FailTask \/ AssessGoal \/ CompleteTask
  BY <1>4, TaskCommandDoes, CompleteTaskDoes
<1>5. CASE \E d \in Workers, a \in Attempts : RunBegin(d, a) \/ ResumeBegin(d, a)
  BY <1>5, RunBeginDoes, ResumeBeginDoes
<1>6. CASE \E d \in Operators, a \in Attempts : Reconcile(d, a) \/ RetryBegin(d, a)
  BY <1>6, ReconcileDoes, RetryBeginDoes
<1>7. CASE \E d \in Drivers : Cancel(d)
  BY <1>7, CancelDoes
<1>8. CASE \E a \in Attempts : InspectEffect(a) \/ RepairSession(a)
  BY <1>8, OutsideDoes
<1>9. CASE Crash
  BY <1>9, CrashDoes
<1>10. CASE UNCHANGED vars
  BY <1>10, Leaves DEF vars, Does
<1> QED
  BY <1>1, <1>2, <1>3, <1>4, <1>5, <1>6, <1>7, <1>8, <1>9, <1>10 DEF Next

----------------------------------------------------------------------------
\* What holds of every execution of the service.

\* Before the first command nothing was started, and no stream was written.
LEMMA InitInv ==
    ASSUME Init
    PROVE  Inv
<1>1. PICK def \in Definitions : task = Registered(def)
  BY DEF Init
<1>2. def \in Definition
  BY DriverAssumption
<1>3. Sane(task) /\ task.def = def /\ Started(task) = {} /\ task.state # "completed"
  BY <1>1, <1>2, RegisteredSane DEF Registered
<1>4. /\ log = [a \in Attempts |-> <<>>] /\ active = {} /\ entered = {}
      /\ drv = [d \in Drivers |-> Idle]
  BY DEF Init
<1>5. \A d \in Drivers : drv[d] = Idle /\ drv[d].pc = "idle"
  BY <1>4, IdleIs
<1>6. \A a \in Attempts : log[a] = <<>> /\ log[a] \in Seq(RowKinds) /\ \A k : ~Has(log[a], k)
  BY <1>4, Kinds
<1>7. Types
  <2>1. drv \in [Drivers -> Calls]
    BY <1>4, IdleIs
  <2>2. <<>> \in Seq(RowKinds)
    OBVIOUS
  <2>3. log \in [Attempts -> Seq(RowKinds)]
    BY <1>4, <2>2
  <2>4. \A d \in Drivers : ~At(d, "observe")
    BY <1>5 DEF At
  <2> QED
    BY <1>3, <1>4, <2>1, <2>3, <2>4 DEF Types
<1>8. \A a \in Attempts : Rows(log[a])
  <2>1. \A a \in Attempts : \A n \in 1..Len(log[a]) : log[a][n] # "Suspended"
    BY <1>6 DEF Has
  <2> QED
    BY <1>6, <2>1 DEF Rows
<1>9. Claims
  BY <1>4, <1>5 DEF Claims, At, Running
<1>10. Halts
  BY <1>3, <1>5 DEF Halts, At, Started
<1>11. Effects
  BY <1>4 DEF Effects, EffectInOneAttempt
<1>12. Backed
  BY <1>3 DEF Backed
<1> QED
  BY <1>7, <1>8, <1>9, <1>10, <1>11, <1>12 DEF Inv

\* The invariant: the Task, the streams of its executions and the calls agree on which
\* attempts are halted, and on what their effects are.
THEOREM DriverInvariant == Spec => []Inv
<1>1. Init => Inv
  BY InitInv
<1>2. Inv /\ [Next]_vars => Inv'
  BY NextDoes, InvKept
<1> QED
  BY <1>1, <1>2, PTL DEF Spec

\* An effect takes place in at most one attempt of its invocation, whatever is retried,
\* resumed, cancelled or lost in a crash (task_driver/retry.rs, validate_retry_effects).
THEOREM EffectIsInOneAttempt == Spec => []EffectInOneAttempt
<1>1. Inv => EffectInOneAttempt
  BY DEF Inv, Effects
<1> QED
  BY <1>1, DriverInvariant, PTL

\* A completed Task waits for no result; each of its invocations ended with a final answer
\* and left no effect unsettled (tasks/coordinator.rs, complete).
THEOREM CompletionIsBacked == Spec => []CompletionBacked
<1>1. ASSUME Inv PROVE CompletionBacked
  <2>0. Sane(task) /\ Types
    BY <1>1 DEF Inv, Types
  <2>1. TypeOK
    BY <2>0 DEF TypeOK, Types, Sane, Tasks, InvRecs, AttRecs, InvStates, Outcomes
  <2>2. ASSUME task.state = "completed", NEW i \in Admitted(task)
        PROVE  /\ Pending(task, i) = {} /\ Has(log[Latest(task, i)], "Completed")
               /\ ~Unsettled(log[Latest(task, i)])
    <3>1. i \in Invocations /\ Pending(task, i) = {}
      BY <2>0, <2>2 DEF Sane, Over, Joined, Admitted
    <3>2. LET l == log[Latest(task, i)] IN Has(l, "Completed") /\ (Has(l, "Effect") => Has(l, "Receipt"))
      BY <1>1, <2>2 DEF Inv, Backed
    <3> QED
      BY <3>1, <3>2 DEF Unsettled
  <2> QED
    BY <2>1, <2>2 DEF CompletionBacked
<1> QED
  BY <1>1, DriverInvariant, PTL

\* A cancelled attempt is not retried, restarted or revived (tasks/reducer.rs, apply).
THEOREM CancellationHolds == Spec => CancellationSticks
<1>1. ASSUME Inv, [Next]_vars
      PROVE  [\A a \in Attempts : task.att[a].cancelled =>
                /\ task'.att[a].cancelled
                /\ task'.att[a].retry = task.att[a].retry
                /\ task'.inv[Owner[a]].attempts = task.inv[Owner[a]].attempts
                /\ task.att[a].state \in {"Suspended", "RecoveryRequired"} =>
                      task'.att[a].state # "Running"]_vars
  <2>1. TaskMoves
    BY <1>1, NextDoes DEF Does
  <2>2. CASE task' = task
    BY <2>2
  <2>3. CASE Moved(task, task')
    BY <2>3 DEF Moved, Sticks
  <2> QED
    BY <2>1, <2>2, <2>3 DEF TaskMoves
<1> QED
  BY <1>1, DriverInvariant, PTL DEF Spec, CancellationSticks

\* The driver over its two stores implements TaskPromise: commands are replayed and applied
\* one at a time, and every other step leaves the Task alone.
THEOREM PromiseIsKept == Spec => KeepsPromise
<1>1. Init => Promise!Init
  <2> SUFFICES ASSUME Init
               PROVE  Promise!Init
    OBVIOUS
  <2>1. PICK def \in Definitions : task = Registered(def)
    BY DEF Init
  <2>2. def \in Definition
    BY DriverAssumption
  <2>3. OutcomeOf(task) = "open" /\ LiveOf(task) = {} /\ Started(task) = {} /\ Reserved(task) = 0
    BY <2>1, <2>2, RegisteredSane
  <2>4. Cardinality(Started(task)) = 0
    BY <2>3, FS_EmptySet
  <2> QED
    BY <2>3, <2>4 DEF Promise!Init, OutcomeOf, LiveOf
<1>2. Inv /\ [Next]_vars => [Promise!Next]_Promise!pvars
  <2> SUFFICES ASSUME Inv, [Next]_vars
               PROVE  [Promise!Next]_Promise!pvars
    OBVIOUS
  <2>0. TaskMoves
    BY NextDoes DEF Does
  <2>1. CASE task' = task
    BY <2>1, ReservedType DEF Promise!pvars, Inv, Types, Sane, Tasks, IsOpen, Started
  <2>2. CASE Promised(task, task')
    <3>1. CASE Stutters(task, task')
      BY <2>2, <3>1 DEF Promise!pvars, Promised, Stutters, OutcomeOf, LiveOf
    <3>2. CASE Ends(task, task')
      BY <2>2, <3>2 DEF Promise!pvars, Promise!Next, Promise!End, Promised, Ends, OutcomeOf, LiveOf, Ended
    <3>3. ASSUME NEW i \in Invocations, Begins(task, task', i)
          PROVE  Promise!Begin(i)
      BY <2>2, <3>3 DEF Promise!Begin, Promised, Begins, OutcomeOf, LiveOf
    <3>4. ASSUME NEW i \in Invocations, Stops(task, task', i)
          PROVE  Promise!Stop(i)
      BY <2>2, <3>4 DEF Promise!Stop, Promised, Stops, OutcomeOf, LiveOf
    <3> QED
      BY <2>2, <3>1, <3>2, <3>3, <3>4 DEF Promised, Promise!Next
  <2> QED
    BY <2>0, <2>1, <2>2 DEF TaskMoves, Moved
<1> QED
  BY <1>1, <1>2, DriverInvariant, PTL DEF Spec, KeepsPromise, Promise!Spec

===============================================================================
