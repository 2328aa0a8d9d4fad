--------------------------- MODULE TurnEngineProofs ---------------------------
(***************************************************************************)
(* Proofs about TurnEngine, for every configuration, policy, preparation,  *)
(* conflict relation and bound on Steps and batches.                       *)
(*                                                                         *)
(* A run hands its checkpoint over between the engine and the host at any  *)
(* suspension, and resumes from the same one any number of times.  So the  *)
(* invariant is about Current, the checkpoint either of them holds: it     *)
(* would pass TurnCheckpoint::validate (Custody), its usage is that of the *)
(* batches in the messages (Between), every call entered so far is in a    *)
(* finished batch or spent in this one (Entries), and the stage that is    *)
(* dispatched holds authorised calls whose conflicting predecessors are    *)
(* over (Dispatch).  After the arithmetic of usage (prefix sums) and the   *)
(* lemmas about checkpoints there is one lemma for each action of Next.    *)
(***************************************************************************)
EXTENDS TurnEngine, FiniteSetTheorems, SequenceTheorems, WellFoundedInduction, TLAPS

----------------------------------------------------------------------------
\* Sums of sequences.

\* A non-empty set of naturals has a smallest element.
LEMMA Smallest ==
    ASSUME NEW S \in SUBSET Nat, S # {}
    PROVE  \E x \in S : \A y \in S : x <= y
<1> DEFINE R == OpToRel(<, Nat)
<1>1. PICK x \in S : \A y \in S : <<y, x>> \notin R
  BY WFMin, NatLessThanWellFounded, Zenon
<1>2. \A y \in S : ~(y < x)
  BY <1>1 DEF OpToRel
<1> QED
  BY <1>2

\* g holds the sums of the prefixes of s.
Sums(s, g) == g = [i \in 0..Len(s) |-> IF i = 0 THEN 0 ELSE g[i - 1] + s[i]]

\* Every sequence of naturals has prefix sums.
LEMMA SumsExist ==
    ASSUME NEW s \in Seq(Nat)
    PROVE  \E g : Sums(s, g)
<1> DEFINE n == Len(s)
           Step(g, i) == IF i = 0 THEN 0 ELSE g[i - 1] + s[i]
           UpTo(k, g) == /\ g \in [0..n -> Nat]
                         /\ \A i \in 0..n : i <= k => g[i] = Step(g, i)
           Bad == {k \in Nat : ~\E g : UpTo(k, g)}
<1>0. n \in Nat /\ \A i \in 1..n : s[i] \in Nat
  OBVIOUS
<1>1. Bad = {}
  <2> SUFFICES ASSUME Bad # {}
               PROVE  FALSE
    OBVIOUS
  <2>1. PICK k \in Bad : \A m \in Bad : k <= m
    <3>1. Bad \in SUBSET Nat
      OBVIOUS
    <3> HIDE DEF Bad
    <3> QED
      BY <3>1, Smallest
  <2>2. k \in Nat /\ ~\E g : UpTo(k, g)
    OBVIOUS
  <2>3. \A m \in Nat : m \notin Bad => \E g : UpTo(m, g)
    OBVIOUS
  <2> HIDE DEF Bad, UpTo
  <2>4. CASE k = 0
    <3> DEFINE g == [i \in 0..n |-> 0]
    <3>1. UpTo(0, g)
      BY <1>0 DEF UpTo
    <3> QED
      BY <2>2, <2>4, <3>1
  <2>5. CASE k # 0
    <3>1. k - 1 \in Nat /\ k - 1 \notin Bad
      BY <2>1, <2>2, <2>5
    <3>2. PICK g : UpTo(k - 1, g)
      BY <2>3, <3>1
    <3>3. g \in [0..n -> Nat] /\ \A i \in 0..n : i <= k - 1 => g[i] = Step(g, i)
      BY <3>2 DEF UpTo
    <3> DEFINE h == [i \in 0..n |-> Step(g, i)]
    <3>4. h \in [0..n -> Nat]
      BY <1>0, <3>3
    <3>5. \A i \in 0..n : i <= k - 1 => h[i] = g[i]
      BY <3>3
    <3>6. ASSUME NEW i \in 0..n, i <= k PROVE h[i] = Step(h, i)
      <4>1. CASE i = 0
        BY <4>1, <1>0
      <4>2. CASE i # 0
        <5>1. i - 1 \in 0..n /\ i - 1 <= k - 1
          BY <4>2, <1>0, <2>2, <3>6
        <5>2. h[i - 1] = g[i - 1]
          BY <5>1, <3>5
        <5> QED
          BY <4>2, <5>2
      <4> QED
        BY <4>1, <4>2
    <3> HIDE DEF h
    <3>7. UpTo(k, h)
      BY <3>4, <3>6 DEF UpTo
    <3> QED
      BY <2>2, <3>7
  <2> QED
    BY <2>4, <2>5
<1>2. PICK g : UpTo(n, g)
  BY <1>0, <1>1
<1>3. g = [i \in 0..n |-> Step(g, i)]
  BY <1>0, <1>2
<1> QED
  BY <1>3 DEF Sums

\* The total is the last of the prefix sums, which add up one by one.
LEMMA TotalSums ==
    ASSUME NEW s \in Seq(Nat)
    PROVE  \E g \in [0..Len(s) -> Nat] :
              /\ g[0] = 0 /\ \A i \in 1..Len(s) : g[i] = g[i - 1] + s[i]
              /\ Total(s) = g[Len(s)]
<1> DEFINE n == Len(s)
           g == CHOOSE f : f = [i \in 0..n |-> IF i = 0 THEN 0 ELSE f[i - 1] + s[i]]
<1>0. n \in Nat /\ \A i \in 1..n : s[i] \in Nat
  OBVIOUS
<1>1. g = [i \in 0..n |-> IF i = 0 THEN 0 ELSE g[i - 1] + s[i]]
  <2>1. \E f : f = [i \in 0..n |-> IF i = 0 THEN 0 ELSE f[i - 1] + s[i]]
    BY SumsExist DEF Sums
  <2> QED
    BY <2>1
<1>2. Total(s) = g[n]
  BY DEF Total
<1> HIDE DEF g
<1>3. g[0] = 0 /\ \A i \in 1..n : g[i] = g[i - 1] + s[i]
  BY <1>0, <1>1
<1>4. DOMAIN g = 0..n
  BY <1>1
<1>5. \A i \in 0..n : g[i] \in Nat
  <2> DEFINE Bad == {i \in 0..n : g[i] \notin Nat}
  <2> SUFFICES ASSUME Bad # {}
               PROVE  FALSE
    OBVIOUS
  <2>1. PICK i \in Bad : \A j \in Bad : i <= j
    <3>1. Bad \in SUBSET Nat
      BY <1>0
    <3> HIDE DEF Bad
    <3> QED
      BY <3>1, Smallest
  <2>2. i # 0 /\ i \in 1..n
    BY <1>0, <1>3
  <2>3. i - 1 \in 0..n /\ i - 1 \notin Bad
    BY <1>0, <2>1, <2>2
  <2>4. g[i - 1] \in Nat
    BY <2>3
  <2> QED
    BY <1>0, <1>3, <2>2, <2>4
<1>6. g \in [0..n -> Nat]
  BY <1>1, <1>5
<1> QED
  BY <1>2, <1>3, <1>6

\* A bound that grows at least as fast as the entries bounds the total.
LEMMA TotalBound ==
    ASSUME NEW s \in Seq(Nat), NEW B \in [0..Len(s) -> Nat],
           \A i \in 1..Len(s) : s[i] + B[i - 1] <= B[i]
    PROVE  Total(s) <= B[Len(s)]
<1> DEFINE n == Len(s)
<1>0. n \in Nat /\ \A i \in 1..n : s[i] \in Nat
  OBVIOUS
<1>1. PICK g \in [0..n -> Nat] :
         /\ g[0] = 0 /\ \A i \in 1..n : g[i] = g[i - 1] + s[i]
         /\ Total(s) = g[n]
  BY TotalSums
<1> DEFINE Bad == {i \in 0..n : ~(g[i] <= B[i])}
<1>2. Bad = {}
  <2> SUFFICES ASSUME Bad # {}
               PROVE  FALSE
    OBVIOUS
  <2>1. PICK i \in Bad : \A j \in Bad : i <= j
    <3>1. Bad \in SUBSET Nat
      BY <1>0
    <3> HIDE DEF Bad
    <3> QED
      BY <3>1, Smallest
  <2>2. i \in 1..n
    BY <1>0, <1>1
  <2>3. i - 1 \in 0..n /\ i - 1 \notin Bad
    BY <1>0, <2>1, <2>2
  <2>4. g[i - 1] <= B[i - 1]
    BY <2>3
  <2>5. s[i] \in Nat /\ g[i - 1] \in Nat /\ B[i - 1] \in Nat /\ B[i] \in Nat
    BY <1>0, <2>2, <2>3
  <2>6. s[i] + B[i - 1] <= B[i] /\ g[i] = g[i - 1] + s[i]
    BY <1>1, <2>2
  <2>7. g[i] <= B[i]
    <3>1. \A a, b, c, x, y \in Nat : c + a <= b /\ x <= a /\ y = x + c => y <= b
      OBVIOUS
    <3>2. g[i] \in Nat
      BY <1>0, <2>2
    <3> QED
      BY <2>4, <2>5, <2>6, <3>1, <3>2, Zenon
  <2> QED
    BY <2>7
<1>3. n \in 0..n /\ n \notin Bad
  BY <1>0, <1>2
<1> QED
  BY <1>1, <1>3

\* The prefix sums of a sequence determine its total.
LEMMA TotalIs ==
    ASSUME NEW s \in Seq(Nat), NEW B \in [0..Len(s) -> Nat], B[0] = 0,
           \A i \in 1..Len(s) : B[i] = B[i - 1] + s[i]
    PROVE  Total(s) = B[Len(s)]
<1> DEFINE n == Len(s)
<1>0. n \in Nat /\ \A i \in 1..n : s[i] \in Nat
  OBVIOUS
<1>1. PICK g \in [0..n -> Nat] :
         /\ g[0] = 0 /\ \A i \in 1..n : g[i] = g[i - 1] + s[i]
         /\ Total(s) = g[n]
  BY TotalSums
<1> DEFINE Bad == {i \in 0..n : g[i] # B[i]}
<1>2. Bad = {}
  <2> SUFFICES ASSUME Bad # {}
               PROVE  FALSE
    OBVIOUS
  <2>1. PICK i \in Bad : \A j \in Bad : i <= j
    <3>1. Bad \in SUBSET Nat
      BY <1>0
    <3> HIDE DEF Bad
    <3> QED
      BY <3>1, Smallest
  <2>2. i \in 1..n
    BY <1>0, <1>1
  <2>3. i - 1 \in 0..n /\ i - 1 \notin Bad
    BY <1>0, <2>1, <2>2
  <2>4. g[i - 1] = B[i - 1]
    BY <2>3
  <2>5. B[i] = B[i - 1] + s[i] /\ g[i] = g[i - 1] + s[i]
    BY <1>1, <2>2
  <2>6. g[i] = B[i]
    BY <2>4, <2>5
  <2> QED
    BY <2>6
<1>3. n \in 0..n /\ n \notin Bad
  BY <1>0, <1>2
<1> QED
  BY <1>1, <1>3

\* Appending a batch adds its size to the total.
LEMMA TotalAppend ==
    ASSUME NEW s \in Seq(Nat), NEW k \in Nat
    PROVE  Total(Append(s, k)) = Total(s) + k
<1> DEFINE n == Len(s)
           t == Append(s, k)
<1>0. n \in Nat /\ \A i \in 1..n : s[i] \in Nat
  OBVIOUS
<1>1. PICK g \in [0..n -> Nat] :
         /\ g[0] = 0 /\ \A i \in 1..n : g[i] = g[i - 1] + s[i]
         /\ Total(s) = g[n]
  BY TotalSums
<1> DEFINE B == [i \in 0..(n + 1) |-> IF i <= n THEN g[i] ELSE g[n] + k]
<1>2. t \in Seq(Nat) /\ Len(t) = n + 1 /\ t[n + 1] = k /\ \A i \in 1..n : t[i] = s[i]
  OBVIOUS
<1>3. B \in [0..Len(t) -> Nat] /\ B[0] = 0 /\ B[n + 1] = g[n] + k
  <2>1. 0 \in 0..(n + 1) /\ 0 <= n /\ n + 1 \in 0..(n + 1) /\ ~(n + 1 <= n) /\ n \in 0..n
    BY <1>0
  <2>2. B[0] = g[0] /\ B[n + 1] = g[n] + k
    BY <2>1
  <2>3. \A i \in 0..(n + 1) : (IF i <= n THEN g[i] ELSE g[n] + k) \in Nat
    BY <1>0, <1>1, <2>1
  <2>4. B \in [0..(n + 1) -> Nat]
    BY <2>3
  <2> HIDE DEF B
  <2> QED
    BY <1>1, <1>2, <2>2, <2>4
<1>4. \A i \in 0..n : B[i] = g[i]
  BY <1>0
<1>5. ASSUME NEW i \in 1..Len(t) PROVE B[i] = B[i - 1] + t[i]
  <2>1. CASE i <= n
    <3>1. i \in 1..n /\ i \in 0..n /\ i - 1 \in 0..n
      BY <2>1, <1>0, <1>2
    <3> HIDE DEF B, t
    <3> QED
      BY <3>1, <1>1, <1>2, <1>4
  <2>2. CASE i = n + 1
    <3>1. i - 1 = n /\ n \in 0..n
      BY <2>2, <1>0
    <3>2. B[n] = g[n]
      BY <3>1, <1>4
    <3> HIDE DEF B, t
    <3> QED
      BY <2>2, <3>1, <3>2, <1>2, <1>3
  <2> QED
    BY <2>1, <2>2, <1>0, <1>2
<1> HIDE DEF B, t
<1>6. Total(t) = B[Len(t)]
  BY <1>2, <1>3, <1>5, TotalIs
<1> QED
  BY <1>1, <1>2, <1>3, <1>6 DEF t

\* A total of naturals is a natural.
LEMMA TotalType ==
    ASSUME NEW s \in Seq(Nat)
    PROVE  Total(s) \in Nat
BY TotalSums
----------------------------------------------------------------------------
\* The stages of a batch.

\* A non-empty bounded set of naturals has a largest element.
LEMMA Largest ==
    ASSUME NEW n \in Nat, NEW S \in SUBSET (0..n), S # {}
    PROVE  \E x \in S : \A y \in S : y <= x
<1> DEFINE T == {n - x : x \in S}
<1>1. T \in SUBSET Nat /\ T # {}
  <2>1. \A x \in S : n - x \in Nat
    OBVIOUS
  <2> QED
    BY <2>1
<1>2. PICK z \in T : \A y \in T : z <= y
  BY <1>1, Smallest
<1>3. PICK x \in S : z = n - x
  OBVIOUS
<1>4. ASSUME NEW y \in S PROVE y <= x
  <2>1. n - y \in T
    OBVIOUS
  <2>2. n - x <= n - y
    BY <1>2, <1>3, <2>1
  <2>3. x \in 0..n /\ y \in 0..n
    OBVIOUS
  <2> HIDE DEF T
  <2> QED
    BY <2>2, <2>3
<1> QED
  BY <1>4

\* The earlier ready calls that call d conflicts with.
Before(cp, d) == {b \in In(cp, "ready") : b < d /\ <<cp.calls[b].prep, cp.calls[d].prep>> \in Conflict}

\* The stage of call d when g holds those of the calls before it.
Rank(cp, g, d) ==
    IF Before(cp, d) = {} THEN 1
    ELSE 1 + (CHOOSE m \in {g[b] : b \in Before(cp, d)} : \A b \in Before(cp, d) : g[b] <= m)

\* A call's stage is the first, or the one after some conflicting call's stage and
\* none of the others'.
RankIs(cp, g, d) ==
    /\ Before(cp, d) = {} => g[d] = 1
    /\ Before(cp, d) # {} => \E b \in Before(cp, d) :
          g[d] = g[b] + 1 /\ \A e \in Before(cp, d) : g[e] <= g[b]

\* A stage exists, and is at most the call's position.
LEMMA RankType ==
    ASSUME NEW n \in Nat, NEW cp, DOMAIN cp.calls = 1..n, NEW d \in 1..n,
           NEW g, \A b \in 1..n : b < d => g[b] \in 1..b
    PROVE  /\ Rank(cp, g, d) \in 1..d
           /\ Before(cp, d) # {} => \E b \in Before(cp, d) :
                 Rank(cp, g, d) = g[b] + 1 /\ \A e \in Before(cp, d) : g[e] <= g[b]
<1>1. CASE Before(cp, d) = {}
  BY <1>1 DEF Rank
<1>2. CASE Before(cp, d) # {}
  <2> DEFINE S == {g[b] : b \in Before(cp, d)}
  <2>1. \A b \in Before(cp, d) : b \in 1..n /\ b < d
    BY DEF Before, In
  <2>2. \A b \in Before(cp, d) : g[b] \in 1..b /\ g[b] \in 0..n
    BY <2>1
  <2>3. S \in SUBSET (0..n) /\ S # {}
    BY <1>2, <2>2
  <2>4. PICK x \in S : \A y \in S : y <= x
    BY <2>3, Largest
  <2>5. \E m \in S : \A b \in Before(cp, d) : g[b] <= m
    BY <2>4
  <2> DEFINE m == CHOOSE m \in S : \A b \in Before(cp, d) : g[b] <= m
  <2>6. m \in S /\ \A b \in Before(cp, d) : g[b] <= m
    BY <2>5
  <2>7. Rank(cp, g, d) = 1 + m
    BY <1>2 DEF Rank
  <2> HIDE DEF m
  <2>8. PICK b \in Before(cp, d) : m = g[b]
    BY <2>6
  <2>9. b \in 1..n /\ b < d /\ g[b] \in 1..b
    BY <2>1, <2>2
  <2> QED
    BY <2>6, <2>7, <2>8, <2>9
<1> QED
  BY <1>1, <1>2

\* The stage of a call depends on nothing but the stages of the calls before it.
LEMMA RankSame ==
    ASSUME NEW n \in Nat, NEW cp, DOMAIN cp.calls = 1..n, NEW d \in 1..n,
           NEW g, \A b \in 1..n : b < d => g[b] \in 1..b,
           NEW h, \A b \in 1..n : b < d => h[b] = g[b]
    PROVE  Rank(cp, h, d) = Rank(cp, g, d)
<1>1. CASE Before(cp, d) = {}
  BY <1>1 DEF Rank
<1>2. CASE Before(cp, d) # {}
  <2>1. \A b \in 1..n : b < d => h[b] \in 1..b
    OBVIOUS
  <2>2. PICK b \in Before(cp, d) :
           Rank(cp, g, d) = g[b] + 1 /\ \A e \in Before(cp, d) : g[e] <= g[b]
    BY <1>2, RankType
  <2>3. PICK a \in Before(cp, d) :
           Rank(cp, h, d) = h[a] + 1 /\ \A e \in Before(cp, d) : h[e] <= h[a]
    BY <1>2, <2>1, RankType
  <2>4. a \in 1..n /\ b \in 1..n /\ a < d /\ b < d
    BY DEF Before, In
  <2>5. h[a] = g[a] /\ h[b] = g[b] /\ g[a] \in 1..a /\ g[b] \in 1..b
    BY <2>4
  <2>6. g[a] <= g[b] /\ h[b] <= h[a]
    BY <2>2, <2>3
  <2> QED
    BY <2>2, <2>3, <2>4, <2>5, <2>6
<1> QED
  BY <1>1, <1>2

\* The stages of a batch exist.
LEMMA StagesExist ==
    ASSUME NEW n \in Nat, NEW cp, DOMAIN cp.calls = 1..n
    PROVE  \E g \in [1..n -> Nat] : /\ \A d \in 1..n : g[d] = Rank(cp, g, d) /\ g[d] \in 1..d
                                    /\ \A d \in 1..n : RankIs(cp, g, d)
<1> DEFINE UpTo(k, g) == /\ g \in [1..n -> Nat]
                         /\ \A d \in 1..n : d <= k => g[d] = Rank(cp, g, d) /\ g[d] \in 1..d
           Bad == {k \in Nat : ~\E g : UpTo(k, g)}
<1>1. Bad = {}
  <2> SUFFICES ASSUME Bad # {}
               PROVE  FALSE
    OBVIOUS
  <2>1. PICK k \in Bad : \A m \in Bad : k <= m
    <3>1. Bad \in SUBSET Nat
      OBVIOUS
    <3> HIDE DEF Bad
    <3> QED
      BY <3>1, Smallest
  <2>2. k \in Nat /\ ~\E g : UpTo(k, g)
    OBVIOUS
  <2>3. \A m \in Nat : m \notin Bad => \E g : UpTo(m, g)
    OBVIOUS
  <2> HIDE DEF Bad, UpTo
  <2>4. CASE k = 0
    <3> DEFINE g == [d \in 1..n |-> 0]
    <3>1. UpTo(0, g)
      BY DEF UpTo
    <3> QED
      BY <2>2, <2>4, <3>1
  <2>5. CASE k # 0
    <3>1. k - 1 \in Nat /\ k - 1 \notin Bad
      BY <2>1, <2>2, <2>5
    <3>2. PICK g : UpTo(k - 1, g)
      BY <2>3, <3>1
    <3>3. /\ g \in [1..n -> Nat]
          /\ \A d \in 1..n : d <= k - 1 => g[d] = Rank(cp, g, d) /\ g[d] \in 1..d
      BY <3>2 DEF UpTo
    <3> DEFINE h == [d \in 1..n |-> IF d = k THEN Rank(cp, g, d) ELSE g[d]]
    <3>4. k \in 1..n => Rank(cp, g, k) \in 1..k
      <4> SUFFICES ASSUME k \in 1..n
                   PROVE  Rank(cp, g, k) \in 1..k
        OBVIOUS
      <4>1. \A b \in 1..n : b < k => g[b] \in 1..b
        BY <2>2, <3>3
      <4> QED
        BY <3>3, <4>1, RankType
    <3>5. h \in [1..n -> Nat]
      BY <3>3, <3>4
    <3>6. \A d \in 1..n : d # k => h[d] = g[d]
      OBVIOUS
    <3>7. k \in 1..n => h[k] = Rank(cp, g, k)
      OBVIOUS
    <3> HIDE DEF h
    <3>8. ASSUME NEW d \in 1..n, d <= k PROVE h[d] = Rank(cp, h, d) /\ h[d] \in 1..d
      <4>1. \A b \in 1..n : b < d => h[b] = g[b]
        BY <3>6, <3>8, <2>2
      <4>2. \A b \in 1..n : b < d => g[b] \in 1..b
        BY <3>3, <3>8, <2>2
      <4>4. Rank(cp, h, d) = Rank(cp, g, d)
        BY <4>1, <4>2, RankSame
      <4>5. h[d] = Rank(cp, g, d) /\ h[d] \in 1..d
        <5>1. CASE d = k
          BY <5>1, <3>4, <3>7
        <5>2. CASE d # k
          BY <5>2, <3>3, <3>6, <3>8, <2>2
        <5> QED
          BY <5>1, <5>2
      <4> QED
        BY <4>4, <4>5
    <3>9. UpTo(k, h)
      BY <3>5, <3>8 DEF UpTo
    <3> QED
      BY <2>2, <3>9
  <2> QED
    BY <2>4, <2>5
<1>2. PICK g : UpTo(n, g)
  BY <1>1
<1>3. g \in [1..n -> Nat] /\ \A d \in 1..n : g[d] = Rank(cp, g, d) /\ g[d] \in 1..d
  BY <1>2
<1>4. ASSUME NEW d \in 1..n PROVE RankIs(cp, g, d)
  <2>1. g[d] = Rank(cp, g, d)
    BY <1>3
  <2>2. Before(cp, d) = {} => g[d] = 1
    BY <2>1 DEF Rank
  <2>3. \A b \in 1..n : b < d => g[b] \in 1..b
    BY <1>3
  <2>4. Before(cp, d) # {} => \E b \in Before(cp, d) :
           g[d] = g[b] + 1 /\ \A e \in Before(cp, d) : g[e] <= g[b]
    <3>1. Before(cp, d) # {} => \E b \in Before(cp, d) :
             Rank(cp, g, d) = g[b] + 1 /\ \A e \in Before(cp, d) : g[e] <= g[b]
      BY <2>3, RankType
    <3> QED
      BY <2>1, <3>1, Zenon
  <2> QED
    BY <2>2, <2>4 DEF RankIs
<1> QED
  BY <1>3, <1>4

\* The stage of a call is the first, or comes after those of the earlier ready calls it
\* conflicts with, the last of them by one.
LEMMA StageOfIs ==
    ASSUME NEW n \in Nat, NEW cp, DOMAIN cp.calls = 1..n
    PROVE  \E g \in [1..n -> Nat] :
              \A d \in 1..n : StageOf(cp, d) = g[d] /\ g[d] \in 1..d /\ RankIs(cp, g, d)
<1> DEFINE Is(f) == f = [d \in DOMAIN cp.calls |-> Rank(cp, f, d)]
           g == CHOOSE f : Is(f)
<1>1. \E f : Is(f)
  <2>1. PICK f \in [1..n -> Nat] : \A d \in 1..n : f[d] = Rank(cp, f, d)
    BY StagesExist
  <2>2. f = [d \in 1..n |-> Rank(cp, f, d)]
    BY <2>1
  <2> QED
    BY <2>2
<1>2. Is(g)
  BY <1>1
<1>3. \A d : StageOf(cp, d) = g[d]
  BY DEF StageOf, Rank, Before
<1> HIDE DEF g
<1>4. DOMAIN g = 1..n /\ \A d \in 1..n : g[d] = Rank(cp, g, d)
  BY <1>2
<1>5. PICK f \in [1..n -> Nat] : /\ \A d \in 1..n : f[d] = Rank(cp, f, d) /\ f[d] \in 1..d
                                 /\ \A d \in 1..n : RankIs(cp, f, d)
  BY StagesExist
<1>6. \A d \in 1..n : g[d] = f[d]
  <2> DEFINE Bad == {d \in 1..n : g[d] # f[d]}
  <2> SUFFICES ASSUME Bad # {}
               PROVE  FALSE
    OBVIOUS
  <2>1. PICK d \in Bad : \A e \in Bad : d <= e
    <3>1. Bad \in SUBSET Nat
      OBVIOUS
    <3> HIDE DEF Bad
    <3> QED
      BY <3>1, Smallest
  <2>2. \A b \in 1..n : b < d => g[b] = f[b]
    <3> SUFFICES ASSUME NEW b \in 1..n, b < d
                 PROVE  g[b] = f[b]
      OBVIOUS
    <3>2. b \notin Bad
      BY <2>1
    <3> QED
      BY <3>2
  <2>3. d \in 1..n /\ \A b \in 1..n : b < d => f[b] \in 1..b
    BY <1>5
  <2> HIDE DEF Bad
  <2>5. Rank(cp, g, d) = Rank(cp, f, d)
    BY <2>2, <2>3, RankSame
  <2>6. g[d] # f[d]
    BY DEF Bad
  <2> QED
    BY <2>3, <2>5, <2>6, <1>4, <1>5
<1>7. g = f
  <2>1. g = [d \in 1..n |-> Rank(cp, g, d)]
    BY <1>2
  <2>2. g = [d \in 1..n |-> g[d]]
    BY <2>1
  <2> QED
    BY <2>2, <1>6
<1> QED
  BY <1>3, <1>5, <1>7
\* Ranks that start at one and leave no gap are those from one to their number.
LEMMA Gapless ==
    ASSUME NEW n \in Nat, NEW R \in SUBSET (1..n), NEW r \in [R -> 1..n],
           \A c \in R : r[c] # 1 => \E b \in R : r[b] = r[c] - 1,
           NEW I, \A c \in R : r[c] \in I, \A x \in I : \E c \in R : x = r[c]
    PROVE  Cardinality(I) \in 0..n /\ I = 1..Cardinality(I)
<1>1. I \in SUBSET (1..n)
  OBVIOUS
<1>2. CASE I = {}
  <2>1. Cardinality(I) = 0
    BY <1>2, FS_EmptySet
  <2> QED
    BY <1>2, <2>1
<1>3. CASE I # {}
  <2>1. I \in SUBSET (0..n)
    BY <1>1
  <2>2. PICK m \in I : \A y \in I : y <= m
    BY <1>3, <2>1, Largest
  <2>3. \A y \in I : y # 1 => y - 1 \in I
    OBVIOUS
  <2>4. m \in 1..n
    BY <1>1
  <2> DEFINE Bad == {j \in 1..m : j \notin I}
  <2>5. Bad = {}
    <3> SUFFICES ASSUME Bad # {}
                 PROVE  FALSE
      OBVIOUS
    <3>1. PICK j \in Bad : \A k \in Bad : k <= j
      <4>1. Bad \in SUBSET (0..m) /\ m \in Nat
        BY <2>4
      <4> HIDE DEF Bad
      <4> QED
        BY <4>1, Largest
    <3>2. j \in 1..m /\ j # m
      BY <2>2
    <3>3. j + 1 \in 1..m /\ j + 1 \notin Bad
      BY <2>4, <3>1, <3>2
    <3>4. j + 1 \in I
      BY <3>3
    <3>7. j + 1 # 1
      BY <3>2
    <3>5. (j + 1) - 1 \in I
      BY <2>3, <3>7, <3>4
    <3>6. (j + 1) - 1 = j
      BY <3>2
    <3> QED
      BY <3>5, <3>6
  <2>6. I = 1..m
    <3>1. \A y \in I : y \in 1..m
      BY <1>1, <2>2, <2>4
    <3> QED
      BY <2>5, <3>1
  <2>7. Cardinality(1..m) = m
    <3>1. Cardinality(1..m) = IF 1 > m THEN 0 ELSE m - 1 + 1
      BY <2>4, FS_Interval
    <3> QED
      BY <2>4, <3>1
  <2>8. Cardinality(I) = m /\ m \in 0..n
    <3>1. Cardinality(I) = Cardinality(1..m)
      BY <2>6, Zenon
    <3> QED
      BY <2>4, <2>7, <3>1
  <2> HIDE DEF Bad
  <2> QED
    BY <2>8, <2>6
<1> QED
  BY <1>2, <1>3

\* A subset of the first n naturals is finite.
LEMMA FinitePart ==
    ASSUME NEW n \in Nat, NEW S \in SUBSET (1..n)
    PROVE  IsFiniteSet(S) /\ Cardinality(S) \in 0..n
<1>1. IsFiniteSet(1..n) /\ Cardinality(1..n) = n
  <2>1. Cardinality(1..n) = IF 1 > n THEN 0 ELSE n - 1 + 1
    BY FS_Interval
  <2>2. IsFiniteSet(1..n)
    BY FS_Interval
  <2> QED
    BY <2>1, <2>2
<1>2. IsFiniteSet(S) /\ Cardinality(S) <= Cardinality(1..n)
  BY <1>1, FS_Subset
<1> QED
  BY <1>1, <1>2, FS_CardinalityType

\* The ready calls up to call c.
UpTo(R, c) == {b \in R : b <= c}

\* Numbering calls in their order: the first one has number one, the next one the
\* number after.
LEMMA Numbering ==
    ASSUME NEW n \in Nat, NEW R \in SUBSET (1..n), NEW c \in R
    PROVE  /\ Cardinality(UpTo(R, c)) \in 1..n
           /\ (\A b \in R : ~(b < c)) => Cardinality(UpTo(R, c)) = 1
           /\ (\E b \in R : b < c) =>
                \E b \in R : b < c /\ Cardinality(UpTo(R, b)) = Cardinality(UpTo(R, c)) - 1
           /\ (\E b \in R : b < c) => Cardinality(UpTo(R, c)) # 1
<1>1. \A b \in R : UpTo(R, b) \in SUBSET (1..n) /\ b \in UpTo(R, b) /\ b \in 1..n
  <2>1. \A b \in R : b \in 1..n
    OBVIOUS
  <2>2. \A b \in R : b <= b
    BY <2>1
  <2> QED
    BY <2>1, <2>2 DEF UpTo
<1>2. \A b \in R : IsFiniteSet(UpTo(R, b)) /\ Cardinality(UpTo(R, b)) \in 0..n
  BY <1>1, FinitePart
<1>3. \A b \in R : Cardinality(UpTo(R, b)) # 0
  BY <1>1, <1>2, FS_EmptySet
<1>4. ASSUME \A b \in R : ~(b < c) PROVE Cardinality(UpTo(R, c)) = 1
  <2>1. UpTo(R, c) = {c}
    BY <1>1, <1>4 DEF UpTo
  <2> QED
    BY <2>1, FS_Singleton
<1>5. ASSUME \E b \in R : b < c
      PROVE  \E b \in R : b < c /\ Cardinality(UpTo(R, b)) = Cardinality(UpTo(R, c)) - 1
  <2> DEFINE S == {b \in R : b < c}
  <2>1. S \in SUBSET (0..n) /\ S # {}
    <3>1. \A b \in R : b \in 0..n
      BY <1>1
    <3> QED
      BY <1>5, <3>1
  <2>2. PICK b \in S : \A e \in S : e <= b
    <3> HIDE DEF S
    <3> QED
      BY <2>1, Largest
  <2>3. UpTo(R, b) = UpTo(R, c) \ {c}
    BY <1>1, <2>2 DEF UpTo
  <2>4. Cardinality(UpTo(R, c) \ {c}) = Cardinality(UpTo(R, c)) - 1
    BY <1>1, <1>2, FS_RemoveElement
  <2> QED
    BY <2>2, <2>3, <2>4
<1>6. ASSUME \E b \in R : b < c PROVE Cardinality(UpTo(R, c)) # 1
  <2>1. PICK b \in R : Cardinality(UpTo(R, b)) = Cardinality(UpTo(R, c)) - 1
    BY <1>5, <1>6
  <2>2. Cardinality(UpTo(R, b)) \in 1..n
    BY <1>2, <1>3
  <2> QED
    BY <2>1, <2>2
<1>7. Cardinality(UpTo(R, c)) \in 1..n
  BY <1>2, <1>3
<1> QED
  BY <1>4, <1>5, <1>6, <1>7

\* What the plan of the ready calls is: a partition of them into non-empty stages, the
\* first of which holds calls no earlier ready call conflicts with.
LEMMA ReadyStagesPartition ==
    ASSUME NEW n \in Nat, NEW cp, DOMAIN cp.calls = 1..n
    PROVE  LET S == ReadyStages(cp) R == In(cp, "ready") IN
           /\ S \in Seq(SUBSET (1..n))
           /\ \A i \in 1..Len(S) : S[i] # {} /\ S[i] \subseteq R
           /\ \A i, j \in 1..Len(S) : i # j => S[i] \cap S[j] = {}
           /\ \A c \in R : \E i \in 1..Len(S) : c \in S[i]
           /\ Len(S) # 0 => \A c \in S[1], b \in R :
                 b < c => <<cp.calls[b].prep, cp.calls[c].prep>> \notin Conflict
<1> DEFINE S == ReadyStages(cp)
           R == In(cp, "ready")
           r == [c \in R |-> IF config.parallel THEN StageOf(cp, c) ELSE Cardinality(UpTo(R, c))]
           I == {r[c] : c \in R}
           m == Cardinality(I)
<1>0. R \in SUBSET (1..n)
  BY DEF In
<1>1. /\ r \in [R -> 1..n]
      /\ \A c \in R : r[c] # 1 => \E b \in R : r[b] = r[c] - 1
      /\ \A c, b \in R : r[c] = 1 /\ b < c => <<cp.calls[b].prep, cp.calls[c].prep>> \notin Conflict
  <2>1. CASE config.parallel
    <3>1. PICK g \in [1..n -> Nat] :
             \A d \in 1..n : StageOf(cp, d) = g[d] /\ g[d] \in 1..d /\ RankIs(cp, g, d)
      BY StageOfIs
    <3>2. \A c \in R : r[c] = g[c] /\ g[c] \in 1..c /\ g[c] \in 1..n /\ c \in 1..n
      BY <1>0, <2>1, <3>1
    <3>3. r \in [R -> 1..n]
      BY <2>1, <3>1, <1>0
    <3>4. ASSUME NEW c \in R, r[c] # 1 PROVE \E b \in R : r[b] = r[c] - 1
      <4>1. RankIs(cp, g, c) /\ g[c] # 1
        BY <3>1, <3>2, <3>4
      <4>2. PICK b \in Before(cp, c) : g[c] = g[b] + 1
        BY <4>1 DEF RankIs
      <4>3. b \in R
        BY DEF Before
      <4>4. r[b] = g[b] /\ r[c] = g[c] /\ g[b] \in Nat /\ g[c] \in Nat
        BY <3>2, <4>3
      <4> HIDE DEF r
      <4> QED
        BY <4>2, <4>3, <4>4
    <3>5. ASSUME NEW c \in R, NEW b \in R, r[c] = 1, b < c
          PROVE  <<cp.calls[b].prep, cp.calls[c].prep>> \notin Conflict
      <4>1. RankIs(cp, g, c) /\ g[c] = 1
        BY <3>1, <3>2, <3>5
      <4>2. Before(cp, c) = {}
        <5> SUFFICES ASSUME Before(cp, c) # {}
                     PROVE  FALSE
          OBVIOUS
        <5>1. PICK e \in Before(cp, c) : g[c] = g[e] + 1
          BY <4>1 DEF RankIs
        <5>2. e \in R
          BY DEF Before
        <5>3. g[e] \in 1..e /\ e \in 1..n
          BY <3>2, <5>2
        <5> QED
          BY <4>1, <5>1, <5>3
      <4> QED
        BY <4>2, <3>5 DEF Before
    <3> HIDE DEF r, R
    <3> QED
      BY <3>3, <3>4, <3>5
  <2>2. CASE ~config.parallel
    <3>1. \A c \in R : r[c] = Cardinality(UpTo(R, c)) /\ Cardinality(UpTo(R, c)) \in 1..n
      BY <2>2, <1>0, Numbering
    <3>2. r \in [R -> 1..n]
      BY <2>2, <3>1
    <3> HIDE DEF r, R
    <3>3. ASSUME NEW c \in R, r[c] # 1 PROVE \E b \in R : r[b] = r[c] - 1
      <4>1. \E b \in R : b < c
        <5> SUFFICES ASSUME \A b \in R : ~(b < c)
                     PROVE  FALSE
          OBVIOUS
        <5>1. Cardinality(UpTo(R, c)) = 1
          BY <1>0, Numbering
        <5> QED
          BY <3>1, <3>3, <5>1
      <4>2. PICK b \in R : Cardinality(UpTo(R, b)) = Cardinality(UpTo(R, c)) - 1
        BY <1>0, <4>1, Numbering
      <4> QED
        BY <3>1, <4>2
    <3>4. ASSUME NEW c \in R, NEW b \in R, r[c] = 1, b < c PROVE FALSE
      BY <1>0, <3>1, <3>4, Numbering
    <3> QED
      BY <3>2, <3>3, <3>4
  <2> QED
    BY <2>1, <2>2
<1>2. m \in 0..n /\ I = 1..m
  <2>1. /\ \A c \in R : r[c] \in I
        /\ \A x \in I : \E c \in R : x = r[c]
    OBVIOUS
  <2>2. R \in SUBSET (1..n) /\ r \in [R -> 1..n] /\ \A c \in R : r[c] # 1 => \E b \in R : r[b] = r[c] - 1
    BY <1>0, <1>1
  <2> HIDE DEF r, R, I
  <2> QED
    BY <2>1, <2>2, Gapless
<1>3. S = [i \in 1..m |-> {c \in R : r[c] = i}]
  <2>1. {IF config.parallel THEN StageOf(cp, c) ELSE Cardinality({b \in R : b <= c}) : c \in R} = I
    BY DEF UpTo
  <2>2. \A i : {c \in R : (IF config.parallel THEN StageOf(cp, c) ELSE Cardinality({b \in R : b <= c})) = i}
               = {c \in R : r[c] = i}
    BY DEF UpTo
  <2>3. S = [i \in 1..Cardinality({IF config.parallel THEN StageOf(cp, c)
                                   ELSE Cardinality({b \in R : b <= c}) : c \in R}) |->
              {c \in R : (IF config.parallel THEN StageOf(cp, c)
                          ELSE Cardinality({b \in R : b <= c})) = i}]
    BY DEF ReadyStages
  <2> QED
    BY <2>1, <2>2, <2>3
<1> HIDE DEF r, S, m
<1>4. S \in [1..m -> SUBSET (1..n)] /\ \A i \in 1..m : S[i] = {c \in R : r[c] = i}
  BY <1>0, <1>3
<1>5. S \in Seq(SUBSET (1..n)) /\ Len(S) = m
  BY <1>2, <1>4, LenProperties
<1>6. \A i \in 1..m : S[i] # {} /\ S[i] \subseteq R
  BY <1>2, <1>4
<1>7. \A i, j \in 1..m : i # j => S[i] \cap S[j] = {}
  BY <1>4
<1>8. \A c \in R : r[c] \in 1..m /\ c \in S[r[c]]
  BY <1>2, <1>4
<1>9. m # 0 => \A c \in S[1], b \in R :
         b < c => <<cp.calls[b].prep, cp.calls[c].prep>> \notin Conflict
  <2> SUFFICES ASSUME m # 0, NEW c \in S[1], NEW b \in R, b < c
               PROVE  <<cp.calls[b].prep, cp.calls[c].prep>> \notin Conflict
    OBVIOUS
  <2>1. 1 \in 1..m
    BY <1>2
  <2>2. c \in R /\ r[c] = 1
    BY <1>4, <2>1
  <2> QED
    BY <1>1, <2>2
<1> HIDE DEF R, I
<1>10. /\ S \in Seq(SUBSET (1..n))
       /\ \A i \in 1..Len(S) : S[i] # {} /\ S[i] \subseteq R
       /\ \A i, j \in 1..Len(S) : i # j => S[i] \cap S[j] = {}
       /\ \A c \in R : \E i \in 1..Len(S) : c \in S[i]
       /\ Len(S) # 0 => \A c \in S[1], b \in R :
             b < c => <<cp.calls[b].prep, cp.calls[c].prep>> \notin Conflict
  BY <1>5, <1>6, <1>7, <1>8, <1>9
<1> QED
  BY <1>10 DEF S, R
----------------------------------------------------------------------------
\* Counting the entered calls.

\* Where only the first k entries of a row may be one and the others are zero, the row
\* adds up to at most k.
LEMMA RowBound ==
    ASSUME NEW m \in Nat, NEW f \in [1..m -> Nat], NEW k \in Nat,
           \A c \in 1..m : f[c] # 0 => f[c] = 1 /\ c <= k
    PROVE  Total(f) \in Nat /\ Total(f) <= k
<1>1. f \in Seq(Nat) /\ Len(f) = m
  BY LenProperties
<1> DEFINE B == [j \in 0..m |-> IF j <= k THEN j ELSE k]
<1>2. B \in [0..m -> Nat]
  OBVIOUS
<1>3. ASSUME NEW i \in 1..m PROVE f[i] + B[i - 1] <= B[i]
  <2>1. i - 1 \in 0..m /\ i \in 0..m /\ f[i] \in Nat
    OBVIOUS
  <2>2. /\ B[i] = IF i <= k THEN i ELSE k
        /\ B[i - 1] = IF i - 1 <= k THEN i - 1 ELSE k
    BY <2>1
  <2>3. f[i] = 0 \/ (f[i] = 1 /\ i <= k)
    BY <2>1
  <2> HIDE DEF B
  <2> QED
    BY <2>1, <2>2, <2>3
<1>4. B[m] <= k
  <2>1. m \in 0..m /\ B[m] = IF m <= k THEN m ELSE k
    OBVIOUS
  <2> HIDE DEF B
  <2> QED
    BY <2>1
<1>5. Total(f) \in Nat /\ B[m] \in Nat
  BY <1>1, <1>2, TotalType
<1> HIDE DEF B
<1>6. Total(f) <= B[m]
  BY <1>1, <1>2, <1>3, TotalBound
<1> QED
  BY <1>4, <1>5, <1>6

\* Where every entered call belongs to a finished batch or to the k calls of the one in
\* progress, no more calls were entered than these batches have together.
LEMMA EnteredBound ==
    ASSUME NEW n \in Nat, NEW m \in Nat, NEW E \in [1..n -> [1..m -> Nat]],
           NEW h \in Seq(Nat), Len(h) <= n, NEW k \in Nat,
           \A i \in 1..n, c \in 1..m : E[i][c] # 0 =>
              /\ E[i][c] = 1
              /\ (i <= Len(h) /\ c <= h[i]) \/ (i = Len(h) + 1 /\ c <= k),
           NEW s \in [1..n -> Nat], \A i \in 1..n : s[i] = Total(E[i])
    PROVE  Total(s) \in Nat /\ Total(s) <= Total(h) + k
<1>a. PICK L \in Nat : L = Len(h)
  OBVIOUS
<1> DEFINE Cap(i) == IF i <= L THEN h[i] ELSE IF i = L + 1 THEN k ELSE 0
<1>0. L \in Nat /\ L <= n /\ \A i \in 1..L : h[i] \in Nat
  BY <1>a
<1>1. ASSUME NEW i \in 1..n PROVE Total(E[i]) \in Nat /\ Total(E[i]) <= Cap(i)
  <2>1. Cap(i) \in Nat /\ E[i] \in [1..m -> Nat]
    BY <1>0
  <2>2. \A c \in 1..m : E[i][c] # 0 => E[i][c] = 1 /\ c <= Cap(i)
    BY <1>a, <1>0, SMTT(30)
  <2> HIDE DEF Cap
  <2> QED
    BY <2>1, <2>2, RowBound
<1>2. s \in [1..n -> Nat] /\ \A i \in 1..n : s[i] = Total(E[i])
  OBVIOUS
<1>3. s \in Seq(Nat) /\ Len(s) = n
  BY <1>2, LenProperties
<1>4. PICK g \in [0..L -> Nat] :
         /\ g[0] = 0 /\ \A i \in 1..L : g[i] = g[i - 1] + h[i]
         /\ Total(h) = g[L]
  BY <1>a, TotalSums
<1>b. \A j \in 0..L : g[j] \in Nat
  BY <1>4
<1> DEFINE B == [j \in 0..n |-> IF j <= L THEN g[j] ELSE g[L] + k]
<1>5. B \in [0..n -> Nat]
  <2>1. L \in 0..L
    BY <1>0
  <2>2. \A j \in 0..n : (IF j <= L THEN g[j] ELSE g[L] + k) \in Nat
    <3> SUFFICES ASSUME NEW j \in 0..n
                 PROVE  (IF j <= L THEN g[j] ELSE g[L] + k) \in Nat
      OBVIOUS
    <3>1. j <= L => j \in 0..L
      BY <1>0
    <3> QED
      BY <1>b, <2>1, <3>1
  <2> QED
    BY <2>2
<1>6. \A j \in 0..n : B[j] = IF j <= L THEN g[j] ELSE g[L] + k
  OBVIOUS
<1> HIDE DEF B
<1>7. ASSUME NEW i \in 1..n PROVE s[i] + B[i - 1] <= B[i]
  <2>1. i - 1 \in 0..n /\ i \in 0..n /\ s[i] \in Nat /\ s[i] <= Cap(i)
    BY <1>1, <1>2
  <2>2. /\ B[i - 1] = IF i - 1 <= L THEN g[i - 1] ELSE g[L] + k
        /\ B[i] = IF i <= L THEN g[i] ELSE g[L] + k
    BY <1>6, <2>1
  <2>3. CASE i <= L
    <3>1. g[i] = g[i - 1] + h[i] /\ g[i - 1] \in Nat /\ h[i] \in Nat
      <4>1. i \in 1..L /\ i - 1 \in 0..L
        BY <1>0, <2>3
      <4> QED
        BY <1>0, <1>4, <1>b, <4>1
    <3>2. B[i] = g[i] /\ B[i - 1] = g[i - 1] /\ s[i] <= h[i]
      <4>1. i - 1 <= L
        BY <1>0, <2>3
      <4> QED
        BY <2>1, <2>2, <2>3, <4>1
    <3> QED
      <4>1. s[i] \in Nat
        BY <2>1
      <4>2. \A x, y, z \in Nat : x <= z => x + y <= y + z
        OBVIOUS
      <4>3. s[i] + g[i - 1] <= g[i - 1] + h[i]
        BY <3>1, <3>2, <4>1, <4>2
      <4> QED
        BY <3>1, <3>2, <4>3, Zenon
  <2>4. CASE i = L + 1
    <3>1. g[L] \in Nat /\ i - 1 = L
      <4>1. L \in 0..L
        BY <1>0
      <4> QED
        BY <1>0, <1>b, <2>4, <4>1
    <3> QED
      BY <1>0, <2>1, <2>2, <2>4, <3>1
  <2>5. CASE i > L + 1
    <3>1. g[L] \in Nat
      <4>1. L \in 0..L
        BY <1>0
      <4> QED
        BY <1>b, <4>1
    <3> QED
      BY <1>0, <2>1, <2>2, <2>5, <3>1
  <2>6. i <= L \/ i = L + 1 \/ i > L + 1
    BY <1>0
  <2> QED
    BY <2>3, <2>4, <2>5, <2>6
<1>8. B[n] <= Total(h) + k
  <2>1. n \in 0..n /\ L \in 0..L
    BY <1>0
  <2>2. B[n] = IF n <= L THEN g[n] ELSE g[L] + k
    BY <1>6, <2>1
  <2>3. g[L] \in Nat /\ n <= L => n = L
    BY <1>0, <1>b, <2>1
  <2> QED
    BY <1>0, <1>4, <2>1, <2>2, <2>3
<1>9. Total(s) <= B[n]
  BY <1>3, <1>5, <1>7, TotalBound
<1>10. Total(s) \in Nat /\ B[n] \in Nat /\ Total(h) \in Nat
  BY <1>3, <1>5, TotalType
<1> QED
  BY <1>8, <1>9, <1>10
----------------------------------------------------------------------------
\* The inductive invariant.

\* The checkpoint the run or the host holds.
Current == IF pc = "suspended" THEN saved ELSE pending

\* A checkpoint of the run's own that would pass validate; every approval in it was
\* asked for, is confirmed if it carries evidence, and else belongs to a ready call.
Held(cp) ==
    /\ CheckpointOK(cp) /\ Valid(cp)
    /\ \A c \in DOMAIN cp.calls : cp.approvals[c] # Null =>
          /\ ApprovalId(cp, c) \in asked
          /\ IF cp.approvals[c].evidence
             THEN ApprovalId(cp, c) \in confirmed ELSE cp.calls[c].state = "ready"

\* Places where the run works on a checkpoint, and where it has none.
Working == {"resume", "pending", "stage", "approval", "tools", "suspend"}
Without == {"idle", "step", "plan", "complete", "suspended", "ended"}

\* Whoever should hold a checkpoint holds one, and nobody else does.
Custody ==
    /\ pc \in Working => pending # Null
    /\ pc \in Without => pending = Null
    /\ saved # Null <=> pc = "suspended"
    /\ Current # Null => Held(Current)

\* Between two batches the usage is that of the batches in the messages, and there is
\* one such batch for every Step but the running one.
Between ==
    (Current = Null /\ pc # "ended") =>
        /\ used = Total(history) /\ Len(history) <= steps
        /\ pc \in {"idle", "top", "step"} => steps = Len(history)
        /\ pc = "step" => steps < config.maxSteps
        /\ pc = "plan" => steps = Len(history) + 1

\* Call c of the batch in progress may have been entered: it is not ready any more, or
\* it is dispatched and past its admission.
Spent(cp, c) ==
    /\ c \in DOMAIN cp.calls
    /\ cp.calls[c].state = "ready" => pc = "tools" /\ c \in DOMAIN flight /\ flight[c] # "admit"

Accounted(i, c) ==
    \/ i <= Len(history) /\ c <= history[i]
    \/ i = steps /\ Current # Null /\ Spent(Current, c)

\* Every entered call was entered once and is one of a finished batch, or spent.
Entries ==
    pc # "ended" => \A i \in 1..MaxSteps, c \in Calls :
        entered[i][c] # 0 => entered[i][c] = 1 /\ Accounted(i, c)

\* The batch has been decided: no ready call is denied, an allowed one carries no
\* approval, and the next stage holds ready calls whose earlier conflicting calls are
\* not ready any more.
Settled(cp) ==
    /\ In(cp, "awaiting") = {}
    /\ \A c \in In(cp, "ready") :
          /\ Decision(cp, c) # "deny"
          /\ Decision(cp, c) = "allow" => cp.approvals[c] = Null
    /\ cp.index < Len(cp.stages) => \A c \in cp.stages[cp.index + 1] :
          /\ cp.calls[c].state = "ready"
          /\ \A b \in In(cp, "ready") :
               b < c => <<cp.calls[b].prep, cp.calls[c].prep>> \notin Conflict

\* Where a stage is planned or running, what it rests on; and a run that is about to
\* suspend has something to wait for.
Dispatch ==
    /\ pc \in {"stage", "tools"} => Settled(pending)
    /\ pc # "tools" => flight = <<>>
    /\ pc = "tools" =>
          /\ pending.index < Len(pending.stages)
          /\ flight \in [Runnable(pending) -> Seen \cup Waits]
          /\ \A c \in DOMAIN flight : Grantable(pending, c)
    /\ pc = "suspend" => Unconfirmed(pending) \cup In(pending, "awaiting") # {}

IInv == TypeOK /\ Custody /\ Between /\ Entries /\ Dispatch /\ EntriesBounded

----------------------------------------------------------------------------
\* Checkpoints.

\* A checkpoint with n calls.
Shape(cp, n) ==
    /\ n \in Calls /\ cp \in Checkpoint
    /\ cp.calls \in [1..n -> Call]
    /\ cp.approvals \in [1..n -> Approval \cup {Null}]
    /\ cp.stages \in Seq(SUBSET (1..n)) /\ cp.index \in 0..1

\* The limits of a configuration.
LEMMA ConfigType ==
    ASSUME TypeOK
    PROVE  /\ config \in Config /\ config.maxToolCalls \in Nat
           /\ config.maxSteps \in 1..MaxSteps /\ config.maxSteps \in Nat
           /\ config.preps \subseteq Preps
           /\ config.policies \subseteq Policies /\ config.waits \subseteq Waits
           /\ config.parallel \in BOOLEAN
           /\ MaxSteps \in Nat \ {0} /\ MaxBatch \in Nat \ {0} /\ Calls \subseteq Nat
<1>1. config \in Config
  BY EngineAssumption DEF TypeOK
<1>2. MaxSteps \in Nat \ {0} /\ MaxBatch \in Nat \ {0}
  BY EngineAssumption
<1> QED
  BY <1>1, <1>2 DEF Config, Calls

\* A run's own checkpoint has a shape.
LEMMA OwnShape ==
    ASSUME NEW cp, CheckpointOK(cp)
    PROVE  \E n \in Calls : Shape(cp, n)
BY DEF CheckpointOK, Shape

\* A checkpoint of some shape with the run's own counters is the run's own.
LEMMA ShapeOwn ==
    ASSUME NEW cp, NEW n, Shape(cp, n), cp.steps = steps, cp.history = history,
           cp.prior = used, cp.used \in used..config.maxToolCalls
    PROVE  CheckpointOK(cp)
BY DEF CheckpointOK, Shape

\* As many calls are charged as there are, unless one is not.
LEMMA ChargedBound ==
    ASSUME NEW n \in Nat, NEW cp, DOMAIN cp.calls = 1..n
    PROVE  /\ Charged(cp) \in 0..n
           /\ (\A c \in 1..n : cp.calls[c].charged) => Charged(cp) = n
           /\ (\E c \in 1..n : ~cp.calls[c].charged) => Charged(cp) < n
           /\ Cardinality(DOMAIN cp.calls) = n
<1> DEFINE S == {c \in 1..n : cp.calls[c].charged}
<1>1. Charged(cp) = Cardinality(S)
  BY DEF Charged
<1>2. Cardinality(S) \in 0..n
  <2>1. S \in SUBSET (1..n)
    OBVIOUS
  <2> HIDE DEF S
  <2> QED
    BY <2>1, FinitePart
<1>3. IsFiniteSet(1..n) /\ Cardinality(1..n) = n
  <2>1. IsFiniteSet(1..n) /\ Cardinality(1..n) = IF 1 > n THEN 0 ELSE n - 1 + 1
    BY FS_Interval
  <2> QED
    BY <2>1
<1>4. ASSUME \A c \in 1..n : cp.calls[c].charged PROVE Cardinality(S) = n
  <2>1. S = 1..n
    BY <1>4
  <2> QED
    BY <2>1, <1>3, Zenon
<1>5. ASSUME \E c \in 1..n : ~cp.calls[c].charged PROVE Cardinality(S) # n
  <2>1. S \in SUBSET (1..n) /\ S # 1..n
    BY <1>5
  <2> HIDE DEF S
  <2>2. Cardinality(1..n) = Cardinality(S) => 1..n = S
    BY <1>3, <2>1, FS_Subset
  <2> QED
    BY <2>1, <2>2, <1>3, Zenon
<1> HIDE DEF S
<1> QED
  BY <1>1, <1>2, <1>3, <1>4, <1>5

\* Recounting changes nothing but the usage.
LEMMA RecountIs ==
    ASSUME NEW n, NEW cp, Shape(cp, n)
    PROVE  /\ Recount(cp).steps = cp.steps /\ Recount(cp).history = cp.history
           /\ Recount(cp).calls = cp.calls /\ Recount(cp).stages = cp.stages
           /\ Recount(cp).index = cp.index /\ Recount(cp).approvals = cp.approvals
           /\ Recount(cp).prior = cp.prior
           /\ Recount(cp).used = cp.prior + Charged(cp)
           /\ Charged(Recount(cp)) = Charged(cp)
           /\ Shape(Recount(cp), n)
<1>1. /\ Recount(cp).steps = cp.steps /\ Recount(cp).history = cp.history
      /\ Recount(cp).calls = cp.calls /\ Recount(cp).stages = cp.stages
      /\ Recount(cp).index = cp.index /\ Recount(cp).approvals = cp.approvals
      /\ Recount(cp).prior = cp.prior
      /\ Recount(cp).used = cp.prior + Charged(cp)
  BY DEF Recount, Shape, Checkpoint
<1>2. Charged(Recount(cp)) = Charged(cp)
  BY <1>1 DEF Charged
<1>3. Charged(cp) \in Nat
  <2>1. n \in Nat /\ DOMAIN cp.calls = 1..n
    BY EngineAssumption DEF Shape, Calls
  <2> QED
    BY <2>1, ChargedBound
<1>4. Recount(cp) \in Checkpoint
  <2>1. cp.prior + Charged(cp) \in Nat
    BY <1>3 DEF Shape, Checkpoint
  <2> QED
    BY <2>1 DEF Recount, Shape, Checkpoint
<1>5. Shape(Recount(cp), n)
  BY <1>1, <1>4 DEF Shape
<1> QED
  BY <1>1, <1>2, <1>5
\* Ready calls and error feedback are valid calls.
LEMMA CallTypes ==
    /\ \A p \in Preps : /\ Ready(p) \in Call /\ CallValid(Ready(p)) /\ ~Ready(p).charged
                        /\ Ready(p).state = "ready" /\ Ready(p).prep = p
    /\ \A p \in Preps \cup {Null} : /\ Feedback(p) \in Call /\ CallValid(Feedback(p))
                                    /\ Feedback(p).state = "completed" /\ Feedback(p).prep = p
                                    /\ Feedback(p).charged
<1>1. ASSUME NEW p \in Preps
      PROVE  /\ Ready(p) \in Call /\ CallValid(Ready(p)) /\ ~Ready(p).charged
             /\ Ready(p).state = "ready" /\ Ready(p).prep = p
  <2>1. p # Null
    BY EngineAssumption
  <2>2. Ready(p) \in Call
    BY DEF Ready, Call
  <2>3. Ready(p).state = "ready" /\ ~Ready(p).charged /\ Ready(p).prep = p
    BY DEF Ready
  <2>4. CallValid(Ready(p))
    BY <2>1, <2>3 DEF CallValid
  <2> QED
    BY <2>2, <2>3, <2>4
<1>2. ASSUME NEW p \in Preps \cup {Null}
      PROVE  /\ Feedback(p) \in Call /\ CallValid(Feedback(p))
             /\ Feedback(p).state = "completed" /\ Feedback(p).prep = p /\ Feedback(p).charged
  <2>2. Feedback(p) \in Call
    BY DEF Feedback, Call
  <2>3. /\ Feedback(p).state = "completed" /\ Feedback(p).charged /\ Feedback(p).prep = p
        /\ Feedback(p).issued = Null /\ Feedback(p).got = "error"
    BY DEF Feedback
  <2>4. CallValid(Feedback(p))
    BY <2>3 DEF CallValid
  <2> QED
    BY <2>2, <2>3, <2>4
<1> QED
  BY <1>1, <1>2

\* A call of a checkpoint is in one of three states, and a ready one has a preparation.
LEMMA CallFacts ==
    ASSUME NEW c \in Call
    PROVE  /\ c.state \in {"ready", "completed", "awaiting"}
           /\ c.charged \in BOOLEAN /\ c.prep \in Preps \cup {Null}
           /\ c.state = "ready" /\ CallValid(c) => c.prep \in Preps /\ ~c.charged
           /\ c.state # "ready" /\ CallValid(c) => c.charged
<1>1. /\ c.state \in {"ready", "completed", "awaiting"}
      /\ c.charged \in BOOLEAN /\ c.prep \in Preps \cup {Null}
  BY DEF Call
<1>2. ASSUME c.state = "ready", CallValid(c) PROVE c.prep \in Preps /\ ~c.charged
  BY <1>1, <1>2 DEF CallValid
<1>3. ASSUME c.state # "ready", CallValid(c) PROVE c.charged
  BY <1>1, <1>3 DEF CallValid
<1> QED
  BY <1>1, <1>2, <1>3

\* The checkpoint of a fresh batch is valid and the run's own.
LEMMA NewHeld ==
    ASSUME TypeOK, used = Total(history), steps = Len(history) + 1,
           NEW n \in Calls, used + n <= config.maxToolCalls,
           NEW preps \in [1..n -> config.preps \cup PrepFailures]
    PROVE  Held(NewCheckpoint(preps))
<1>0. /\ config.maxToolCalls \in Nat /\ config.maxSteps \in Nat /\ config.preps \subseteq Preps
      /\ n \in Nat /\ n >= 1 /\ 1 \in 1..n /\ steps \in 1..config.maxSteps /\ used \in Nat
      /\ history \in Seq(Calls) /\ Len(history) \in Nat /\ Len(history) = steps - 1
      /\ DOMAIN preps = 1..n
  <2>1. /\ config.maxToolCalls \in Nat /\ config.maxSteps \in Nat /\ config.preps \subseteq Preps
        /\ MaxBatch \in Nat
    BY ConfigType
  <2>2. n \in Nat /\ n >= 1 /\ 1 \in 1..n
    BY <2>1 DEF Calls
  <2>3. history \in Seq(Calls) /\ steps \in 0..config.maxSteps /\ used \in Nat
    BY <2>1 DEF TypeOK
  <2>4. Len(history) \in Nat
    BY <2>3, LenProperties
  <2> QED
    BY <2>1, <2>2, <2>3, <2>4
<1> DEFINE calls == [c \in 1..n |-> IF preps[c] \in Preps THEN Ready(preps[c]) ELSE Feedback(Null)]
<1>1. PICK cp : cp = [steps     |-> steps,
                      history   |-> history,
                      calls     |-> [c \in DOMAIN preps |->
                                       IF preps[c] \in Preps THEN Ready(preps[c]) ELSE Feedback(Null)],
                      stages    |-> <<DOMAIN preps>>,
                      index     |-> 0,
                      approvals |-> [c \in DOMAIN preps |-> Null],
                      prior     |-> used,
                      used      |-> 0]
  OBVIOUS
<1>2. /\ cp.steps = steps /\ cp.history = history /\ cp.calls = calls /\ cp.stages = <<1..n>>
      /\ cp.index = 0 /\ cp.approvals = [c \in 1..n |-> Null] /\ cp.prior = used /\ cp.used = 0
  BY <1>0, <1>1
<1>3. calls \in [1..n -> Call] /\ \A c \in 1..n : CallValid(calls[c]) /\ calls[c].state # "awaiting"
  <2>1. \A c \in 1..n : (calls[c] = Ready(preps[c]) /\ preps[c] \in Preps) \/ calls[c] = Feedback(Null)
    OBVIOUS
  <2>2. \A c \in 1..n : calls[c] \in Call /\ CallValid(calls[c]) /\ calls[c].state # "awaiting"
    <3> HIDE DEF calls
    <3> QED
      BY <2>1, CallTypes
  <2> QED
    BY <2>2
<1> HIDE DEF calls
<1>4. <<1..n>> \in Seq(SUBSET (1..n)) /\ Len(<<1..n>>) = 1 /\ <<1..n>>[1] = 1..n /\ <<1..n>> # <<>>
  OBVIOUS
<1>5. Shape(cp, n)
  <2>1. cp.approvals \in [1..n -> Approval \cup {Null}]
    BY <1>2
  <2>2. 1..n \subseteq Calls
    BY <1>0, ConfigType DEF Calls
  <2>3. <<1..n>> \in Seq(SUBSET Calls)
    BY <2>2
  <2>4. cp \in Checkpoint
    <3>1. calls \in UNION {[1..k -> Call] : k \in Calls}
      BY <1>3
    <3>2. [c \in 1..n |-> Null] \in UNION {[1..k -> Approval \cup {Null}] : k \in Calls}
      BY <1>2, <2>1
    <3>3. cp = [steps |-> steps, history |-> history, calls |-> calls, stages |-> <<1..n>>,
                index |-> 0, approvals |-> [c \in 1..n |-> Null], prior |-> used, used |-> 0]
      BY <1>0, <1>1 DEF calls
    <3>4. steps \in Nat
      BY <1>0
    <3> QED
      BY <1>0, <2>3, <3>1, <3>2, <3>3, <3>4 DEF Checkpoint
  <2> QED
    BY <1>2, <1>3, <1>4, <2>1, <2>4 DEF Shape
<1>6. PICK new : new = NewCheckpoint(preps)
  OBVIOUS
<1>7. new = Recount(cp)
  BY <1>1, <1>6 DEF NewCheckpoint
<1>8. /\ Shape(new, n) /\ new.steps = steps /\ new.history = history /\ new.calls = calls
      /\ new.stages = <<1..n>> /\ new.index = 0 /\ new.approvals = [c \in 1..n |-> Null]
      /\ new.prior = used /\ new.used = used + Charged(new)
  BY <1>2, <1>5, <1>7, RecountIs
<1>9. DOMAIN new.calls = 1..n /\ \A c \in 1..n : new.approvals[c] = Null
  BY <1>3, <1>8
<1>10. Charged(new) \in 0..n /\ Cardinality(DOMAIN new.calls) = n
  BY <1>0, <1>9, ChargedBound
<1>11. Valid(new)
  <2>1. new.calls # <<>>
    BY <1>0, <1>9
  <2>2. \A c \in DOMAIN new.calls : CallValid(new.calls[c])
    BY <1>3, <1>8, <1>9
  <2>3. In(new, "awaiting") = {}
    BY <1>3, <1>8, <1>9 DEF In
  <2>4. StagesPartition(new)
    <3>1. DOMAIN new.stages = {1}
      BY <1>4, <1>8
    <3>2. new.stages[1] = 1..n
      BY <1>4, <1>8
    <3>3. UNION {new.stages[i] : i \in DOMAIN new.stages} = 1..n
      BY <3>1, <3>2
    <3> QED
      BY <1>0, <1>9, <3>1, <3>2, <3>3 DEF StagesPartition
  <2>5. CursorAgrees(new)
    <3>1. DOMAIN new.stages = {1}
      BY <1>4, <1>8
    <3> QED
      BY <1>8, <3>1 DEF CursorAgrees
  <2>6. BudgetAgrees(new)
    BY <1>0, <1>8, <1>10 DEF BudgetAgrees
  <2>7. Len(new.stages) = 1 /\ new.stages # <<>>
    BY <1>4, <1>8
  <2>8. new.index <= Len(new.stages)
    BY <1>8, <2>7
  <2>9. new.steps \in 1..config.maxSteps /\ Len(new.history) = new.steps - 1
    BY <1>0, <1>8
  <2> QED
    BY <1>9, <2>1, <2>2, <2>3, <2>4, <2>5, <2>6, <2>7, <2>8, <2>9 DEF Valid
<1>12. CheckpointOK(new)
  <2>1. new.used \in used..config.maxToolCalls
    BY <1>0, <1>8, <1>10
  <2> QED
    BY <1>8, <2>1, ShapeOwn
<1>13. Held(new)
  BY <1>9, <1>11, <1>12 DEF Held
<1> QED
  BY <1>6, <1>13
\* A ready call prepared again is the ready call of its new preparation.
LEMMA ReadyAgain ==
    ASSUME NEW x, NEW z
    PROVE  [Ready(x) EXCEPT !.prep = z] = Ready(z)
<1>1. PICK a : a = Ready(x)
  OBVIOUS
<1>2. a \in [state : {"ready"}, charged : {FALSE}, prep : {x}, issued : {Null}, got : {Null}]
  BY <1>1 DEF Ready
<1>3. [a EXCEPT !.prep = z]
         \in [state : {"ready"}, charged : {FALSE}, prep : {z}, issued : {Null}, got : {Null}]
  BY <1>2
<1>4. Ready(z) \in [state : {"ready"}, charged : {FALSE}, prep : {z}, issued : {Null}, got : {Null}]
  BY DEF Ready
<1> QED
  BY <1>1, <1>3, <1>4

\* refresh_ready's first loop: a ready call stays ready under its new preparation, or
\* becomes feedback and loses its approval; the others stay as they are.
LEMMA ReprepareIs ==
    ASSUME TypeOK, NEW n, NEW cp, Shape(cp, n), \A c \in 1..n : CallValid(cp.calls[c]),
           NEW preps \in [In(cp, "ready") -> config.preps \cup PrepFailures],
           NEW p, p = Recount(Reprepare(cp, preps))
    PROVE  /\ Shape(p, n) /\ p.used = p.prior + Charged(p)
           /\ p.steps = cp.steps /\ p.history = cp.history /\ p.prior = cp.prior
           /\ \A c \in 1..n :
                 \/ /\ cp.calls[c].state # "ready"
                    /\ p.calls[c] = cp.calls[c] /\ p.approvals[c] = cp.approvals[c]
                 \/ /\ cp.calls[c].state = "ready"
                    /\ \E x \in Preps : p.calls[c] = Ready(x) /\ p.approvals[c] = cp.approvals[c]
                 \/ /\ cp.calls[c].state = "ready"
                    /\ p.calls[c] = Feedback(Null) /\ p.approvals[c] = Null
<1>0. /\ cp \in Checkpoint /\ cp.calls \in [1..n -> Call] /\ n \in Calls
      /\ cp.approvals \in [1..n -> Approval \cup {Null}]
      /\ DOMAIN cp.calls = 1..n /\ DOMAIN cp.approvals = 1..n
      /\ config.preps \subseteq Preps
  BY ConfigType DEF Shape
<1> DEFINE New(c) == IF c \notin DOMAIN preps THEN cp.calls[c]
                     ELSE IF preps[c] \in Preps THEN [cp.calls[c] EXCEPT !.prep = preps[c]]
                     ELSE Feedback(Null)
           Kept(c) == IF c \in DOMAIN preps /\ preps[c] \notin Preps THEN Null ELSE cp.approvals[c]
<1>1. PICK q : q = Reprepare(cp, preps)
  OBVIOUS
<1>2. /\ q.calls = [c \in 1..n |-> New(c)] /\ q.approvals = [c \in 1..n |-> Kept(c)]
      /\ q.steps = cp.steps /\ q.history = cp.history /\ q.prior = cp.prior
      /\ q.stages = cp.stages /\ q.index = cp.index
  BY <1>0, <1>1 DEF Reprepare, Checkpoint
<1>3. ASSUME NEW c \in 1..n
      PROVE  /\ New(c) \in Call /\ Kept(c) \in Approval \cup {Null}
             /\ \/ cp.calls[c].state # "ready" /\ New(c) = cp.calls[c] /\ Kept(c) = cp.approvals[c]
                \/ /\ cp.calls[c].state = "ready"
                   /\ \E x \in Preps : New(c) = Ready(x) /\ Kept(c) = cp.approvals[c]
                \/ /\ cp.calls[c].state = "ready"
                   /\ New(c) = Feedback(Null) /\ Kept(c) = Null
  <2>1. DOMAIN preps = In(cp, "ready") /\ (c \in In(cp, "ready") <=> cp.calls[c].state = "ready")
    BY <1>0 DEF In
  <2>2. cp.calls[c] \in Call /\ cp.approvals[c] \in Approval \cup {Null} /\ CallValid(cp.calls[c])
    BY <1>0
  <2>3. CASE cp.calls[c].state # "ready"
    BY <2>1, <2>2, <2>3
  <2>4. CASE cp.calls[c].state = "ready" /\ preps[c] \in Preps
    <3>1. cp.calls[c] = Ready(cp.calls[c].prep)
      BY <2>2, <2>4 DEF Call, CallValid, Ready
    <3>2. [cp.calls[c] EXCEPT !.prep = preps[c]] = Ready(preps[c])
      <4>1. PICK x, y : y = cp.calls[c] /\ x = y.prep
        OBVIOUS
      <4>2. y = Ready(x)
        BY <3>1, <4>1
      <4>3. \A z : [Ready(x) EXCEPT !.prep = z] = Ready(z)
        BY ReadyAgain
      <4> QED
        BY <4>1, <4>2, <4>3
    <3>3. New(c) = Ready(preps[c]) /\ Kept(c) = cp.approvals[c]
      BY <2>1, <2>4, <3>2
    <3>4. Ready(preps[c]) \in Call
      BY <2>4, CallTypes
    <3> QED
      BY <2>2, <2>4, <3>3, <3>4
  <2>5. CASE cp.calls[c].state = "ready" /\ preps[c] \notin Preps
    <3>1. New(c) = Feedback(Null) /\ Kept(c) = Null
      BY <2>1, <2>5
    <3>2. Feedback(Null) \in Call
      BY CallTypes
    <3> QED
      BY <2>5, <3>1, <3>2
  <2> QED
    BY <2>3, <2>4, <2>5
<1> HIDE DEF New, Kept
<1>4. q.calls \in [1..n -> Call] /\ q.approvals \in [1..n -> Approval \cup {Null}]
  BY <1>2, <1>3
<1>5. q \in Checkpoint
  <2>1. q = [cp EXCEPT !.calls = q.calls, !.approvals = q.approvals]
    BY <1>0, <1>1, <1>2 DEF Reprepare, Checkpoint
  <2>2. /\ q.calls \in UNION {[1..k -> Call] : k \in Calls}
        /\ q.approvals \in UNION {[1..k -> Approval \cup {Null}] : k \in Calls}
    BY <1>0, <1>4
  <2> QED
    BY <1>0, <2>1, <2>2 DEF Checkpoint
<1>6. Shape(q, n)
  BY <1>0, <1>2, <1>4, <1>5 DEF Shape
<1>7. p = Recount(q)
  BY <1>1
<1>8. /\ Shape(p, n) /\ p.used = p.prior + Charged(p)
      /\ p.steps = cp.steps /\ p.history = cp.history /\ p.prior = cp.prior
      /\ p.calls = q.calls /\ p.approvals = q.approvals
  BY <1>2, <1>6, <1>7, RecountIs
<1>9. \A c \in 1..n : p.calls[c] = New(c) /\ p.approvals[c] = Kept(c)
  BY <1>2, <1>8
<1> QED
  BY <1>3, <1>8, <1>9

\* refresh_ready's second loop: a denied call becomes feedback, one that needs an
\* approval has one for what it is now, and an allowed one has none.
LEMMA DecidedIs ==
    ASSUME TypeOK, NEW n, NEW p, Shape(p, n),
           \A c \in 1..n : p.calls[c].state = "ready" => p.calls[c].prep \in Preps,
           NEW q, q = Decided(p)
    PROVE  /\ Shape(q, n)
           /\ q.steps = p.steps /\ q.history = p.history /\ q.prior = p.prior
           /\ \A c \in 1..n :
                 \/ /\ p.calls[c].state # "ready"
                    /\ q.calls[c] = p.calls[c] /\ q.approvals[c] = p.approvals[c]
                 \/ /\ p.calls[c].state = "ready" /\ Decision(p, c) = "deny"
                    /\ q.calls[c] = Feedback(p.calls[c].prep) /\ q.approvals[c] = Null
                 \/ /\ p.calls[c].state = "ready" /\ Decision(p, c) = "ask"
                    /\ q.calls[c] = p.calls[c] /\ q.approvals[c] = Request(p, c)
                 \/ /\ p.calls[c].state = "ready" /\ Decision(p, c) = "allow"
                    /\ q.calls[c] = p.calls[c] /\ q.approvals[c] = Null
<1>0. /\ p \in Checkpoint /\ p.calls \in [1..n -> Call] /\ n \in Calls
      /\ p.approvals \in [1..n -> Approval \cup {Null}]
      /\ DOMAIN p.calls = 1..n /\ DOMAIN p.approvals = 1..n
      /\ policy \in Policies
  BY DEF Shape, TypeOK
<1> DEFINE New(c) == IF c \in In(p, "ready") /\ Decision(p, c) = "deny"
                     THEN Feedback(p.calls[c].prep) ELSE p.calls[c]
           Kept(c) == IF c \notin In(p, "ready") THEN p.approvals[c]
                      ELSE IF Decision(p, c) = "ask" THEN Request(p, c) ELSE Null
<1>2. /\ q.calls = [c \in 1..n |-> New(c)] /\ q.approvals = [c \in 1..n |-> Kept(c)]
      /\ q.steps = p.steps /\ q.history = p.history /\ q.prior = p.prior
      /\ q.stages = p.stages /\ q.index = p.index
  BY <1>0 DEF Decided, Checkpoint
<1>3. ASSUME NEW c \in 1..n
      PROVE  /\ New(c) \in Call /\ Kept(c) \in Approval \cup {Null}
             /\ \/ p.calls[c].state # "ready" /\ New(c) = p.calls[c] /\ Kept(c) = p.approvals[c]
                \/ /\ p.calls[c].state = "ready" /\ Decision(p, c) = "deny"
                   /\ New(c) = Feedback(p.calls[c].prep) /\ Kept(c) = Null
                \/ /\ p.calls[c].state = "ready" /\ Decision(p, c) = "ask"
                   /\ New(c) = p.calls[c] /\ Kept(c) = Request(p, c)
                \/ /\ p.calls[c].state = "ready" /\ Decision(p, c) = "allow"
                   /\ New(c) = p.calls[c] /\ Kept(c) = Null
  <2>1. c \in In(p, "ready") <=> p.calls[c].state = "ready"
    BY <1>0 DEF In
  <2>2. p.calls[c] \in Call /\ p.approvals[c] \in Approval \cup {Null}
    BY <1>0
  <2>3. CASE p.calls[c].state # "ready"
    BY <2>1, <2>2, <2>3
  <2>4. CASE p.calls[c].state = "ready"
    <3>1. Decision(p, c) \in {"allow", "ask", "deny"}
      <4>1. p.calls[c].prep \in Preps
        BY <2>4
      <4>2. Decide[policy][p.calls[c].prep] \in Decisions
        BY <1>0, <4>1, EngineAssumption
      <4> QED
        BY <4>2 DEF Decision, Decisions
    <3>2. Feedback(p.calls[c].prep) \in Call
      BY <2>4, CallTypes
    <3>3. Request(p, c) \in Approval
      <4>1. p.calls[c].prep \in Preps
        BY <2>4
      <4> QED
        BY <1>0, <2>2, <4>1 DEF Request, Approval
    <3> QED
      BY <2>1, <2>2, <2>4, <3>1, <3>2, <3>3
  <2> QED
    BY <2>3, <2>4
<1> HIDE DEF New, Kept
<1>4. q.calls \in [1..n -> Call] /\ q.approvals \in [1..n -> Approval \cup {Null}]
  BY <1>2, <1>3
<1>5. q \in Checkpoint
  <2>1. q = [p EXCEPT !.calls = q.calls, !.approvals = q.approvals]
    BY <1>0, <1>2 DEF Decided, Checkpoint
  <2>2. /\ q.calls \in UNION {[1..k -> Call] : k \in Calls}
        /\ q.approvals \in UNION {[1..k -> Approval \cup {Null}] : k \in Calls}
    BY <1>0, <1>4
  <2> QED
    BY <1>0, <2>1, <2>2 DEF Checkpoint
<1>6. Shape(q, n)
  BY <1>0, <1>2, <1>4, <1>5 DEF Shape
<1>9. \A c \in 1..n : q.calls[c] = New(c) /\ q.approvals[c] = Kept(c)
  BY <1>2
<1> QED
  BY <1>2, <1>3, <1>6, <1>9

\* The new plan: the completed calls, then the stages of the ready ones, with the cursor
\* at the first of these.
LEMMA RestageIs ==
    ASSUME TypeOK, NEW n, NEW q, Shape(q, n), In(q, "awaiting") = {},
           NEW r, r = Restage(q)
    PROVE  /\ Shape(r, n)
           /\ r.steps = q.steps /\ r.history = q.history /\ r.prior = q.prior
           /\ r.calls = q.calls /\ r.approvals = q.approvals
           /\ StagesPartition(r) /\ CursorAgrees(r)
           /\ r.stages # <<>> /\ r.index <= Len(r.stages)
           /\ r.index < Len(r.stages) => \A c \in r.stages[r.index + 1] :
                 /\ r.calls[c].state = "ready"
                 /\ \A b \in In(r, "ready") :
                      b < c => <<r.calls[b].prep, r.calls[c].prep>> \notin Conflict
<1> DEFINE D == In(q, "completed")
           R == In(q, "ready")
<1>0. /\ q \in Checkpoint /\ q.calls \in [1..n -> Call] /\ n \in Calls /\ n \in Nat /\ n >= 1
      /\ DOMAIN q.calls = 1..n
  BY ConfigType DEF Shape, Calls
<1>1. D \cup R = 1..n /\ D \cap R = {} /\ 1 \in 1..n
  <2>1. \A c \in 1..n : q.calls[c].state \in {"ready", "completed", "awaiting"}
    BY <1>0, CallFacts
  <2>2. \A c \in 1..n : q.calls[c].state # "awaiting"
    BY <1>0 DEF In
  <2> QED
    BY <1>0, <2>1, <2>2 DEF In
<1>2. PICK S : S = ReadyStages(q)
  OBVIOUS
<1>3. /\ S \in Seq(SUBSET (1..n)) /\ Len(S) \in Nat
      /\ \A i \in 1..Len(S) : S[i] # {} /\ S[i] \subseteq R
      /\ \A i, j \in 1..Len(S) : i # j => S[i] \cap S[j] = {}
      /\ \A c \in R : \E i \in 1..Len(S) : c \in S[i]
      /\ Len(S) # 0 => \A c \in S[1], b \in R :
            b < c => <<q.calls[b].prep, q.calls[c].prep>> \notin Conflict
  BY <1>0, <1>2, ReadyStagesPartition, LenProperties
<1>4. /\ r.steps = q.steps /\ r.history = q.history /\ r.prior = q.prior
      /\ r.calls = q.calls /\ r.approvals = q.approvals
      /\ r.stages = (IF D = {} THEN <<>> ELSE <<D>>) \o S
      /\ r.index = IF D = {} THEN 0 ELSE 1
      /\ r = [q EXCEPT !.stages = r.stages, !.index = r.index]
  BY <1>0, <1>2 DEF Restage, Checkpoint
<1> DEFINE o == IF D = {} THEN 0 ELSE 1
<1>5. /\ r.stages \in Seq(SUBSET (1..n)) /\ Len(r.stages) = o + Len(S)
      /\ D # {} => r.stages[1] = D
      /\ \A i \in 1..Len(S) : r.stages[o + i] = S[i]
  <2>0. \A c \in D : c \in 1..n
    BY <1>1
  <2>1. PICK T : T = IF D = {} THEN <<>> ELSE <<D>>
    OBVIOUS
  <2>2. T \in Seq(SUBSET (1..n)) /\ Len(T) = o /\ (D # {} => T[1] = D)
    <3>1. D \in SUBSET (1..n)
      BY <2>0
    <3> HIDE DEF D
    <3>2. CASE D = {}
      BY <2>1, <3>2
    <3>3. CASE D # {}
      <4>1. T = <<D>> /\ o = 1
        BY <2>1, <3>3
      <4> QED
        BY <3>1, <4>1
    <3> QED
      BY <3>2, <3>3
  <2>3. r.stages = T \o S
    BY <1>4, <2>1
  <2> HIDE DEF o, D, R
  <2>4. /\ T \o S \in Seq(SUBSET (1..n)) /\ Len(T \o S) = Len(T) + Len(S)
        /\ \A i \in 1..(Len(T) + Len(S)) : (T \o S)[i] = IF i <= Len(T) THEN T[i] ELSE S[i - Len(T)]
    <3>1. PICK U : U = SUBSET (1..n)
      OBVIOUS
    <3>2. T \in Seq(U) /\ S \in Seq(U)
      BY <1>3, <2>2, <3>1
    <3>3. /\ T \o S \in Seq(U) /\ Len(T \o S) = Len(T) + Len(S)
          /\ \A i \in 1..(Len(T) + Len(S)) : (T \o S)[i] = IF i <= Len(T) THEN T[i] ELSE S[i - Len(T)]
      BY <3>2, ConcatProperties
    <3> QED
      BY <3>1, <3>3
  <2>5. o \in Nat /\ (D # {} => o = 1)
    BY DEF o
  <2>6. ASSUME NEW i \in 1..Len(S) PROVE r.stages[o + i] = S[i]
    <3>1. o + i \in 1..(o + Len(S)) /\ ~(o + i <= o) /\ (o + i) - o = i
      BY <1>3, <2>5
    <3> QED
      BY <2>2, <2>3, <2>4, <3>1
  <2>7. ASSUME D # {} PROVE r.stages[1] = D
    <3>1. 1 \in 1..(o + Len(S)) /\ 1 <= o
      BY <1>3, <2>5, <2>7
    <3> QED
      BY <2>2, <2>3, <2>4, <2>7, <3>1
  <2> QED
    BY <2>2, <2>3, <2>4, <2>6, <2>7
<1>6. \A i \in 1..Len(r.stages) : (D # {} /\ i = 1) \/ (i - o \in 1..Len(S) /\ r.stages[i] = S[i - o])
  <2> SUFFICES ASSUME NEW i \in 1..Len(r.stages), ~(D # {} /\ i = 1)
               PROVE  i - o \in 1..Len(S) /\ r.stages[i] = S[i - o]
    OBVIOUS
  <2>1. i - o \in 1..Len(S) /\ o + (i - o) = i
    BY <1>3, <1>5
  <2> HIDE DEF o
  <2> QED
    BY <1>5, <2>1
<1>7. DOMAIN r.stages = 1..Len(r.stages)
  BY <1>5
<1>8. ASSUME NEW i \in 1..Len(r.stages)
      PROVE  /\ r.stages[i] # {} /\ r.stages[i] \subseteq 1..n
             /\ i <= o => r.stages[i] = D
             /\ i > o => r.stages[i] \subseteq R /\ i - o \in 1..Len(S) /\ r.stages[i] = S[i - o]
  <2>1. CASE D # {} /\ i = 1
    BY <1>1, <1>5, <2>1
  <2>2. CASE ~(D # {} /\ i = 1)
    <3>1. i - o \in 1..Len(S) /\ r.stages[i] = S[i - o]
      BY <1>6, <2>2
    <3>2. S[i - o] # {} /\ S[i - o] \subseteq R
      <4> HIDE DEF o, R
      <4> QED
        BY <1>3, <3>1
    <3>3. ~(i <= o)
      BY <3>1, <1>3
    <3> HIDE DEF o, R, D
    <3> QED
      BY <1>1, <3>1, <3>2, <3>3
  <2> QED
    BY <2>1, <2>2
<1>o. o \in 0..1 /\ r.index = o /\ (D = {} <=> o = 0)
  <2> HIDE DEF D
  <2>1. r.index = o
    BY <1>4
  <2>2. o \in 0..1 /\ (D = {} <=> o = 0)
    OBVIOUS
  <2> QED
    BY <2>1, <2>2
<1> HIDE DEF o, D, R
<1>9. StagesPartition(r)
  <2>1. ASSUME NEW i \in DOMAIN r.stages, NEW j \in DOMAIN r.stages, i # j
        PROVE  r.stages[i] \cap r.stages[j] = {}
    <3>0. i \in 1..Len(r.stages) /\ j \in 1..Len(r.stages) /\ i \in Nat /\ j \in Nat
      BY <1>7
    <3>1. CASE i <= o
      <4>1. ~(j <= o)
        BY <2>1, <3>0, <3>1, <1>o
      <4> QED
        BY <1>1, <1>8, <1>o, <3>0, <3>1, <4>1
    <3>2. CASE j <= o
      <4>1. ~(i <= o)
        BY <2>1, <3>0, <3>2, <1>o
      <4> QED
        BY <1>1, <1>8, <1>o, <3>0, <3>2, <4>1
    <3>3. CASE ~(i <= o) /\ ~(j <= o)
      <4>1. i > o /\ j > o /\ i - o # j - o
        BY <2>1, <3>0, <3>3, <1>o
      <4> QED
        <5>1. PICK a, b : a = i - o /\ b = j - o
          OBVIOUS
        <5>2. a \in 1..Len(S) /\ b \in 1..Len(S) /\ r.stages[i] = S[a] /\ r.stages[j] = S[b]
          BY <1>8, <3>0, <4>1, <5>1
        <5> QED
          BY <1>3, <4>1, <5>1, <5>2
    <3> QED
      BY <3>1, <3>2, <3>3
  <2>2. ASSUME NEW c \in 1..n PROVE \E i \in DOMAIN r.stages : c \in r.stages[i]
    <3>1. CASE c \in D
      <4>1. r.stages[1] = D /\ 1 \in 1..Len(r.stages)
        BY <1>3, <1>5, <1>o, <3>1
      <4> QED
        BY <1>7, <3>1, <4>1
    <3>2. CASE c \in R
      <4>1. PICK i \in 1..Len(S) : c \in S[i]
        BY <1>3, <3>2
      <4>2. o + i \in 1..Len(r.stages) /\ r.stages[o + i] = S[i]
        BY <1>3, <1>5, <1>o
      <4> QED
        BY <1>7, <4>1, <4>2
    <3> QED
      BY <1>1, <3>1, <3>2
  <2>3. UNION {r.stages[i] : i \in DOMAIN r.stages} = 1..n
    <3>1. \A i \in DOMAIN r.stages : r.stages[i] \subseteq 1..n
      BY <1>7, <1>8
    <3> QED
      BY <2>2, <3>1
  <2>4. \A i \in DOMAIN r.stages : r.stages[i] # {}
    BY <1>7, <1>8
  <2> QED
    BY <1>0, <1>4, <2>1, <2>3, <2>4 DEF StagesPartition
<1>10. CursorAgrees(r)
  <2> SUFFICES ASSUME NEW i \in DOMAIN r.stages, NEW c \in r.stages[i]
               PROVE  /\ i <= r.index => r.calls[c].state = "completed"
                      /\ i > r.index + 1 => r.calls[c].state = "ready"
    BY DEF CursorAgrees
  <2>0. i \in 1..Len(r.stages) /\ i \in Nat
    BY <1>7
  <2>1. i <= o => c \in D
    BY <1>8, <2>0
  <2>2. i > o => c \in R
    BY <1>8, <2>0
  <2>3. i > r.index + 1 => i > o
    BY <1>o, <2>0
  <2> QED
    BY <1>4, <1>o, <2>1, <2>2, <2>3 DEF D, R, In
<1>11. r.stages # <<>> /\ r.index <= Len(r.stages)
  <2>1. \E i \in DOMAIN r.stages : 1 \in r.stages[i]
    <3>1. UNION {r.stages[i] : i \in DOMAIN r.stages} = 1..n
      BY <1>0, <1>4, <1>9 DEF StagesPartition
    <3>2. 1 \in UNION {r.stages[i] : i \in DOMAIN r.stages}
      BY <1>1, <3>1
    <3> QED
      BY <3>2
  <2>2. r.stages # <<>>
    BY <2>1
  <2> QED
    BY <1>3, <1>5, <1>o, <2>2
<1>12. ASSUME r.index < Len(r.stages), NEW c \in r.stages[r.index + 1]
       PROVE  /\ r.calls[c].state = "ready"
              /\ \A b \in In(r, "ready") :
                   b < c => <<r.calls[b].prep, r.calls[c].prep>> \notin Conflict
  <2>1. o + 1 \in 1..Len(r.stages) /\ o + 1 > o /\ (o + 1) - o = 1 /\ r.index + 1 = o + 1
    BY <1>3, <1>5, <1>o, <1>12
  <2>2. r.stages[o + 1] \subseteq R /\ r.stages[o + 1] = S[1] /\ 1 \in 1..Len(S)
    BY <1>8, <2>1
  <2>3. c \in S[1] /\ c \in R /\ Len(S) # 0
    BY <1>3, <1>12, <2>1, <2>2
  <2>4. In(r, "ready") = R
    BY <1>4 DEF R, In
  <2> QED
    BY <1>3, <1>4, <2>3, <2>4 DEF R, In
<1>13. Shape(r, n)
  <2>1. \A T \in SUBSET (1..n) : T \in SUBSET Calls
    <3>1. 1..n \subseteq Calls
      BY <1>0, ConfigType DEF Calls
    <3> QED
      BY <3>1
  <2>2. r.stages \in Seq(SUBSET Calls)
    BY <1>5, <2>1
  <2>3. r.index \in Nat
    BY <1>o
  <2>4. r \in Checkpoint
    BY <1>0, <1>4, <2>2, <2>3 DEF Checkpoint
  <2> QED
    BY <1>0, <1>4, <1>5, <1>o, <2>4 DEF Shape
<1> QED
  BY <1>4, <1>9, <1>10, <1>11, <1>12, <1>13
\* What refresh_ready makes of a held checkpoint none of whose calls awaits an external
\* result: it validates, its approvals are accounted for once the new requests are
\* recorded, and it is settled.
LEMMA RefreshHeld ==
    ASSUME TypeOK, NEW cp, Held(cp), In(cp, "awaiting") = {},
           NEW preps \in [In(cp, "ready") -> config.preps \cup PrepFailures],
           NEW d, d = Recount(Restage(Decided(Recount(Reprepare(cp, preps)))))
    PROVE  /\ CheckpointOK(d) /\ Valid(d) /\ Settled(d)
           /\ DOMAIN d.calls = DOMAIN cp.calls /\ In(d, "ready") \subseteq In(cp, "ready")
           /\ \A c \in DOMAIN d.calls : d.approvals[c] # Null =>
                 /\ ApprovalId(d, c) \in asked \/ c \in Unconfirmed(d)
                 /\ IF d.approvals[c].evidence
                    THEN ApprovalId(d, c) \in confirmed ELSE d.calls[c].state = "ready"
           /\ \A c \in Unconfirmed(d) : ApprovalId(d, c) \in (1..MaxSteps) \X Calls \X Preps \X Policies
<1>1. CheckpointOK(cp) /\ Valid(cp)
  BY DEF Held
<1>2. PICK n \in Calls : Shape(cp, n)
  BY <1>1, OwnShape
<1>3. /\ n \in Nat /\ n >= 1 /\ 1 \in 1..n /\ 1..n \subseteq Calls
      /\ DOMAIN cp.calls = 1..n /\ \A c \in 1..n : CallValid(cp.calls[c])
      /\ cp.calls \in [1..n -> Call] /\ cp.approvals \in [1..n -> Approval \cup {Null}]
      /\ config.maxToolCalls \in Nat /\ used \in Nat /\ config.maxSteps \in 1..MaxSteps
      /\ cp.steps = steps /\ cp.history = history /\ cp.prior = used
      /\ MaxSteps \in Nat
  <2>1. n \in Nat /\ n >= 1 /\ 1 \in 1..n /\ 1..n \subseteq Calls
    BY <1>2, ConfigType DEF Calls
  <2>2. DOMAIN cp.calls = 1..n /\ cp.calls \in [1..n -> Call] /\ cp.approvals \in [1..n -> Approval \cup {Null}]
    BY <1>2 DEF Shape
  <2>3. \A c \in 1..n : CallValid(cp.calls[c])
    BY <1>1, <2>2 DEF Valid
  <2>4. config.maxToolCalls \in Nat /\ config.maxSteps \in 1..MaxSteps /\ MaxSteps \in Nat
    BY ConfigType
  <2>5. used \in Nat
    BY <2>4 DEF TypeOK
  <2>6. cp.steps = steps /\ cp.history = history /\ cp.prior = used
    BY <1>1 DEF CheckpointOK
  <2> QED
    BY <2>1, <2>2, <2>3, <2>4, <2>5, <2>6
<1>4. PICK p : p = Recount(Reprepare(cp, preps))
  OBVIOUS
<1>5. PICK q : q = Decided(p)
  OBVIOUS
<1>6. PICK r : r = Restage(q)
  OBVIOUS
<1>7. d = Recount(r)
  BY <1>4, <1>5, <1>6
<1>8. /\ Shape(p, n) /\ p.used = p.prior + Charged(p)
      /\ p.steps = cp.steps /\ p.history = cp.history /\ p.prior = cp.prior
      /\ \A c \in 1..n :
            \/ /\ cp.calls[c].state # "ready"
               /\ p.calls[c] = cp.calls[c] /\ p.approvals[c] = cp.approvals[c]
            \/ /\ cp.calls[c].state = "ready"
               /\ \E x \in Preps : p.calls[c] = Ready(x) /\ p.approvals[c] = cp.approvals[c]
            \/ /\ cp.calls[c].state = "ready"
               /\ p.calls[c] = Feedback(Null) /\ p.approvals[c] = Null
  BY <1>2, <1>3, <1>4, ReprepareIs
<1>9. \A c \in 1..n : p.calls[c].state = "ready" => p.calls[c].prep \in Preps
  <2> SUFFICES ASSUME NEW c \in 1..n, p.calls[c].state = "ready"
               PROVE  p.calls[c].prep \in Preps
    OBVIOUS
  <2>1. p.calls[c] # Feedback(Null)
    BY CallTypes
  <2>2. p.calls[c] = cp.calls[c] => cp.calls[c].state = "ready"
    OBVIOUS
  <2>3. PICK x \in Preps : p.calls[c] = Ready(x)
    BY <1>8, <2>1, <2>2
  <2> QED
    BY <2>3, CallTypes
<1>10. /\ Shape(q, n)
       /\ q.steps = p.steps /\ q.history = p.history /\ q.prior = p.prior
       /\ \A c \in 1..n :
             \/ /\ p.calls[c].state # "ready"
                /\ q.calls[c] = p.calls[c] /\ q.approvals[c] = p.approvals[c]
             \/ /\ p.calls[c].state = "ready" /\ Decision(p, c) = "deny"
                /\ q.calls[c] = Feedback(p.calls[c].prep) /\ q.approvals[c] = Null
             \/ /\ p.calls[c].state = "ready" /\ Decision(p, c) = "ask"
                /\ q.calls[c] = p.calls[c] /\ q.approvals[c] = Request(p, c)
             \/ /\ p.calls[c].state = "ready" /\ Decision(p, c) = "allow"
                /\ q.calls[c] = p.calls[c] /\ q.approvals[c] = Null
  BY <1>5, <1>8, <1>9, DecidedIs, SMTT(30)
\* Every call of the batch ended in one of these three ways.
<1> DEFINE Same(c) == /\ cp.calls[c].state # "ready"
                      /\ q.calls[c] = cp.calls[c] /\ q.approvals[c] = cp.approvals[c]
           Out(c) == /\ \E x \in Preps \cup {Null} : q.calls[c] = Feedback(x)
                     /\ q.approvals[c] = Null
           Go(c) == /\ cp.calls[c].state = "ready"
                    /\ \E x \in Preps :
                         /\ p.calls[c] = Ready(x) /\ q.calls[c] = Ready(x)
                         /\ p.approvals[c] = cp.approvals[c]
                         /\ \/ Decision(p, c) = "ask" /\ q.approvals[c] = Request(p, c)
                            \/ Decision(p, c) = "allow" /\ q.approvals[c] = Null
<1>11. \A c \in 1..n : Same(c) \/ Out(c) \/ Go(c)
  <2> SUFFICES ASSUME NEW c \in 1..n
               PROVE  Same(c) \/ Out(c) \/ Go(c)
    OBVIOUS
  <2>1. CASE cp.calls[c].state # "ready"
    <3>1. p.calls[c] = cp.calls[c] /\ p.approvals[c] = cp.approvals[c]
      BY <1>8, <2>1
    <3>2. q.calls[c] = p.calls[c] /\ q.approvals[c] = p.approvals[c]
      BY <1>10, <2>1, <3>1
    <3> QED
      BY <2>1, <3>1, <3>2
  <2>2. CASE p.calls[c] = Feedback(Null) /\ p.approvals[c] = Null
    <3>1. p.calls[c].state # "ready"
      BY <2>2, CallTypes
    <3>2. q.calls[c] = p.calls[c] /\ q.approvals[c] = p.approvals[c]
      BY <1>10, <3>1
    <3> QED
      BY <2>2, <3>2
  <2>3. CASE /\ cp.calls[c].state = "ready"
             /\ \E x \in Preps : p.calls[c] = Ready(x) /\ p.approvals[c] = cp.approvals[c]
    <3>1. PICK x \in Preps : p.calls[c] = Ready(x) /\ p.approvals[c] = cp.approvals[c]
      BY <2>3
    <3>2. p.calls[c].state = "ready" /\ p.calls[c].prep = x
      BY <3>1, CallTypes
    <3>3. \/ q.calls[c] = Feedback(x) /\ q.approvals[c] = Null
          \/ Decision(p, c) = "ask" /\ q.calls[c] = p.calls[c] /\ q.approvals[c] = Request(p, c)
          \/ Decision(p, c) = "allow" /\ q.calls[c] = p.calls[c] /\ q.approvals[c] = Null
      BY <1>10, <3>2
    <3>4. x \in Preps \cup {Null}
      OBVIOUS
    <3> QED
      BY <2>3, <3>1, <3>3, <3>4
  <2> QED
    BY <1>8, <2>1, <2>2, <2>3
<1>12. \A c \in 1..n : /\ CallValid(q.calls[c]) /\ q.calls[c].state # "awaiting"
                       /\ q.calls[c].state = "ready" => Go(c)
  <2> SUFFICES ASSUME NEW c \in 1..n
               PROVE  /\ CallValid(q.calls[c]) /\ q.calls[c].state # "awaiting"
                      /\ q.calls[c].state = "ready" => Go(c)
    OBVIOUS
  <2>1. CASE Same(c)
    <3>1. cp.calls[c].state # "awaiting"
      BY <1>3 DEF In
    <3> QED
      BY <1>3, <2>1, <3>1
  <2>2. CASE Out(c)
    <3>1. PICK x \in Preps \cup {Null} : q.calls[c] = Feedback(x)
      BY <2>2
    <3>2. CallValid(q.calls[c]) /\ q.calls[c].state = "completed"
      BY <3>1, CallTypes
    <3> QED
      BY <3>2
  <2>3. CASE Go(c)
    <3>1. PICK x \in Preps : q.calls[c] = Ready(x)
      BY <2>3
    <3>2. CallValid(q.calls[c]) /\ q.calls[c].state = "ready"
      BY <3>1, CallTypes
    <3> QED
      BY <2>3, <3>2
  <2> QED
    BY <1>11, <2>1, <2>2, <2>3
<1> HIDE DEF Same, Out, Go
<1>13. In(q, "awaiting") = {}
  <2>1. DOMAIN q.calls = 1..n
    BY <1>10 DEF Shape
  <2> QED
    BY <1>12, <2>1 DEF In
<1>14. /\ Shape(r, n)
       /\ r.steps = q.steps /\ r.history = q.history /\ r.prior = q.prior
       /\ r.calls = q.calls /\ r.approvals = q.approvals
       /\ StagesPartition(r) /\ CursorAgrees(r)
       /\ r.stages # <<>> /\ r.index <= Len(r.stages)
       /\ r.index < Len(r.stages) => \A c \in r.stages[r.index + 1] :
             /\ r.calls[c].state = "ready"
             /\ \A b \in In(r, "ready") :
                  b < c => <<r.calls[b].prep, r.calls[c].prep>> \notin Conflict
  BY <1>6, <1>10, <1>13, RestageIs
<1>15. /\ Shape(d, n) /\ d.steps = steps /\ d.history = history /\ d.prior = used
       /\ d.calls = q.calls /\ d.approvals = q.approvals
       /\ d.stages = r.stages /\ d.index = r.index
       /\ d.used = used + Charged(d)
  BY <1>3, <1>7, <1>8, <1>10, <1>14, RecountIs
<1>16. /\ DOMAIN d.calls = 1..n /\ Charged(d) \in 0..n /\ Cardinality(DOMAIN d.calls) = n
       /\ (\E c \in 1..n : ~d.calls[c].charged) => Charged(d) < n
       /\ used + n <= config.maxToolCalls
  <2>1. DOMAIN d.calls = 1..n
    BY <1>15 DEF Shape
  <2>2. used + n <= config.maxToolCalls
    <3>1. Cardinality(DOMAIN cp.calls) = n
      BY <1>3, ChargedBound
    <3> QED
      BY <1>1, <1>3, <3>1 DEF Valid, BudgetAgrees
  <2> QED
    BY <1>3, <2>1, <2>2, ChargedBound
<1>17. d.used \in used..config.maxToolCalls
  BY <1>3, <1>15, <1>16
<1>18. CheckpointOK(d)
  BY <1>15, <1>17, ShapeOwn
<1>19. \A c \in 1..n : d.approvals[c] # Null => d.approvals[c].prep = d.calls[c].prep
  <2> SUFFICES ASSUME NEW c \in 1..n, q.approvals[c] # Null
               PROVE  q.approvals[c].prep = q.calls[c].prep
    BY <1>15
  <2>1. CASE Same(c)
    BY <1>1, <1>3, <2>1 DEF Same, Valid
  <2>2. CASE Go(c)
    <3>1. PICK x \in Preps : p.calls[c] = Ready(x) /\ q.calls[c] = Ready(x) /\ q.approvals[c] = Request(p, c)
      BY <2>2 DEF Go
    <3>2. Request(p, c).prep = p.calls[c].prep
      BY DEF Request
    <3> QED
      BY <3>1, <3>2
  <2> QED
    BY <1>11, <2>1, <2>2 DEF Out
<1>20. Valid(d)
  <2>1. d.calls # <<>>
    BY <1>3, <1>16
  <2>2. \A c \in DOMAIN d.calls : CallValid(d.calls[c])
    BY <1>12, <1>15, <1>16
  <2>3. In(d, "awaiting") = {}
    BY <1>13, <1>15 DEF In
  <2>4. StagesPartition(d) /\ CursorAgrees(d)
    BY <1>14, <1>15 DEF StagesPartition, CursorAgrees
  <2>5. BudgetAgrees(d)
    <3>1. Total(history) = used
      BY <1>1, <1>3 DEF Valid, BudgetAgrees
    <3> QED
      BY <1>3, <1>15, <1>16, <3>1 DEF BudgetAgrees
  <2>6. d.steps \in 1..config.maxSteps /\ Len(d.history) = d.steps - 1
    BY <1>1, <1>3, <1>15 DEF Valid
  <2>7. d.stages # <<>> /\ d.index <= Len(d.stages)
    BY <1>14, <1>15
  <2>8. \A c, e \in In(d, "awaiting") : c # e => d.calls[c].got # d.calls[e].got
    BY <2>3
  <2>9. \A c \in DOMAIN d.calls : d.approvals[c] # Null => d.approvals[c].prep = d.calls[c].prep
    BY <1>16, <1>19
  <2> HIDE DEF Same, Out, Go
  <2> QED
    BY <2>1, <2>2, <2>4, <2>5, <2>6, <2>7, <2>8, <2>9 DEF Valid
<1>21. ASSUME NEW c \in In(d, "ready")
       PROVE  /\ c \in 1..n /\ Go(c) /\ Decision(d, c) = Decision(p, c)
  <2>1. c \in 1..n /\ q.calls[c].state = "ready"
    BY <1>15, <1>16 DEF In
  <2>2. Go(c)
    BY <1>12, <2>1
  <2>3. PICK x \in Preps : p.calls[c] = Ready(x) /\ q.calls[c] = Ready(x) /\ Decision(p, c) # "deny"
    BY <2>2 DEF Go
  <2>4. ~d.calls[c].charged /\ d.calls[c].prep = x /\ p.calls[c].prep = x
    BY <1>15, <2>3, CallTypes
  <2>5. ~(d.used >= config.maxToolCalls)
    <3>1. Charged(d) < n
      BY <1>16, <2>1, <2>4
    <3> QED
      BY <1>3, <1>15, <1>16, <3>1
  <2>6. Decision(d, c) = Decide[policy][x]
    BY <2>4, <2>5 DEF Decision
  <2>7. Decision(p, c) = Decide[policy][x]
    BY <2>3, <2>4 DEF Decision
  <2> QED
    BY <2>1, <2>2, <2>6, <2>7
<1>22. Settled(d)
  <2>1. In(d, "awaiting") = {}
    BY <1>13, <1>15 DEF In
  <2>2. ASSUME NEW c \in In(d, "ready")
        PROVE  /\ Decision(d, c) # "deny"
               /\ Decision(d, c) = "allow" => d.approvals[c] = Null
    <3>1. Decision(d, c) = Decision(p, c) /\ Go(c)
      BY <1>21
    <3>2. \/ Decision(p, c) = "ask"
          \/ Decision(p, c) = "allow" /\ q.approvals[c] = Null
      BY <3>1 DEF Go
    <3> QED
      BY <1>15, <3>1, <3>2
  <2>3. d.index < Len(d.stages) => \A c \in d.stages[d.index + 1] :
           /\ d.calls[c].state = "ready"
           /\ \A b \in In(d, "ready") :
                b < c => <<d.calls[b].prep, d.calls[c].prep>> \notin Conflict
    <3>1. In(d, "ready") = In(r, "ready")
      BY <1>14, <1>15 DEF In
    <3> QED
      BY <1>14, <1>15, <3>1
  <2> QED
    BY <2>1, <2>2, <2>3 DEF Settled
<1>23. In(d, "ready") \subseteq In(cp, "ready")
  <2> SUFFICES ASSUME NEW c \in In(d, "ready")
               PROVE  c \in In(cp, "ready")
    OBVIOUS
  <2>1. c \in 1..n /\ Go(c)
    BY <1>21
  <2> QED
    BY <1>3, <2>1 DEF Go, In
<1>24. ASSUME NEW c \in DOMAIN d.calls, d.approvals[c] # Null
       PROVE  /\ ApprovalId(d, c) \in asked \/ c \in Unconfirmed(d)
              /\ IF d.approvals[c].evidence
                 THEN ApprovalId(d, c) \in confirmed ELSE d.calls[c].state = "ready"
  <2>0. c \in 1..n /\ q.approvals[c] # Null
    BY <1>15, <1>16, <1>24
  <2>1. CASE Same(c)
    <3>1. d.approvals[c] = cp.approvals[c] /\ cp.calls[c].state # "ready" /\ c \in DOMAIN cp.calls
      BY <1>3, <1>15, <2>0, <2>1 DEF Same
    <3>2. ApprovalId(d, c) = ApprovalId(cp, c)
      BY <1>3, <1>15, <3>1 DEF ApprovalId
    <3> QED
      BY <1>24, <3>1, <3>2 DEF Held
  <2>2. CASE Go(c)
    <3>1. PICK x \in Preps : /\ p.calls[c] = Ready(x) /\ q.calls[c] = Ready(x)
                             /\ p.approvals[c] = cp.approvals[c] /\ q.approvals[c] = Request(p, c)
      BY <2>0, <2>2 DEF Go
    <3>2. d.calls[c].state = "ready" /\ c \in In(d, "ready")
      BY <1>15, <1>16, <2>0, <3>1, CallTypes DEF In
    <3>3. CASE q.approvals[c] = p.approvals[c]
      <4>1. d.approvals[c] = cp.approvals[c] /\ c \in DOMAIN cp.calls
        BY <1>3, <1>15, <2>0, <3>1, <3>3
      <4>2. ApprovalId(d, c) = ApprovalId(cp, c)
        BY <1>3, <1>15, <4>1 DEF ApprovalId
      <4> QED
        BY <1>24, <3>2, <4>1, <4>2 DEF Held
    <3>4. CASE q.approvals[c] # p.approvals[c]
      <4>1. ~q.approvals[c].evidence
        BY <3>1, <3>4 DEF Request
      <4> QED
        BY <1>15, <1>24, <3>2, <4>1 DEF Unconfirmed
    <3> QED
      BY <3>3, <3>4
  <2> QED
    BY <1>11, <2>0, <2>1, <2>2 DEF Out
<1>25. ASSUME NEW c \in Unconfirmed(d)
       PROVE  ApprovalId(d, c) \in (1..MaxSteps) \X Calls \X Preps \X Policies
  <2>1. c \in 1..n /\ d.approvals[c] # Null
    BY <1>16 DEF Unconfirmed, In
  <2>2. d.approvals[c] \in Approval
    BY <1>15, <2>1 DEF Shape
  <2>3. d.steps \in 1..MaxSteps
    <3>1. d.steps \in 1..config.maxSteps
      BY <1>20 DEF Valid
    <3> QED
      BY <1>3, <3>1
  <2>4. c \in Calls
    BY <1>3, <2>1
  <2>5. d.approvals[c].prep \in Preps /\ d.approvals[c].policy \in Policies
    BY <2>2 DEF Approval
  <2> QED
    BY <2>3, <2>4, <2>5 DEF ApprovalId
<1> QED
  BY <1>3, <1>16, <1>18, <1>20, <1>22, <1>23, <1>24, <1>25
\* An observation that does not end the Turn is an outcome or an external wait.
LEMMA FatalNull ==
    ASSUME NEW o \in Seen \cup Waits, o \notin {"admit", "running"}, Fatal(o) = Null
    PROVE  o \in {"ok", "error"} \cup Waits
<1>1. "uncertain" # Null /\ "cancelled" # Null /\ "timed_out" # Null /\ "failed" # Null
  BY EngineAssumption DEF Outcomes
<1>2. o # "uncertain"
  <2> SUFFICES ASSUME o = "uncertain" PROVE FALSE
    OBVIOUS
  <2> QED
    BY <1>1 DEF Fatal
<1>3. o # "cancelled" /\ o # "timed_out"
  <2> SUFFICES ASSUME o \in {"cancelled", "timed_out"} PROVE FALSE
    OBVIOUS
  <2> QED
    BY <1>1 DEF Fatal
<1>4. o # "refused" /\ o # "invalid"
  <2> SUFFICES ASSUME o \in {"refused", "invalid"} PROVE FALSE
    OBVIOUS
  <2> QED
    BY <1>1 DEF Fatal
<1> QED
  BY <1>2, <1>3, <1>4 DEF Seen

\* What a dispatched call becomes when its observation does not end the Turn.
LEMMA ObservedIs ==
    ASSUME TypeOK, NEW c, pending.calls[c].prep \in Preps, flight[c] \in {"ok", "error"} \cup Waits
    PROVE  /\ Observed(c) \in Call /\ CallValid(Observed(c)) /\ Observed(c).charged
           /\ Observed(c).state \in {"awaiting", "completed"}
           /\ Observed(c).state = "awaiting" => flight[c] \in Waits
           /\ Observed(c).got = flight[c] /\ Observed(c).prep = pending.calls[c].prep
<1>1. PICK x, o, a : x = pending.calls[c].prep /\ o = flight[c] /\ a = Issued(c)
  OBVIOUS
<1>2. a \in Authority /\ a.prep = x /\ a # Null
  <2>1. (Decision(pending, c) = "ask") \in BOOLEAN /\ policy \in Policies
    BY DEF TypeOK
  <2>2. a \in Authority
    BY <1>1, <2>1 DEF Issued, Authority
  <2> QED
    BY <1>1, <2>2, EngineAssumption DEF Issued
<1>3. PICK s : s = IF o \in Waits THEN "awaiting" ELSE "completed"
  OBVIOUS
<1>4. PICK b : b = Observed(c)
  OBVIOUS
<1>5. b = [state |-> s, charged |-> TRUE, prep |-> x, issued |-> a, got |-> o]
  BY <1>1, <1>3, <1>4 DEF Observed
<1>6. b.state = s /\ b.charged = TRUE /\ b.prep = x /\ b.issued = a /\ b.got = o
  BY <1>5
<1>7. b \in Call
  <2>1. CASE o \in Waits
    BY <1>1, <1>2, <1>3, <1>5, <2>1 DEF Call
  <2>2. CASE o \notin Waits
    BY <1>1, <1>2, <1>3, <1>5, <2>2 DEF Call
  <2> QED
    BY <2>1, <2>2
<1>8. CallValid(b)
  <2>1. CASE s = "awaiting"
    BY <1>2, <1>6, <2>1 DEF CallValid
  <2>2. CASE s = "completed"
    BY <1>2, <1>6, <2>2 DEF CallValid
  <2> QED
    BY <1>3, <2>1, <2>2
<1> QED
  BY <1>1, <1>3, <1>4, <1>6, <1>7, <1>8

\* Decisions of the policy in force are three.
LEMMA DecisionType ==
    ASSUME TypeOK, NEW cp, NEW c, cp.calls[c].prep \in Preps
    PROVE  Decision(cp, c) \in {"allow", "ask", "deny"}
<1>1. Decide[policy][cp.calls[c].prep] \in Decisions
  BY EngineAssumption DEF TypeOK
<1> QED
  BY <1>1 DEF Decision, Decisions

\* The facts every held checkpoint gives.
LEMMA HeldFacts ==
    ASSUME TypeOK, NEW cp, Held(cp)
    PROVE  \E n \in Calls :
              /\ Shape(cp, n) /\ n \in Nat /\ n >= 1 /\ 1 \in 1..n /\ 1..n \subseteq Calls
              /\ DOMAIN cp.calls = 1..n /\ \A c \in 1..n : CallValid(cp.calls[c])
              /\ DOMAIN cp.approvals = 1..n /\ cp \in Checkpoint
              /\ cp.calls \in [1..n -> Call] /\ cp.approvals \in [1..n -> Approval \cup {Null}]
              /\ config.maxToolCalls \in Nat /\ used \in Nat /\ used + n <= config.maxToolCalls
              /\ config.maxSteps \in 1..MaxSteps /\ MaxSteps \in Nat
              /\ cp.steps = steps /\ cp.history = history /\ cp.prior = used
              /\ cp.used = used + Charged(cp) /\ Charged(cp) \in 0..n
              /\ Total(history) = used /\ steps = Len(history) + 1 /\ steps \in 1..config.maxSteps
              /\ history \in Seq(Calls) /\ Len(history) \in Nat
              /\ Cardinality(DOMAIN cp.calls) = n
<1>1. CheckpointOK(cp) /\ Valid(cp)
  BY DEF Held
<1>2. PICK n \in Calls : Shape(cp, n)
  BY <1>1, OwnShape
<1>3. n \in Nat /\ n >= 1 /\ 1 \in 1..n /\ 1..n \subseteq Calls
  BY <1>2, ConfigType DEF Calls
<1>4. /\ DOMAIN cp.calls = 1..n /\ cp.calls \in [1..n -> Call] /\ cp \in Checkpoint
      /\ DOMAIN cp.approvals = 1..n /\ cp.approvals \in [1..n -> Approval \cup {Null}]
  BY <1>2 DEF Shape
<1>5. \A c \in 1..n : CallValid(cp.calls[c])
  BY <1>1, <1>4 DEF Valid
<1>6. /\ config.maxToolCalls \in Nat /\ config.maxSteps \in 1..MaxSteps /\ MaxSteps \in Nat
      /\ config.maxSteps \in Nat
  BY ConfigType
<1>7. used \in Nat /\ history \in Seq(Calls) /\ steps \in 0..config.maxSteps
  BY <1>6 DEF TypeOK
<1>8. cp.steps = steps /\ cp.history = history /\ cp.prior = used
  BY <1>1 DEF CheckpointOK
<1>9. Cardinality(DOMAIN cp.calls) = n /\ Charged(cp) \in 0..n
  BY <1>3, <1>4, ChargedBound
<1>10. used + n <= config.maxToolCalls /\ Total(history) = used /\ cp.used = used + Charged(cp)
  BY <1>1, <1>8, <1>9 DEF Valid, BudgetAgrees
<1>11. Len(history) \in Nat
  BY <1>7, LenProperties
<1>12. steps = Len(history) + 1 /\ steps \in 1..config.maxSteps
  <2>1. cp.steps \in 1..config.maxSteps /\ Len(cp.history) = cp.steps - 1
    BY <1>1 DEF Valid
  <2> QED
    BY <1>6, <1>7, <1>8, <1>11, <2>1
<1> QED
  BY <1>2, <1>3, <1>4, <1>5, <1>6, <1>7, <1>8, <1>9, <1>10, <1>11, <1>12

\* While a call of a valid checkpoint is ready, the budget is not used up.
LEMMA ReadyWithinBudget ==
    ASSUME TypeOK, NEW cp, Held(cp), In(cp, "ready") # {}
    PROVE  cp.used < config.maxToolCalls
<1>1. PICK n \in Calls :
         /\ n \in Nat /\ DOMAIN cp.calls = 1..n /\ \A c \in 1..n : CallValid(cp.calls[c])
         /\ cp.calls \in [1..n -> Call] /\ config.maxToolCalls \in Nat /\ used \in Nat
         /\ used + n <= config.maxToolCalls /\ cp.used = used + Charged(cp)
  BY HeldFacts
<1>2. PICK c \in 1..n : cp.calls[c].state = "ready"
  BY <1>1 DEF In
<1>3. ~cp.calls[c].charged
  BY <1>1, <1>2, CallFacts
<1>4. Charged(cp) < n /\ Charged(cp) \in Nat
  BY <1>1, <1>3, ChargedBound
<1> QED
  BY <1>1, <1>4

\* A dispatched call is a ready call of the stage at the cursor; it is not denied, and if
\* it needs an approval, none of the batch is outstanding.
LEMMA FlightFacts ==
    ASSUME TypeOK, NEW cp, Held(cp), Settled(cp), cp.index < Len(cp.stages), NEW c \in Runnable(cp)
    PROVE  /\ c \in In(cp, "ready") /\ c \in DOMAIN cp.calls /\ cp.calls[c].prep \in Preps
           /\ c \in cp.stages[cp.index + 1] /\ cp.index + 1 \in DOMAIN cp.stages
           /\ \/ Decision(cp, c) = "allow" /\ cp.approvals[c] = Null
              \/ Decision(cp, c) = "ask" /\ \A e \in DOMAIN cp.calls : cp.approvals[e] # Null => cp.approvals[e].evidence
<1>1. PICK n \in Calls :
         /\ Shape(cp, n) /\ n \in Nat /\ DOMAIN cp.calls = 1..n
         /\ \A e \in 1..n : CallValid(cp.calls[e]) /\ cp.calls[e] \in Call
  <2>1. PICK n \in Calls : /\ Shape(cp, n) /\ n \in Nat /\ DOMAIN cp.calls = 1..n
                           /\ \A e \in 1..n : CallValid(cp.calls[e])
                           /\ cp.calls \in [1..n -> Call]
    BY HeldFacts
  <2> QED
    BY <2>1
<1>2. cp.index + 1 \in DOMAIN cp.stages /\ cp.stages[cp.index + 1] \in SUBSET (1..n)
  <2>1. cp.stages \in Seq(SUBSET (1..n)) /\ cp.index \in 0..1
    BY <1>1 DEF Shape
  <2>2. cp.index + 1 \in 1..Len(cp.stages) /\ DOMAIN cp.stages = 1..Len(cp.stages)
    BY <2>1, LenProperties
  <2> QED
    BY <2>1, <2>2, ElementOfSeq
<1>3. /\ c \in cp.stages[cp.index + 1] /\ cp.calls[c].state = "ready" /\ c \in 1..n
      /\ ~(Decision(cp, c) = "ask" /\ \E e \in DOMAIN cp.calls : cp.approvals[e] # Null /\ ~cp.approvals[e].evidence)
  BY <1>2 DEF Runnable
<1>4. c \in In(cp, "ready") /\ cp.calls[c].prep \in Preps
  BY <1>1, <1>3, CallFacts DEF In
<1>5. Decision(cp, c) \in {"allow", "ask"} /\ (Decision(cp, c) = "allow" => cp.approvals[c] = Null)
  BY <1>4, DecisionType DEF Settled
<1> QED
  BY <1>1, <1>2, <1>3, <1>4, <1>5

\* Whether the stages partition the calls depends on these two alone.
LEMMA SamePlan ==
    ASSUME NEW a, NEW b, b.stages = a.stages, DOMAIN b.calls = DOMAIN a.calls, StagesPartition(a)
    PROVE  StagesPartition(b)
<1>1. PICK S, D : S = a.stages /\ D = DOMAIN a.calls
  OBVIOUS
<1>2. /\ \A i \in DOMAIN S : S[i] # {}
      /\ \A i, j \in DOMAIN S : i # j => S[i] \cap S[j] = {}
      /\ UNION {S[i] : i \in DOMAIN S} = D
  BY <1>1 DEF StagesPartition
<1>3. S = b.stages /\ D = DOMAIN b.calls
  BY <1>1
<1> QED
  BY <1>2, <1>3 DEF StagesPartition

\* What collect makes of a checkpoint.
Collected(cp) ==
    Recount([cp EXCEPT !.calls = [c \in DOMAIN @ |-> IF c \in DOMAIN flight THEN Observed(c) ELSE @[c]]])

\* The checkpoint the end of a stage builds is the run's own; it validates unless two
\* calls await the same external result.
LEMMA CollectHeld ==
    ASSUME TypeOK, NEW cp, pending = cp, Held(cp), Settled(cp), cp.index < Len(cp.stages),
           flight \in [Runnable(cp) -> Seen \cup Waits],
           \A c \in DOMAIN flight : flight[c] \notin {"admit", "running"} /\ Fatal(flight[c]) = Null,
           NEW d, d = Collected(cp)
    PROVE  /\ CheckpointOK(d)
           /\ DOMAIN d.calls = DOMAIN cp.calls /\ In(d, "ready") \subseteq In(cp, "ready") \ DOMAIN flight
           /\ \A c \in DOMAIN d.calls : d.approvals[c] # Null =>
                 /\ ApprovalId(d, c) \in asked
                 /\ IF d.approvals[c].evidence
                    THEN ApprovalId(d, c) \in confirmed ELSE d.calls[c].state = "ready"
           /\ (\A c, e \in DOMAIN flight : c # e /\ flight[c] \in Waits => flight[c] # flight[e]) => Valid(d)
<1> USE DEF Collected
<1>1. PICK n \in Calls :
              /\ Shape(cp, n) /\ n \in Nat /\ n >= 1 /\ 1 \in 1..n /\ 1..n \subseteq Calls
              /\ DOMAIN cp.calls = 1..n /\ \A c \in 1..n : CallValid(cp.calls[c])
              /\ DOMAIN cp.approvals = 1..n /\ cp \in Checkpoint
              /\ cp.calls \in [1..n -> Call] /\ cp.approvals \in [1..n -> Approval \cup {Null}]
              /\ config.maxToolCalls \in Nat /\ used \in Nat /\ used + n <= config.maxToolCalls
              /\ cp.steps = steps /\ cp.history = history /\ cp.prior = used
              /\ Total(history) = used /\ steps = Len(history) + 1 /\ steps \in 1..config.maxSteps
              /\ Len(history) \in Nat
  BY HeldFacts
<1>2. \A c \in DOMAIN flight :
         /\ c \in In(cp, "ready") /\ c \in 1..n /\ cp.calls[c].prep \in Preps
         /\ c \in cp.stages[cp.index + 1] /\ cp.index + 1 \in DOMAIN cp.stages
         /\ \/ Decision(cp, c) = "allow" /\ cp.approvals[c] = Null
            \/ Decision(cp, c) = "ask" /\ \A e \in 1..n : cp.approvals[e] # Null => cp.approvals[e].evidence
  <2>1. DOMAIN flight = Runnable(cp)
    OBVIOUS
  <2> QED
    BY <1>1, <2>1, FlightFacts
<1>3. \A c \in DOMAIN flight :
         /\ Observed(c) \in Call /\ CallValid(Observed(c)) /\ Observed(c).charged
         /\ Observed(c).state \in {"awaiting", "completed"}
         /\ Observed(c).state = "awaiting" => flight[c] \in Waits
         /\ Observed(c).got = flight[c] /\ Observed(c).prep = cp.calls[c].prep
  <2> SUFFICES ASSUME NEW c \in DOMAIN flight
               PROVE  /\ Observed(c) \in Call /\ CallValid(Observed(c)) /\ Observed(c).charged
                      /\ Observed(c).state \in {"awaiting", "completed"}
                      /\ Observed(c).state = "awaiting" => flight[c] \in Waits
                      /\ Observed(c).got = flight[c] /\ Observed(c).prep = cp.calls[c].prep
    OBVIOUS
  <2>1. flight[c] \in Seen \cup Waits
    OBVIOUS
  <2>2. flight[c] \in {"ok", "error"} \cup Waits
    BY <2>1, FatalNull
  <2>3. pending.calls[c].prep \in Preps
    BY <1>2
  <2> QED
    BY <2>2, <2>3, ObservedIs
<1> DEFINE New(c) == IF c \in DOMAIN flight THEN Observed(c) ELSE cp.calls[c]
<1>4. PICK q : q = [cp EXCEPT
                    !.calls = [c \in DOMAIN @ |-> IF c \in DOMAIN flight THEN Observed(c) ELSE @[c]]]
  OBVIOUS
<1>5. /\ q.calls = [c \in 1..n |-> New(c)] /\ q.approvals = cp.approvals
      /\ q.steps = cp.steps /\ q.history = cp.history /\ q.prior = cp.prior
      /\ q.stages = cp.stages /\ q.index = cp.index
  BY <1>1, <1>4 DEF Checkpoint
<1>6. \A c \in 1..n : New(c) \in Call /\ CallValid(New(c))
  BY <1>1, <1>3
<1>n. \A c \in 1..n : /\ c \in DOMAIN flight => New(c) = Observed(c)
                      /\ c \notin DOMAIN flight => New(c) = cp.calls[c]
  OBVIOUS
<1> HIDE DEF New
<1>7. q.calls \in [1..n -> Call]
  BY <1>5, <1>6
<1>8. q \in Checkpoint
  <2>1. q = [cp EXCEPT !.calls = q.calls]
    BY <1>1, <1>4, <1>5 DEF Checkpoint
  <2>2. q.calls \in UNION {[1..k -> Call] : k \in Calls}
    BY <1>1, <1>7
  <2> QED
    BY <1>1, <2>1, <2>2 DEF Checkpoint
<1>9. Shape(q, n)
  BY <1>1, <1>5, <1>7, <1>8 DEF Shape
<1>10. d = Recount(q)
  BY <1>4
<1>11. /\ Shape(d, n) /\ d.steps = steps /\ d.history = history /\ d.prior = used
       /\ d.calls = q.calls /\ d.approvals = cp.approvals
       /\ d.stages = cp.stages /\ d.index = cp.index
       /\ d.used = used + Charged(d)
  <2>1. /\ d.steps = q.steps /\ d.history = q.history
        /\ d.calls = q.calls /\ d.stages = q.stages
        /\ d.index = q.index /\ d.approvals = q.approvals
        /\ d.prior = q.prior /\ d.used = q.prior + Charged(q)
        /\ Charged(d) = Charged(q) /\ Shape(d, n)
    BY <1>9, <1>10, RecountIs
  <2> QED
    BY <1>1, <1>5, <2>1
<1>12. /\ DOMAIN d.calls = 1..n /\ Charged(d) \in 0..n /\ Cardinality(DOMAIN d.calls) = n
       /\ \A c \in 1..n : d.calls[c] = New(c)
  <2>1. DOMAIN d.calls = 1..n
    BY <1>11 DEF Shape
  <2> QED
    BY <1>1, <1>5, <1>11, <2>1, ChargedBound
<1>13. CheckpointOK(d)
  <2>1. d.used \in used..config.maxToolCalls
    BY <1>1, <1>11, <1>12
  <2> QED
    BY <1>11, <2>1, ShapeOwn
<1>14. In(d, "ready") \subseteq In(cp, "ready") \ DOMAIN flight
  <2> SUFFICES ASSUME NEW c \in In(d, "ready")
               PROVE  c \in In(cp, "ready") /\ c \notin DOMAIN flight
    OBVIOUS
  <2>1. c \in 1..n /\ New(c).state = "ready"
    BY <1>12 DEF In
  <2>2. c \notin DOMAIN flight
    BY <1>3, <1>n, <2>1
  <2> QED
    BY <1>1, <1>n, <2>1, <2>2 DEF In
<1>15. ASSUME NEW c \in DOMAIN d.calls, d.approvals[c] # Null
       PROVE  /\ ApprovalId(d, c) \in asked
              /\ IF d.approvals[c].evidence
                 THEN ApprovalId(d, c) \in confirmed ELSE d.calls[c].state = "ready"
  <2>1. c \in DOMAIN cp.calls /\ cp.approvals[c] # Null /\ d.approvals[c] = cp.approvals[c] /\ c \in 1..n
    BY <1>1, <1>11, <1>12, <1>15
  <2>2. ApprovalId(d, c) = ApprovalId(cp, c)
    BY <1>1, <1>11, <2>1 DEF ApprovalId
  <2>3. /\ ApprovalId(cp, c) \in asked
        /\ IF cp.approvals[c].evidence
           THEN ApprovalId(cp, c) \in confirmed ELSE cp.calls[c].state = "ready"
    BY <2>1 DEF Held
  <2>4. ~cp.approvals[c].evidence => c \notin DOMAIN flight
    BY <1>2, <2>1
  <2>5. ~cp.approvals[c].evidence => d.calls[c].state = "ready"
    BY <1>12, <1>n, <2>1, <2>3, <2>4
  <2> QED
    BY <2>1, <2>2, <2>3, <2>5
<1>16. ASSUME \A c, e \in DOMAIN flight : c # e /\ flight[c] \in Waits => flight[c] # flight[e]
       PROVE  Valid(d)
  <2>0. Valid(cp)
    BY DEF Held
  <2>1. d.calls # <<>>
    BY <1>1, <1>12
  <2>2. \A c \in DOMAIN d.calls : CallValid(d.calls[c])
    BY <1>6, <1>12
  <2>3. ASSUME NEW c \in In(d, "awaiting")
        PROVE  c \in DOMAIN flight /\ flight[c] \in Waits /\ d.calls[c].got = flight[c]
    <3>1. c \in 1..n /\ New(c).state = "awaiting" /\ d.calls[c] = New(c)
      BY <1>12 DEF In
    <3>2. c \in DOMAIN flight
      <4> SUFFICES ASSUME c \notin DOMAIN flight PROVE FALSE
        OBVIOUS
      <4>1. cp.calls[c].state = "awaiting"
        BY <1>n, <3>1
      <4> QED
        BY <1>1, <3>1, <4>1 DEF Settled, In
    <3> QED
      BY <1>3, <1>n, <3>1, <3>2
  <2>4. \A c, e \in In(d, "awaiting") : c # e => d.calls[c].got # d.calls[e].got
    BY <1>16, <2>3
  <2>5. StagesPartition(d)
    <3>1. StagesPartition(cp) /\ d.stages = cp.stages /\ DOMAIN d.calls = DOMAIN cp.calls
      BY <1>1, <1>11, <1>12, <2>0 DEF Valid
    <3> QED
      BY <3>1, SamePlan
  <2>6. CursorAgrees(d)
    <3> SUFFICES ASSUME NEW i \in DOMAIN cp.stages, NEW c \in cp.stages[i]
                 PROVE  /\ i <= cp.index => d.calls[c].state = "completed"
                        /\ i > cp.index + 1 => d.calls[c].state = "ready"
      BY <1>11 DEF CursorAgrees
    <3>1. /\ i <= cp.index => cp.calls[c].state = "completed"
          /\ i > cp.index + 1 => cp.calls[c].state = "ready"
      BY <2>0 DEF Valid, CursorAgrees
    <3>2. c \in 1..n
      BY <1>1, <2>0 DEF Valid, StagesPartition
    <3>3. ASSUME i <= cp.index \/ i > cp.index + 1
          PROVE  c \notin DOMAIN flight
      <4> SUFFICES ASSUME c \in DOMAIN flight PROVE FALSE
        OBVIOUS
      <4>1. c \in cp.stages[cp.index + 1] /\ cp.index + 1 \in DOMAIN cp.stages
        BY <1>2
      <4>2. i # cp.index + 1
        <5>1. cp.index \in 0..1 /\ i \in Nat
          BY <1>1, LenProperties DEF Shape
        <5> QED
          BY <3>3, <5>1
      <4> QED
        BY <2>0, <4>1, <4>2 DEF Valid, StagesPartition
    <3> QED
      BY <1>12, <1>n, <3>1, <3>2, <3>3
  <2>7. BudgetAgrees(d)
    BY <1>1, <1>11, <1>12 DEF BudgetAgrees
  <2>8. d.steps \in 1..config.maxSteps /\ Len(d.history) = d.steps - 1
    BY <1>1, <1>11
  <2>9. d.stages # <<>> /\ d.index <= Len(d.stages)
    BY <1>11, <2>0 DEF Valid
  <2>10. ASSUME NEW c \in DOMAIN d.calls, d.approvals[c] # Null
         PROVE  d.approvals[c].prep = d.calls[c].prep
    <3>1. cp.approvals[c].prep = cp.calls[c].prep /\ c \in 1..n
      BY <1>1, <1>11, <1>12, <2>0, <2>10 DEF Valid
    <3>2. d.calls[c].prep = cp.calls[c].prep
      BY <1>3, <1>12, <1>n, <3>1
    <3> QED
      BY <1>11, <3>1, <3>2
  <2> QED
    BY <2>1, <2>2, <2>4, <2>5, <2>6, <2>7, <2>8, <2>9, <2>10 DEF Valid
<1> QED
  BY <1>1, <1>12, <1>13, <1>14, <1>15, <1>16
\* What merge_approval and receive_approval make of a checkpoint.
Confirm(cp, c) == [cp EXCEPT !.approvals[c].evidence = TRUE]

\* A confirmed approval keeps the checkpoint valid and the run's own.
LEMMA ConfirmHeld ==
    ASSUME TypeOK, NEW cp, Held(cp), NEW c \in Unconfirmed(cp),
           NEW d, d = Confirm(cp, c)
    PROVE  /\ CheckpointOK(d) /\ Valid(d) /\ d.calls = cp.calls
           /\ ApprovalId(cp, c) \in asked
           /\ \A e \in DOMAIN d.calls : d.approvals[e] # Null =>
                 /\ ApprovalId(d, e) \in asked
                 /\ IF d.approvals[e].evidence
                    THEN ApprovalId(d, e) \in confirmed \cup {ApprovalId(cp, c)}
                    ELSE d.calls[e].state = "ready"
<1> USE DEF Confirm
<1>1. PICK n \in Calls :
         /\ Shape(cp, n) /\ DOMAIN cp.calls = 1..n /\ DOMAIN cp.approvals = 1..n /\ cp \in Checkpoint
         /\ cp.calls \in [1..n -> Call] /\ cp.approvals \in [1..n -> Approval \cup {Null}]
         /\ cp.steps = steps /\ cp.history = history /\ cp.prior = used
  BY HeldFacts
<1>2. c \in 1..n /\ cp.approvals[c] # Null
  BY <1>1 DEF Unconfirmed, In
<1>3. PICK a : a = cp.approvals[c]
  OBVIOUS
<1>4. PICK b : b = [a EXCEPT !.evidence = TRUE]
  OBVIOUS
<1>5. a \in Approval /\ b \in Approval /\ b.prep = a.prep /\ b.policy = a.policy
  <2>1. a \in Approval
    BY <1>1, <1>2, <1>3
  <2> QED
    BY <1>4, <2>1 DEF Approval
<1>a. PICK A : A = [cp.approvals EXCEPT ![c] = b]
  OBVIOUS
<1>b. d = [cp EXCEPT !.approvals = A]
  BY <1>1, <1>2, <1>3, <1>4, <1>a DEF Checkpoint
<1>6. /\ d.approvals = A /\ d.calls = cp.calls
      /\ d.steps = cp.steps /\ d.history = cp.history /\ d.prior = cp.prior /\ d.used = cp.used
      /\ d.stages = cp.stages /\ d.index = cp.index
  BY <1>1, <1>b DEF Checkpoint
<1>7. A \in [1..n -> Approval \cup {Null}]
  <2>1. PICK B, T : B = cp.approvals /\ T = Approval \cup {Null}
    OBVIOUS
  <2>2. B \in [1..n -> T] /\ b \in T /\ A = [B EXCEPT ![c] = b]
    BY <1>1, <1>5, <1>a, <2>1
  <2> QED
    BY <1>2, <2>1, <2>2
<1>8. Shape(d, n)
  <2>1. A \in UNION {[1..k -> Approval \cup {Null}] : k \in Calls}
    BY <1>7
  <2>2. d \in Checkpoint
    BY <1>1, <1>b, <2>1 DEF Checkpoint
  <2> QED
    BY <1>1, <1>6, <1>7, <2>2 DEF Shape
<1>9. CheckpointOK(d)
  <2>1. cp.used \in used..config.maxToolCalls
    BY DEF Held, CheckpointOK
  <2> QED
    BY <1>1, <1>6, <1>8, <2>1, ShapeOwn
<1>10. \A e \in 1..n : /\ e # c => d.approvals[e] = cp.approvals[e]
                       /\ e = c => d.approvals[e] = b
  <2>1. PICK B : B = cp.approvals
    OBVIOUS
  <2>2. DOMAIN B = 1..n /\ A = [B EXCEPT ![c] = b]
    BY <1>1, <1>a, <2>1
  <2>3. \A e \in 1..n : (e # c => A[e] = B[e]) /\ (e = c => A[e] = b)
    BY <1>2, <2>2
  <2> QED
    BY <1>6, <2>1, <2>3
<1>11. Valid(cp)
  BY DEF Held
<1>12. Valid(d)
  <2>1. StagesPartition(d)
    BY <1>6, <1>11, SamePlan DEF Valid
  <2>2. CursorAgrees(d)
    BY <1>6, <1>11 DEF Valid, CursorAgrees
  <2>3. BudgetAgrees(d)
    <3>1. Charged(d) = Charged(cp)
      BY <1>6 DEF Charged
    <3> QED
      BY <1>6, <1>11, <3>1 DEF Valid, BudgetAgrees
  <2>4. In(d, "awaiting") = In(cp, "awaiting")
    BY <1>6 DEF In
  <2>5. ASSUME NEW e \in DOMAIN d.calls, d.approvals[e] # Null
        PROVE  d.approvals[e].prep = d.calls[e].prep
    <3>1. e \in 1..n
      BY <1>1, <1>6
    <3>2. cp.approvals[e] # Null => cp.approvals[e].prep = cp.calls[e].prep
      BY <1>1, <1>11, <3>1 DEF Valid
    <3>3. CASE e = c
      BY <1>2, <1>3, <1>5, <1>6, <1>10, <3>1, <3>2, <3>3
    <3>4. CASE e # c
      BY <1>6, <1>10, <2>5, <3>1, <3>2, <3>4
    <3> QED
      BY <3>3, <3>4
  <2>6. /\ \A e \in DOMAIN d.calls : CallValid(d.calls[e])
        /\ \A e, f \in In(d, "awaiting") : e # f => d.calls[e].got # d.calls[f].got
        /\ d.calls # <<>> /\ d.stages # <<>> /\ d.index <= Len(d.stages)
        /\ d.steps \in 1..config.maxSteps /\ Len(d.history) = d.steps - 1
    <3>1. \A e \in DOMAIN d.calls : CallValid(d.calls[e])
      BY <1>6, <1>11 DEF Valid
    <3>2. \A e, f \in In(d, "awaiting") : e # f => d.calls[e].got # d.calls[f].got
      BY <1>6, <1>11, <2>4 DEF Valid
    <3>3. d.calls # <<>> /\ d.stages # <<>> /\ d.index <= Len(d.stages)
      BY <1>6, <1>11 DEF Valid
    <3>4. d.steps \in 1..config.maxSteps /\ Len(d.history) = d.steps - 1
      BY <1>6, <1>11 DEF Valid
    <3> QED
      BY <3>1, <3>2, <3>3, <3>4
  <2> QED
    BY <2>1, <2>2, <2>3, <2>5, <2>6 DEF Valid
<1>13. ApprovalId(cp, c) \in asked
  BY <1>1, <1>2 DEF Held
<1>14. ASSUME NEW e \in DOMAIN d.calls, d.approvals[e] # Null
       PROVE  /\ ApprovalId(d, e) \in asked
              /\ IF d.approvals[e].evidence
                 THEN ApprovalId(d, e) \in confirmed \cup {ApprovalId(cp, c)}
                 ELSE d.calls[e].state = "ready"
  <2>1. e \in 1..n
    BY <1>1, <1>6
  <2>2. CASE e = c
    <3>1. ApprovalId(d, c) = ApprovalId(cp, c)
      BY <1>2, <1>3, <1>5, <1>6, <1>10 DEF ApprovalId
    <3>2. d.approvals[c].evidence
      BY <1>2, <1>4, <1>5, <1>10 DEF Approval
    <3> QED
      BY <1>13, <2>2, <3>1, <3>2
  <2>3. CASE e # c
    <3>1. d.approvals[e] = cp.approvals[e]
      BY <1>10, <2>1, <2>3
    <3>2. ApprovalId(d, e) = ApprovalId(cp, e)
      BY <1>6, <3>1 DEF ApprovalId
    <3> QED
      BY <1>1, <1>6, <1>14, <2>1, <3>1, <3>2 DEF Held
  <2> QED
    BY <2>2, <2>3
<1> QED
  BY <1>6, <1>9, <1>12, <1>13, <1>14

\* A sequence with a first element is not empty.
LEMMA NotEmpty ==
    ASSUME NEW f, NEW n \in Nat, 1 \in 1..n, DOMAIN f = 1..n
    PROVE  f # <<>>
<1> SUFFICES ASSUME f = <<>> PROVE FALSE
  OBVIOUS
<1>1. 1 \in DOMAIN f
  OBVIOUS
<1>2. DOMAIN f = {}
  OBVIOUS
<1> QED
  BY <1>1, <1>2

\* What merge_external makes of a checkpoint.
Resolved(cp, S, got) ==
    [cp EXCEPT
        !.calls = [c \in DOMAIN @ |->
            IF c \in S THEN [@[c] EXCEPT !.state = "completed", !.got = got[c]] ELSE @[c]]]

\* External results merged into a checkpoint keep it valid and the run's own.
LEMMA ResolveHeld ==
    ASSUME TypeOK, NEW cp, Held(cp), NEW S \in SUBSET In(cp, "awaiting"), NEW got \in [S -> {"ok", "error"}],
           NEW d, d = Resolved(cp, S, got)
    PROVE  /\ CheckpointOK(d) /\ Valid(d)
           /\ DOMAIN d.calls = DOMAIN cp.calls /\ In(d, "ready") = In(cp, "ready")
           /\ \A e \in DOMAIN d.calls : d.approvals[e] # Null =>
                 /\ ApprovalId(d, e) \in asked
                 /\ IF d.approvals[e].evidence
                    THEN ApprovalId(d, e) \in confirmed ELSE d.calls[e].state = "ready"
<1> USE DEF Resolved
<1>1. PICK n \in Calls :
         /\ Shape(cp, n) /\ DOMAIN cp.calls = 1..n /\ DOMAIN cp.approvals = 1..n /\ cp \in Checkpoint
         /\ cp.calls \in [1..n -> Call] /\ cp.approvals \in [1..n -> Approval \cup {Null}]
         /\ cp.steps = steps /\ cp.history = history /\ cp.prior = used /\ n \in Nat /\ 1 \in 1..n
  BY HeldFacts
<1>2. Valid(cp)
  BY DEF Held
<1> DEFINE New(c) == IF c \in S THEN [cp.calls[c] EXCEPT !.state = "completed", !.got = got[c]]
                     ELSE cp.calls[c]
<1>3. /\ d.calls = [c \in 1..n |-> New(c)] /\ d.approvals = cp.approvals
      /\ d.steps = cp.steps /\ d.history = cp.history /\ d.prior = cp.prior /\ d.used = cp.used
      /\ d.stages = cp.stages /\ d.index = cp.index
  BY <1>1 DEF Checkpoint
<1>4. \A c \in 1..n : /\ c \in S => /\ New(c) \in Call /\ CallValid(New(c)) /\ New(c).state = "completed"
                                    /\ cp.calls[c].state = "awaiting"
                                    /\ New(c).prep = cp.calls[c].prep
                                    /\ New(c).charged /\ cp.calls[c].charged
                      /\ c \notin S => New(c) = cp.calls[c]
  <2> SUFFICES ASSUME NEW c \in 1..n, c \in S
               PROVE  /\ New(c) \in Call /\ CallValid(New(c)) /\ New(c).state = "completed"
                      /\ cp.calls[c].state = "awaiting"
                      /\ New(c).prep = cp.calls[c].prep
                      /\ New(c).charged /\ cp.calls[c].charged
    OBVIOUS
  <2>1. PICK a, g, b : a = cp.calls[c] /\ g = got[c] /\ b = [a EXCEPT !.state = "completed", !.got = g]
    OBVIOUS
  <2>2. a.state = "awaiting" /\ a \in Call /\ CallValid(a) /\ g \in {"ok", "error"}
    <3>1. c \in In(cp, "awaiting")
      OBVIOUS
    <3> QED
      BY <1>1, <1>2, <2>1, <3>1 DEF In, Valid
  <2>3. /\ a \in [state : {"awaiting"}, charged : BOOLEAN, prep : Preps, issued : Authority, got : Waits]
        /\ a.charged /\ a.issued.prep = a.prep
    BY <2>2 DEF Call, CallValid
  <2>4. /\ b \in [state : {"completed"}, charged : BOOLEAN, prep : Preps, issued : Authority, got : {"ok", "error"}]
        /\ b.charged = a.charged /\ b.issued = a.issued /\ b.prep = a.prep /\ b.state = "completed"
    BY <2>1, <2>2, <2>3
  <2>5. b.issued # Null
    BY <2>4, EngineAssumption
  <2>6. CallValid(b)
    BY <2>3, <2>4, <2>5 DEF CallValid
  <2>7. b \in Call
    BY <2>4 DEF Call
  <2>8. New(c) = b
    BY <2>1
  <2> HIDE DEF New
  <2> QED
    BY <2>1, <2>2, <2>3, <2>4, <2>6, <2>7, <2>8
<1> HIDE DEF New
<1>5. d.calls \in [1..n -> Call] /\ \A c \in 1..n : CallValid(d.calls[c]) /\ d.calls[c] = New(c)
  <2>1. \A c \in 1..n : cp.calls[c] \in Call /\ CallValid(cp.calls[c])
    BY <1>1, <1>2, ZenonT(30) DEF Valid
  <2>2. \A c \in 1..n : New(c) \in Call /\ CallValid(New(c))
    BY <1>4, <2>1
  <2> QED
    BY ZenonT(30), <1>3, <2>2
<1>6. Shape(d, n)
  <2>1. d = [cp EXCEPT !.calls = d.calls]
    BY <1>1 DEF Checkpoint
  <2>2. d.calls \in UNION {[1..k -> Call] : k \in Calls}
    BY <1>5
  <2>3. d \in Checkpoint
    BY <1>1, <2>1, <2>2 DEF Checkpoint
  <2> QED
    BY <1>1, <1>3, <1>5, <2>3 DEF Shape
<1>7. CheckpointOK(d)
  <2>1. cp.used \in used..config.maxToolCalls
    BY DEF Held, CheckpointOK
  <2> QED
    BY <1>1, <1>3, <1>6, <2>1, ShapeOwn
<1>8. DOMAIN d.calls = 1..n
  BY <1>5
<1>9. In(d, "ready") = In(cp, "ready")
  <2>1. \A c \in 1..n : d.calls[c].state = "ready" <=> cp.calls[c].state = "ready"
    BY <1>4, <1>5
  <2> QED
    BY <1>1, <1>8, <2>1 DEF In
<1>10. In(d, "awaiting") \subseteq In(cp, "awaiting") \ S
  <2>1. \A c \in 1..n : d.calls[c].state = "awaiting" => c \notin S /\ cp.calls[c].state = "awaiting"
    BY <1>4, <1>5
  <2> QED
    BY <1>1, <1>8, <2>1 DEF In
<1>11. Charged(d) = Charged(cp)
  <2>1. \A c \in 1..n : d.calls[c].charged <=> cp.calls[c].charged
    BY <1>4, <1>5
  <2>2. {c \in DOMAIN d.calls : d.calls[c].charged} = {c \in DOMAIN cp.calls : cp.calls[c].charged}
    BY <1>1, <1>8, <2>1
  <2> QED
    BY <2>2 DEF Charged
<1>12. Valid(d)
  <2>1. StagesPartition(d)
    BY <1>1, <1>2, <1>3, <1>8, SamePlan DEF Valid
  <2>2. CursorAgrees(d)
    <3> SUFFICES ASSUME NEW i \in DOMAIN cp.stages, NEW c \in cp.stages[i]
                 PROVE  /\ i <= cp.index => d.calls[c].state = "completed"
                        /\ i > cp.index + 1 => d.calls[c].state = "ready"
      BY <1>3 DEF CursorAgrees
    <3>1. /\ i <= cp.index => cp.calls[c].state = "completed"
          /\ i > cp.index + 1 => cp.calls[c].state = "ready"
      BY <1>2 DEF Valid, CursorAgrees
    <3>2. c \in 1..n
      BY <1>1, <1>2 DEF Valid, StagesPartition
    <3> QED
      BY <1>4, <1>5, <3>1, <3>2
  <2>3. BudgetAgrees(d)
    BY <1>1, <1>2, <1>3, <1>8, <1>11 DEF Valid, BudgetAgrees
  <2>4. ASSUME NEW e \in DOMAIN d.calls, d.approvals[e] # Null
        PROVE  d.approvals[e].prep = d.calls[e].prep
    <3>1. cp.approvals[e].prep = cp.calls[e].prep /\ e \in 1..n
      BY <1>1, <1>2, <1>3, <1>8, <2>4 DEF Valid
    <3> QED
      BY <1>3, <1>4, <1>5, <3>1
  <2>5. ASSUME NEW e \in In(d, "awaiting"), NEW f \in In(d, "awaiting"), e # f
        PROVE  d.calls[e].got # d.calls[f].got
    <3>1. e \in In(cp, "awaiting") \ S /\ f \in In(cp, "awaiting") \ S /\ e \in 1..n /\ f \in 1..n
      BY <1>8, <1>10 DEF In
    <3>2. d.calls[e] = cp.calls[e] /\ d.calls[f] = cp.calls[f]
      BY <1>4, <1>5, <3>1
    <3> QED
      BY <1>2, <2>5, <3>1, <3>2 DEF Valid
  <2>6. d.calls # <<>>
    BY <1>1, <1>8, NotEmpty
  <2>7. /\ d.stages # <<>> /\ d.index <= Len(d.stages)
        /\ d.steps \in 1..config.maxSteps /\ Len(d.history) = d.steps - 1
    BY <1>2, <1>3 DEF Valid
  <2> QED
    BY <1>5, <1>8, <2>1, <2>2, <2>3, <2>4, <2>5, <2>6, <2>7 DEF Valid
<1>13. ASSUME NEW e \in DOMAIN d.calls, d.approvals[e] # Null
       PROVE  /\ ApprovalId(d, e) \in asked
              /\ IF d.approvals[e].evidence
                 THEN ApprovalId(d, e) \in confirmed ELSE d.calls[e].state = "ready"
  <2>1. ApprovalId(d, e) = ApprovalId(cp, e) /\ e \in DOMAIN cp.calls /\ cp.approvals[e] # Null
    BY <1>1, <1>3, <1>8, <1>13 DEF ApprovalId
  <2>2. cp.calls[e].state = "ready" => d.calls[e].state = "ready"
    BY <1>4, <1>5, <1>8
  <2> QED
    BY <1>3, <2>1, <2>2 DEF Held
<1> QED
  BY <1>1, <1>7, <1>8, <1>9, <1>12, <1>13
----------------------------------------------------------------------------
\* What a step leaves as it was.

\* The types apart from those of the checkpoints.
Types ==
    /\ config \in Configs
    /\ pc \in Places /\ outcome \in Outcomes \cup {Null}
    /\ steps \in 0..config.maxSteps /\ used \in 0..config.maxToolCalls
    /\ history \in Seq(Calls)
    /\ policy \in Policies
    /\ {cancelled, expired} \subseteq BOOLEAN
    /\ approved \subseteq {ToolOf[c] : c \in Calls}
    /\ asked \subseteq (1..MaxSteps) \X Calls \X Preps \X Policies
    /\ confirmed \subseteq asked
    /\ entered \in [1..MaxSteps -> [Calls -> Nat]]

\* With custody they are all the types.
LEMMA TypesSplit == TypeOK => Types
BY DEF TypeOK, Types

\* With custody the other types are enough for the checkpoints the run and the host hold.
LEMMA TypesJoin ==
    ASSUME Types', Custody'
    PROVE  TypeOK'
<1>1. pending' # Null => CheckpointOK(pending)'
  <2> SUFFICES ASSUME pending' # Null
               PROVE  CheckpointOK(pending)'
    OBVIOUS
  <2>1. pc' # "suspended" /\ pc' \in Places
    BY DEF Custody, Without, Types
  <2>2. Current' = pending'
    BY <2>1 DEF Current
  <2>3. PICK d : d = pending'
    OBVIOUS
  <2>4. Current' = d
    BY <2>2, <2>3
  <2>5. Held(Current)'
    BY <2>2 DEF Custody
  <2>6. Held(d)'
    BY <2>4, <2>5
  <2>7. CheckpointOK(d)'
    BY <2>6 DEF Held
  <2> QED
    BY <2>3, <2>7
<1>2. saved' # Null => CheckpointOK(saved)'
  <2> SUFFICES ASSUME saved' # Null
               PROVE  CheckpointOK(saved)'
    OBVIOUS
  <2>1. pc' = "suspended"
    BY DEF Custody
  <2>2. Current' = saved'
    BY <2>1 DEF Current
  <2>3. PICK d : d = saved'
    OBVIOUS
  <2>4. Current' = d
    BY <2>2, <2>3
  <2>5. Held(Current)'
    BY <2>2 DEF Custody
  <2>6. Held(d)'
    BY <2>4, <2>5
  <2>7. CheckpointOK(d)'
    BY <2>6 DEF Held
  <2> QED
    BY <2>3, <2>7
<1> QED
  BY <1>1, <1>2 DEF TypeOK, Types

\* A checkpoint stays held while the run's counters stay, and while requests and
\* confirmations only grow and cover its own.
LEMMA HeldNext ==
    ASSUME NEW d, CheckpointOK(d), Valid(d), UNCHANGED <<config, steps, history, used>>,
           \A c \in DOMAIN d.calls : d.approvals[c] # Null =>
              /\ ApprovalId(d, c) \in asked'
              /\ IF d.approvals[c].evidence
                 THEN ApprovalId(d, c) \in confirmed' ELSE d.calls[c].state = "ready"
    PROVE  Held(d)'
<1>1. CheckpointOK(d)'
  BY DEF CheckpointOK
<1>2. Valid(d)'
  BY DEF Valid, BudgetAgrees
<1> QED
  BY <1>1, <1>2 DEF Held

\* A checkpoint stays held while the batch it belongs to is the current one: approvals
\* once asked or confirmed remain so.
LEMMA HeldSame ==
    ASSUME NEW d, Held(d), UNCHANGED <<config, steps, history, used>>,
           asked \subseteq asked', confirmed \subseteq confirmed'
    PROVE  Held(d)'
<1>1. CheckpointOK(d) /\ Valid(d)
  BY DEF Held
<1>2. \A c \in DOMAIN d.calls : d.approvals[c] # Null =>
              /\ ApprovalId(d, c) \in asked'
              /\ IF d.approvals[c].evidence
                 THEN ApprovalId(d, c) \in confirmed' ELSE d.calls[c].state = "ready"
  BY DEF Held
<1> QED
  BY <1>1, <1>2, HeldNext

\* Decisions, and what rests on them, change with the policy and the configuration only.
LEMMA PolicySame ==
    ASSUME NEW d, UNCHANGED <<config, policy>>
    PROVE  /\ Settled(d) => Settled(d)'
           /\ Runnable(d)' = Runnable(d)
           /\ \A c : Grantable(d, c) => Grantable(d, c)'
<1>1. \A c : Decision(d, c)' = Decision(d, c)
  BY DEF Decision
<1>2. Settled(d) => Settled(d)'
  BY <1>1 DEF Settled
<1>3. Runnable(d)' = Runnable(d)
  BY <1>1 DEF Runnable
<1>4. \A c : Grantable(d, c) => Grantable(d, c)'
  BY <1>1 DEF Grantable
<1> QED
  BY <1>2, <1>3, <1>4

\* The entries stay accounted for while the run's counters stay and no call that may have
\* been entered becomes ready again.
LEMMA EntriesSame ==
    ASSUME Entries, EntriesBounded, pc # "ended", UNCHANGED <<config, steps, history, entered>>,
           NEW cp, cp = Current, NEW d, d = Current',
           pc' # "ended" /\ cp # Null => d # Null /\ \A c : Spent(cp, c) => Spent(d, c)'
    PROVE  Entries' /\ EntriesBounded'
<1>1. EntriesBounded'
  BY DEF EntriesBounded
<1>2. ASSUME pc' # "ended", NEW i \in 1..MaxSteps, NEW c \in Calls, entered'[i][c] # 0
      PROVE  entered'[i][c] = 1 /\ Accounted(i, c)'
  <2>1. entered[i][c] = 1 /\ Accounted(i, c)
    BY <1>2 DEF Entries
  <2>2. CASE i <= Len(history) /\ c <= history[i]
    BY <2>1, <2>2 DEF Accounted
  <2>3. CASE i = steps /\ Current # Null /\ Spent(Current, c)
    <3>1. Spent(cp, c)
      BY <2>3
    <3>2. d # Null /\ Spent(d, c)'
      BY <1>2, <2>3, <3>1
    <3>3. Spent(Current, c)'
      BY <3>2
    <3> QED
      BY <2>1, <2>3, <3>2, <3>3 DEF Accounted
  <2> QED
    BY <2>1, <2>2, <2>3 DEF Accounted
<1> QED
  BY <1>1, <1>2 DEF Entries

----------------------------------------------------------------------------
\* Steps that end a run, or only move it on.

\* A checkpoint is not Null.
LEMMA HeldThere ==
    ASSUME NEW cp, Held(cp)
    PROVE  cp # Null
BY EngineAssumption DEF Held, CheckpointOK

\* The types of the next state follow from custody.
LEMMA Joined ==
    ASSUME Types', Custody', Between', Entries', Dispatch', EntriesBounded'
    PROVE  IInv'
BY TypesJoin DEF IInv

\* Custody of a checkpoint held by the run, or by the host.
LEMMA RunHolds ==
    ASSUME NEW d, Held(d)', pending' = d, saved' = Null, pc' \in Working \cup {"top"}
    PROVE  Custody' /\ Between' /\ Current' = d
<1>1. pc' # "suspended" /\ pc' \notin Without
  BY DEF Working, Without
<1>2. Current' = d
  BY <1>1 DEF Current
<1>3. CheckpointOK(d)'
  BY DEF Held
<1>4. d # Null
  BY <1>3, EngineAssumption DEF CheckpointOK
<1>5. Held(Current)'
  BY <1>2
<1>6. Custody'
  BY <1>1, <1>4, <1>5 DEF Custody
<1>7. Between'
  BY <1>2, <1>4 DEF Between
<1> QED
  BY <1>2, <1>6, <1>7

\* The host holds the checkpoint of a suspended Turn and the engine none.
LEMMA HostHolds ==
    ASSUME NEW d, Held(d)', saved' = d, pending' = Null, pc' = "suspended"
    PROVE  Custody' /\ Between' /\ Current' = d
<1>1. Current' = d
  BY DEF Current
<1>2. CheckpointOK(d)'
  BY DEF Held
<1>3. d # Null
  BY <1>2, EngineAssumption DEF CheckpointOK
<1>4. Held(Current)'
  BY <1>1
<1>5. Custody'
  BY <1>3, <1>4 DEF Custody, Working, Without
<1>6. Between'
  BY <1>1, <1>3 DEF Between
<1> QED
  BY <1>1, <1>5, <1>6

\* Nobody holds a checkpoint.
LEMMA NobodyHolds ==
    ASSUME pending' = Null, saved' = Null, pc' \in {"idle", "top", "step", "plan", "complete", "ended"}
    PROVE  Custody' /\ Current' = Null
BY DEF Custody, Current, Working, Without

\* A run that ends leaves the invariant in force.
LEMMA EndHolds ==
    ASSUME IInv, NEW reason \in Outcomes, End(reason), UNCHANGED <<run, env, ghosts>>,
           policy' \in Policies
    PROVE  IInv'
<1>1. Types'
  BY DEF IInv, TypeOK, Types, End, run, env, ghosts, Places
<1>2. Custody' /\ Between' /\ Entries' /\ Dispatch'
  BY NobodyHolds DEF End, Between, Entries, Dispatch
<1>3. EntriesBounded'
  BY DEF IInv, EntriesBounded, End, ghosts
<1> QED
  BY <1>1, <1>2, <1>3, Joined

\* The reasons a run ends for, those apart that would blame a checkpoint of its own.
Ends == Outcomes \ {"invalid", "stuck"}

\* The step blames no checkpoint.
Blameless == outcome' = outcome \/ outcome' \in Ends

\* A run that ends without a step of the batch leaves the invariant in force and blames
\* no checkpoint of its own.
LEMMA QuietEndHolds ==
    ASSUME IInv, NEW reason \in Ends, EndQuietly(reason)
    PROVE  IInv' /\ Blameless
<1>1. End(reason) /\ UNCHANGED <<run, env, ghosts>> /\ policy' \in Policies
  BY DEF EndQuietly, Frame, run, IInv, TypeOK
<1>2. IInv'
  BY <1>1, EndHolds DEF Ends
<1>3. Blameless
  BY <1>1 DEF End, Blameless
<1> QED
  BY <1>2, <1>3

\* A run that only moves to another place where it may be.
LEMMA MoveHolds ==
    ASSUME IInv,
           UNCHANGED <<config, outcome, steps, used, history, pending, flight, saved, policy,
                       asked, confirmed, entered>>,
           {cancelled', expired'} \subseteq BOOLEAN, approved' \subseteq {ToolOf[c] : c \in Calls},
           pc # "ended", pc' \in Places, pc' # "ended",
           pc' = "tools" <=> pc = "tools", pc' = "suspended" <=> pc = "suspended",
           pc' \in Working => pending # Null, pc' \in Without => pending = Null,
           pending = Null /\ pc' \in {"idle", "top", "step"} => steps = Len(history),
           pc' = "step" => steps < config.maxSteps, pc' = "plan" => pc = "plan",
           pc' = "stage" => pc = "stage",
           pc' = "suspend" => Unconfirmed(pending) \cup In(pending, "awaiting") # {}
    PROVE  IInv' /\ Blameless
<1>1. Types'
  BY DEF IInv, TypeOK, Types
<1>2. PICK d : d = Current
  OBVIOUS
<1>3. Current' = d
  BY <1>2 DEF Current
<1>4. d # Null => Held(d)
  BY <1>2 DEF IInv, Custody
<1>5. d # Null => Held(d)'
  BY <1>4, HeldSame
<1>6. d # Null => Held(Current)'
  BY <1>3, <1>5
<1>7. saved' # Null <=> pc' = "suspended"
  BY DEF IInv, Custody
<1>8. Custody'
  BY <1>3, <1>6, <1>7 DEF Custody
<1>9. d = Null => pending = Null
  BY <1>2 DEF IInv, Custody, Current, Without
<1>10. Between'
  BY <1>2, <1>3, <1>9 DEF Between, IInv
<1>11. \A c : Spent(d, c) => Spent(d, c)'
  BY DEF Spent
<1>12. Entries' /\ EntriesBounded'
  BY <1>2, <1>3, <1>11, EntriesSame DEF IInv
<1>13. PICK e : e = pending
  OBVIOUS
<1>14. pending' = e
  BY <1>13
<1>15. pc' \in {"stage", "tools"} => Settled(pending)'
  <2>1. pc' \in {"stage", "tools"} => Settled(e)
    BY <1>13 DEF IInv, Dispatch
  <2>2. Settled(e) => Settled(e)'
    BY PolicySame
  <2> QED
    BY <1>14, <2>1, <2>2
<1>16. pc' = "tools" =>
          /\ pending'.index < Len(pending'.stages)
          /\ flight' \in [Runnable(pending)' -> Seen \cup Waits]
          /\ \A c \in DOMAIN flight' : Grantable(pending, c)'
  <2>1. pc' = "tools" =>
          /\ e.index < Len(e.stages)
          /\ flight \in [Runnable(e) -> Seen \cup Waits]
          /\ \A c \in DOMAIN flight : Grantable(e, c)
    BY <1>13 DEF IInv, Dispatch
  <2>2. Runnable(e)' = Runnable(e) /\ \A c : Grantable(e, c) => Grantable(e, c)'
    BY PolicySame
  <2>3. Runnable(pending)' = Runnable(e)
    BY <1>14, <2>2
  <2>4. \A c : Grantable(e, c)' => Grantable(pending, c)'
    BY <1>14
  <2> QED
    BY <1>14, <2>1, <2>2, <2>3, <2>4
<1>17. pc' = "suspend" => (Unconfirmed(pending) \cup In(pending, "awaiting") # {})'
  BY DEF Unconfirmed, In
<1>18. pc' # "tools" => flight' = <<>>
  BY DEF IInv, Dispatch
<1>19. Dispatch'
  BY <1>15, <1>16, <1>17, <1>18 DEF Dispatch
<1>20. IInv'
  BY <1>1, <1>8, <1>10, <1>12, <1>19, Joined
<1> QED
  BY <1>20 DEF Blameless

\* The invariant speaks of the variables only.
LEMMA StutterHolds ==
    ASSUME IInv, UNCHANGED vars
    PROVE  IInv'
<1>1. UNCHANGED <<config, outcome, steps, used, history, pending, flight, saved, policy,
                  asked, confirmed, entered, pc, cancelled, expired, approved>>
  BY DEF vars
<1>2. CASE pc = "ended"
  <2>1. Types'
    BY <1>1 DEF IInv, TypeOK, Types
  <2>2. pending = Null /\ saved = Null /\ flight = <<>>
    BY <1>2 DEF IInv, Custody, Dispatch, Without
  <2>3. Custody' /\ Between' /\ Entries' /\ Dispatch'
    BY <1>1, <1>2, <2>2, NobodyHolds DEF Between, Entries, Dispatch
  <2>4. EntriesBounded'
    BY <1>1 DEF IInv, EntriesBounded
  <2> QED
    BY <2>1, <2>3, <2>4, Joined
<1>3. CASE pc # "ended"
  <2>1. {cancelled', expired'} \subseteq BOOLEAN /\ approved' \subseteq {ToolOf[c] : c \in Calls}
    BY <1>1 DEF IInv, TypeOK
  <2>2. pc' \in Places /\ pc' # "ended"
    BY <1>1, <1>3 DEF IInv, TypeOK
  <2>3. /\ pc' \in Working => pending # Null
        /\ pc' \in Without => pending = Null
    BY <1>1 DEF IInv, Custody
  <2>4. /\ pending = Null /\ pc' \in {"idle", "top", "step"} => steps = Len(history)
        /\ pc' = "step" => steps < config.maxSteps
    BY <1>1, <2>3 DEF IInv, Between, Current, Without
  <2>5. pc' = "suspend" => Unconfirmed(pending) \cup In(pending, "awaiting") # {}
    BY <1>1 DEF IInv, Dispatch
  <2> QED
    BY <1>1, <1>3, <2>1, <2>2, <2>3, <2>4, <2>5, MoveHolds
<1> QED
  BY <1>2, <1>3

----------------------------------------------------------------------------
\* Every step leaves the invariant in force.

\* The least of some calls is one of them.
LEMMA FirstIn ==
    ASSUME NEW S \in SUBSET Nat, S # {}
    PROVE  First(S) \in S
BY Smallest DEF First

\* The calls entered over all Steps, when each belongs to a finished batch or to the k
\* calls of the one in progress.
LEMMA EntriesTotal ==
    ASSUME MaxSteps \in Nat, MaxBatch \in Nat, NEW E \in [1..MaxSteps -> [1..MaxBatch -> Nat]],
           NEW h \in Seq(Nat), Len(h) <= MaxSteps, NEW k \in Nat,
           \A i \in 1..MaxSteps, c \in 1..MaxBatch : E[i][c] # 0 =>
              /\ E[i][c] = 1
              /\ (i <= Len(h) /\ c <= h[i]) \/ (i = Len(h) + 1 /\ c <= k)
    PROVE  \E t \in Nat : /\ t = Total([i \in 1..MaxSteps |-> Total(E[i])])
                          /\ t <= Total(h) + k
<1> DEFINE s == [i \in 1..MaxSteps |-> Total(E[i])]
<1>1. \A i \in 1..MaxSteps : Total(E[i]) \in Nat
  <2>1. ASSUME NEW i \in 1..MaxSteps PROVE E[i] \in Seq(Nat)
    <3>1. E[i] \in [1..MaxBatch -> Nat]
      OBVIOUS
    <3> QED
      BY <3>1
  <2> QED
    BY <2>1, TotalType
<1>2. s \in [1..MaxSteps -> Nat] /\ \A i \in 1..MaxSteps : s[i] = Total(E[i])
  BY <1>1
<1> HIDE DEF s
<1>3. Total(s) \in Nat /\ Total(s) <= Total(h) + k
  BY <1>2, EnteredBound
<1> QED
  BY <1>3 DEF s

\* The initial state.
LEMMA InitHolds == Init => IInv
<1> SUFFICES ASSUME Init
             PROVE  IInv
  OBVIOUS
<1>1. config \in Config /\ MaxSteps \in Nat \ {0} /\ MaxBatch \in Nat \ {0}
  BY EngineAssumption DEF Init
<1>2. history \in Seq(Calls) /\ history \in Seq(Nat) /\ Len(history) = 0
  BY DEF Init
<1>3. TypeOK
  <2>1. steps \in 0..config.maxSteps /\ used \in 0..config.maxToolCalls /\ policy \in Policies
    BY <1>1 DEF Init, Config
  <2>2. entered \in [1..MaxSteps -> [Calls -> Nat]]
    BY DEF Init
  <2>3. pc \in Places /\ outcome \in Outcomes \cup {Null}
    BY DEF Init, Places
  <2> QED
    BY <1>2, <2>1, <2>2, <2>3 DEF Init, TypeOK
<1>4. Custody /\ Current = Null
  BY DEF Init, Custody, Current, Working, Without
<1>5. Total(history) = 0
  <2> DEFINE B == [i \in 0..0 |-> 0]
  <2>1. B \in [0..Len(history) -> Nat] /\ B[0] = 0 /\ B[Len(history)] = 0
    BY <1>2
  <2>2. \A i \in 1..Len(history) : B[i] = B[i - 1] + history[i]
    BY <1>2
  <2> HIDE DEF B
  <2>3. Total(history) = B[Len(history)]
    BY <1>2, <2>1, <2>2, TotalIs
  <2> QED
    BY <2>1, <2>3
<1>6. Between
  BY <1>2, <1>5 DEF Init, Between
<1>7. Entries
  BY DEF Init, Entries
<1>8. Dispatch
  BY DEF Init, Dispatch
<1>9. EntriesBounded
  <2>1. \A i \in 1..MaxSteps, c \in Calls : entered[i][c] = 0
    BY DEF Init
  <2>2. entered \in [1..MaxSteps -> [1..MaxBatch -> Nat]]
    BY <1>3 DEF TypeOK, Calls
  <2>3. PICK t \in Nat : t = Total([i \in 1..MaxSteps |-> Total(entered[i])]) /\ t <= Total(history) + 0
    <3>1. MaxSteps \in Nat /\ MaxBatch \in Nat /\ 0 \in Nat /\ Len(history) <= MaxSteps
      BY <1>1, <1>2
    <3>2. \A i \in 1..MaxSteps, c \in 1..MaxBatch : entered[i][c] = 0
      BY <2>1 DEF Calls
    <3>3. \A i \in 1..MaxSteps, c \in 1..MaxBatch : entered[i][c] # 0 =>
              /\ entered[i][c] = 1
              /\ (i <= Len(history) /\ c <= history[i]) \/ (i = Len(history) + 1 /\ c <= 0)
      BY <3>2
    <3> HIDE DEF Init
    <3> QED
      BY <1>2, <2>2, <3>1, <3>3, EntriesTotal, ZenonT(30)
  <2>4. config.maxToolCalls \in Nat
    BY <1>1 DEF Config
  <2> HIDE DEF Init
  <2> QED
    BY <1>5, <2>1, <2>3, <2>4 DEF EntriesBounded
<1> QED
  BY <1>3, <1>4, <1>6, <1>7, <1>8, <1>9 DEF IInv

\* The types of the stop and of the failures are outcomes.
LEMMA Reasons ==
    /\ StopReason \in Ends
    /\ {"failed", "cancelled", "over_budget", "rejected", "approval_expired", "answered", "max_steps",
        "timed_out", "uncertain"} \subseteq Ends
    /\ \A p : PrepFatal(p) \in {"timed_out", "cancelled", "uncertain", "failed", Null}
    /\ \A o : Fatal(o) # Null => Fatal(o) \in {"uncertain", "failed"} \cup {"cancelled", "timed_out"}
<1>1. \A p : PrepFatal(p) \in {"timed_out", "cancelled", "uncertain", "failed", Null}
  BY DEF PrepFatal
<1>2. \A o : Fatal(o) # Null => Fatal(o) \in {"uncertain", "failed"} \cup {"cancelled", "timed_out"}
  BY DEF Fatal
<1> QED
  BY <1>1, <1>2 DEF StopReason, Outcomes, Ends

\* The ends before and between batches: a stop, a refused start or resume, a failed or a
\* completed model call, a rejected approval.
LEMMA StepFailsHolds == IInv /\ (Stop \/ Refuse \/ StepFails \/ Complete \/ reject_approval) => IInv' /\ Blameless
<1> SUFFICES ASSUME IInv, Stop \/ Refuse \/ StepFails \/ Complete \/ reject_approval
             PROVE  IInv' /\ Blameless
  OBVIOUS
<1>1. \E reason \in Ends : EndQuietly(reason)
  BY Reasons DEF Stop, Refuse, StepFails, Complete, reject_approval
<1> QED
  BY <1>1, QuietEndHolds

\* Moves of the run between places.
LEMMA MovesHold ==
    ASSUME IInv,
           Start \/ AdmitResume \/ Advance \/ await_external \/ await_approval
    PROVE  IInv' /\ Blameless
<1> USE DEF Places, Working, Without, run, env, ghosts
<1>t. {cancelled, expired} \subseteq BOOLEAN /\ approved \subseteq {ToolOf[c] : c \in Calls}
  BY DEF IInv, TypeOK
<1>c. /\ pc \in Working => pending # Null
      /\ pc \in Without => pending = Null
  BY DEF IInv, Custody
<1>b. pending = Null /\ pc \in {"idle", "top"} => steps = Len(history)
  BY DEF IInv, Between, Current
<1>1. CASE Start
  BY <1>1, <1>t, <1>c, <1>b, MoveHolds DEF Start
<1>2. CASE AdmitResume
  BY <1>2, <1>t, <1>c, <1>b, MoveHolds DEF AdmitResume, Proceed
<1>3. CASE Advance
  <2>1. steps \in Nat /\ config.maxSteps \in Nat
    BY ConfigType DEF IInv, TypeOK
  <2>2. /\ UNCHANGED <<config, outcome, steps, used, history, pending, flight, saved, policy,
                       asked, confirmed, entered>>
        /\ UNCHANGED <<cancelled, expired, approved>> /\ pc = "top"
    BY <1>3 DEF Advance, Proceed
  <2>3. CASE pending # Null
    <3>1. pc' = "pending"
      BY <1>3, <2>3 DEF Advance, Proceed
    <3> QED
      BY <1>t, <2>2, <2>3, <3>1, MoveHolds
  <2>4. CASE pending = Null /\ steps >= config.maxSteps
    <3>1. pc' = "complete"
      BY <1>3, <2>4 DEF Advance, Proceed
    <3> QED
      BY <1>t, <2>2, <2>4, <3>1, MoveHolds
  <2>5. CASE pending = Null /\ steps < config.maxSteps
    <3>1. pc' = "step"
      BY <1>3, <2>1, <2>5 DEF Advance, Proceed
    <3>2. steps = Len(history)
      BY <1>b, <2>2, <2>5
    <3> QED
      BY <1>t, <2>2, <2>5, <3>1, <3>2, MoveHolds
  <2> QED
    BY <2>1, <2>3, <2>4, <2>5
<1>4. CASE await_external
  BY <1>4, <1>t, <1>c, MoveHolds DEF await_external, Proceed
<1>5. CASE await_approval
  BY <1>5, <1>t, <1>c, MoveHolds DEF await_approval, Proceed
<1> QED
  BY <1>1, <1>2, <1>3, <1>4, <1>5

\* Cancellation, the deadline and an approval touch none of the run's state.
LEMMA SurroundingsHold ==
    ASSUME IInv, Cancel \/ DeadlinePasses \/ approve_tool
    PROVE  IInv' /\ Blameless
<1>1. pc # "ended" /\ pc \in Places /\ pc' = pc
  BY DEF Cancel, DeadlinePasses, approve_tool, IInv, TypeOK
<1>2. UNCHANGED <<config, outcome, steps, used, history, pending, flight, saved, policy,
                  asked, confirmed, entered>>
  BY DEF Cancel, DeadlinePasses, approve_tool, run, ghosts
<1>3. {cancelled', expired'} \subseteq BOOLEAN /\ approved' \subseteq {ToolOf[c] : c \in Calls}
  BY DEF IInv, TypeOK, Cancel, DeadlinePasses, approve_tool
<1>4. /\ pc \in Working => pending # Null
      /\ pc \in Without => pending = Null
      /\ pc = "suspend" => Unconfirmed(pending) \cup In(pending, "awaiting") # {}
  BY DEF IInv, Custody, Dispatch
<1>5. /\ pending = Null /\ pc \in {"idle", "top", "step"} => steps = Len(history)
      /\ pc = "step" => steps < config.maxSteps
  BY <1>4 DEF IInv, Between, Current, Without
<1> QED
  BY <1>1, <1>2, <1>3, <1>4, <1>5, MoveHolds

\* A Step that ends, with an answer or with calls.
LEMMA StepEndsHold ==
    ASSUME IInv, StepAnswers \/ StepCallsTools
    PROVE  IInv' /\ Blameless
<1>1. /\ pc = "step" /\ pc' \in {"complete", "plan"} /\ steps' = steps + 1
      /\ UNCHANGED <<config, outcome, used, history, pending, flight, saved, policy, env, ghosts>>
  BY DEF StepAnswers, StepCallsTools
<1>2. pending = Null /\ saved = Null /\ flight = <<>> /\ Current = Null
  BY <1>1 DEF IInv, Custody, Without, Dispatch, Current
<1>3. /\ steps = Len(history) /\ steps < config.maxSteps /\ used = Total(history)
      /\ steps \in Nat /\ config.maxSteps \in Nat /\ Len(history) \in Nat
  BY <1>1, <1>2, ConfigType DEF IInv, Between, TypeOK
<1>4. Types'
  BY <1>1, <1>3 DEF Types, IInv, TypeOK, env, ghosts, Places
<1>5. Custody' /\ Current' = Null
  BY <1>1, <1>2, NobodyHolds
<1>6. Between'
  BY <1>1, <1>3 DEF Between
<1>7. Entries'
  BY <1>1, <1>2 DEF IInv, Entries, Accounted, ghosts
<1>8. Dispatch'
  BY <1>1, <1>2 DEF Dispatch
<1>9. EntriesBounded'
  BY <1>1 DEF IInv, EntriesBounded, ghosts
<1> QED
  BY <1>1, <1>4, <1>5, <1>6, <1>7, <1>8, <1>9, Joined DEF Blameless

\* The batch of a Step is prepared.
LEMMA InitializeHolds ==
    ASSUME IInv, initialize_pending
    PROVE  IInv' /\ Blameless
<1>1. pc = "plan" /\ pending = Null /\ saved = Null /\ flight = <<>> /\ Current = Null
  BY DEF initialize_pending, IInv, Custody, Without, Dispatch, Current
<1>2. TypeOK /\ used = Total(history) /\ steps = Len(history) + 1
  BY <1>1 DEF IInv, Between
<1>3. CASE \E reason \in Ends : EndQuietly(reason)
  BY <1>3, QuietEndHolds
<1>4. ASSUME NEW n \in Calls, used + n <= config.maxToolCalls,
             NEW preps \in [1..n -> config.preps \cup PrepFailures],
             ProceedIfValid("top", NewCheckpoint(preps))
      PROVE  IInv' /\ Blameless
  <2>1. PICK d : d = NewCheckpoint(preps)
    OBVIOUS
  <2>2. Held(d)
    BY <1>2, <1>4, <2>1, NewHeld
  <2>3. Proceed("top", d) /\ UNCHANGED asked
    BY <1>4, <2>1, <2>2 DEF ProceedIfValid, Held
  <2>4. UNCHANGED <<config, outcome, flight, saved, steps, used, history, policy, env, ghosts>>
    BY <2>3 DEF Proceed, ghosts
  <2>5. Held(d)'
    BY <2>2, <2>4, HeldSame DEF ghosts
  <2>6. pending' = d /\ pc' = "top"
    BY <2>3 DEF Proceed
  <2>7. Custody' /\ Between' /\ Current' = d
    BY <1>1, <2>4, <2>5, <2>6, RunHolds
  <2>8. Types'
    BY <1>2, <2>4, <2>6 DEF TypeOK, Types, env, ghosts, Places
  <2>9. Entries' /\ EntriesBounded'
    <3>1. UNCHANGED <<config, steps, history, entered>>
      BY <2>4 DEF ghosts
    <3> QED
      BY <1>1, <2>7, <3>1, EntriesSame DEF IInv
  <2>10. Dispatch'
    BY <1>1, <2>4, <2>6 DEF Dispatch
  <2> QED
    BY <2>4, <2>7, <2>8, <2>9, <2>10, Joined DEF Blameless
<1>5. ASSUME NEW n \in Calls, used + n <= config.maxToolCalls,
             NEW preps \in [1..n -> config.preps \cup PrepFailures],
             {c \in 1..n : PrepFatal(preps[c]) # Null} # {},
             EndQuietly(PrepFatal(preps[First({c \in 1..n : PrepFatal(preps[c]) # Null})]))
      PROVE  IInv' /\ Blameless
  <2>1. PICK S : S = {c \in 1..n : PrepFatal(preps[c]) # Null}
    OBVIOUS
  <2>2. n \in Nat /\ S \in SUBSET Nat /\ S # {}
    BY <1>5, <2>1, EngineAssumption DEF Calls
  <2>3. First(S) \in S
    BY <2>2, FirstIn
  <2>4. PrepFatal(preps[First(S)]) # Null
    BY <2>1, <2>3
  <2>5. PrepFatal(preps[First(S)]) \in Ends
    BY <2>4, Reasons
  <2>6. EndQuietly(PrepFatal(preps[First(S)]))
    BY <1>5, <2>1
  <2> QED
    BY <2>5, <2>6, QuietEndHolds
<1>6. \/ \E reason \in Ends : EndQuietly(reason)
      \/ \E n \in Calls : used + n <= config.maxToolCalls /\
            \E preps \in [1..n -> config.preps \cup PrepFailures] :
               \/ ProceedIfValid("top", NewCheckpoint(preps))
               \/ /\ {c \in 1..n : PrepFatal(preps[c]) # Null} # {}
                  /\ EndQuietly(PrepFatal(preps[First({c \in 1..n : PrepFatal(preps[c]) # Null})]))
  <2>1. CASE EndQuietly("failed")
    BY <2>1, Reasons
  <2>2. ASSUME NEW n \in Calls, used + n > config.maxToolCalls, EndQuietly("over_budget")
        PROVE  \E reason \in Ends : EndQuietly(reason)
    BY <2>2, Reasons
  <2>3. CASE EndQuietly(StopReason)
    BY <2>3, Reasons
  <2>4. \A n \in Calls : ~(used + n > config.maxToolCalls) => used + n <= config.maxToolCalls
    BY <1>2, ConfigType DEF TypeOK
  <2> QED
    BY <2>1, <2>2, <2>3, <2>4 DEF initialize_pending
<1> QED
  BY <1>3, <1>4, <1>5, <1>6

\* Sizes of batches are numbers.
LEMMA CallsSeq ==
    ASSUME NEW h \in Seq(Calls)
    PROVE  h \in Seq(Nat) /\ Calls \subseteq Nat
<1>1. PICK m \in Nat : m = Len(h)
  OBVIOUS
<1>2. Calls \subseteq Nat
  BY DEF Calls
<1>3. h \in [1..m -> Calls]
  BY <1>1
<1>4. h \in [1..m -> Nat]
  BY <1>2, <1>3
<1>5. h \in Seq(Nat)
  BY <1>1, <1>4, LenProperties
<1> QED
  BY <1>2, <1>5

\* A held checkpoint replaces the run's, outside of tool execution.
LEMMA ReplaceHolds ==
    ASSUME IInv, NEW d, Held(d)', pending' = d, pc # "tools", pc # "ended", saved' = Null, flight' = <<>>,
           pc' \in {"resume", "top", "pending", "stage"}, pc' = "stage" => Settled(d)', Types',
           UNCHANGED <<config, steps, history, entered>>,
           NEW cp, cp = Current, cp # Null,
           DOMAIN d.calls = DOMAIN cp.calls, In(d, "ready") \subseteq In(cp, "ready"), outcome' = outcome
    PROVE  IInv' /\ Blameless
<1>1. Custody' /\ Between' /\ Current' = d
  BY RunHolds DEF Working
<1>2. d # Null
  <2>1. CheckpointOK(d)'
    BY DEF Held
  <2> QED
    BY <2>1, EngineAssumption DEF CheckpointOK
<1>3. \A c : Spent(cp, c) => Spent(d, c)'
  BY DEF Spent, In
<1>4. Entries' /\ EntriesBounded'
  BY <1>1, <1>2, <1>3, EntriesSame DEF IInv
<1>5. pc' = "stage" => Settled(pending)'
  OBVIOUS
<1>6. Dispatch'
  BY <1>5 DEF Dispatch
<1> QED
  BY <1>1, <1>4, <1>6, Joined DEF Blameless

\* Ready calls are prepared again, decided and planned.
LEMMA RefreshHolds ==
    ASSUME IInv, refresh_ready
    PROVE  IInv' /\ Blameless
<1>1. pc = "pending" /\ pending # Null /\ saved = Null /\ flight = <<>> /\ Current = pending /\ TypeOK
  BY DEF refresh_ready, IInv, Custody, Working, Dispatch, Current
<1>2. PICK cp : cp = pending
  OBVIOUS
<1>3. Held(cp)
  BY <1>1, <1>2 DEF IInv, Custody
<1>4. In(cp, "awaiting") = {}
  BY <1>2 DEF refresh_ready
<1>5. CASE \E reason \in Ends : EndQuietly(reason)
  BY <1>5, QuietEndHolds
<1>6. ASSUME NEW preps \in [In(cp, "ready") -> config.preps \cup PrepFailures],
             NEW d, d = Recount(Restage(Decided(Recount(Reprepare(cp, preps))))),
             Proceed("stage", d), asked' = asked \cup {ApprovalId(d, c) : c \in Unconfirmed(d)}
      PROVE  IInv' /\ Blameless
  <2>1. /\ CheckpointOK(d) /\ Valid(d) /\ Settled(d)
        /\ DOMAIN d.calls = DOMAIN cp.calls /\ In(d, "ready") \subseteq In(cp, "ready")
        /\ \A c \in DOMAIN d.calls : d.approvals[c] # Null =>
              /\ ApprovalId(d, c) \in asked \/ c \in Unconfirmed(d)
              /\ IF d.approvals[c].evidence
                 THEN ApprovalId(d, c) \in confirmed ELSE d.calls[c].state = "ready"
        /\ \A c \in Unconfirmed(d) : ApprovalId(d, c) \in (1..MaxSteps) \X Calls \X Preps \X Policies
    BY <1>1, <1>3, <1>4, <1>6, RefreshHeld
  <2>2. UNCHANGED <<config, outcome, flight, saved, steps, used, history, policy, env, entered, confirmed>>
    BY <1>6 DEF Proceed
  <2>3. Held(d)'
    <3>1. \A c \in DOMAIN d.calls : d.approvals[c] # Null =>
              /\ ApprovalId(d, c) \in asked'
              /\ IF d.approvals[c].evidence
                 THEN ApprovalId(d, c) \in confirmed' ELSE d.calls[c].state = "ready"
      BY <1>6, <2>1, <2>2
    <3> QED
      BY <2>1, <2>2, <3>1, HeldNext
  <2>4. Settled(d)'
    BY <2>1, <2>2, PolicySame
  <2>5. asked' \subseteq (1..MaxSteps) \X Calls \X Preps \X Policies
    BY <1>1, <1>6, <2>1 DEF TypeOK
  <2>6. Types'
    BY <1>1, <1>6, <2>2, <2>5 DEF TypeOK, Types, env, Places, Proceed
  <2>7. pending' = d /\ pc' = "stage"
    BY <1>6 DEF Proceed
  <2> QED
    BY <1>1, <1>2, <2>1, <2>2, <2>3, <2>4, <2>6, <2>7, ReplaceHolds
<1>7. \/ \E reason \in Ends : EndQuietly(reason)
      \/ \E preps \in [In(cp, "ready") -> config.preps \cup PrepFailures] :
            \E d : /\ d = Recount(Restage(Decided(Recount(Reprepare(cp, preps)))))
                   /\ Proceed("stage", d)
                   /\ asked' = asked \cup {ApprovalId(d, c) : c \in Unconfirmed(d)}
  <2>1. PICK preps \in [In(cp, "ready") -> config.preps \cup PrepFailures] :
        LET offending == {c \in DOMAIN preps :
                             PrepFatal(preps[c]) # Null \/ PrepChanged(cp, c, preps[c])}
            prepared == Recount(Reprepare(cp, preps))
            ready == In(prepared, "ready")
            decided == Recount(Restage(Decided(prepared)))
        IN
        IF offending # {}
        THEN EndQuietly(IF PrepFatal(preps[First(offending)]) # Null
                        THEN PrepFatal(preps[First(offending)]) ELSE "failed")
        ELSE IF \E c \in ready : \/ Stale(prepared, c)
                                 \/ config.failTurn /\ Decision(prepared, c) = "deny"
        THEN EndQuietly("failed")
        ELSE IF ~Valid(decided)
        THEN EndQuietly("invalid")
        ELSE /\ Proceed("stage", decided)
             /\ asked' = asked \cup {ApprovalId(decided, c) : c \in Unconfirmed(decided)}
    BY <1>2, ZenonT(30) DEF refresh_ready
  <2> DEFINE offending == {c \in DOMAIN preps :
                             PrepFatal(preps[c]) # Null \/ PrepChanged(cp, c, preps[c])}
             reason == IF PrepFatal(preps[First(offending)]) # Null
                       THEN PrepFatal(preps[First(offending)]) ELSE "failed"
  <2>2. reason \in Ends
    BY Reasons
  <2>3. CASE offending # {}
    BY <2>1, <2>2, <2>3
  <2>4. CASE offending = {}
    <3> DEFINE prepared == Recount(Reprepare(cp, preps))
               decided == Recount(Restage(Decided(prepared)))
    <3>v. Valid(decided)
      BY <1>1, <1>3, <1>4, RefreshHeld
    <3>1. \/ EndQuietly("failed")
          \/ /\ Proceed("stage", decided)
             /\ asked' = asked \cup {ApprovalId(decided, c) : c \in Unconfirmed(decided)}
      BY <2>1, <2>4, <3>v
    <3> HIDE DEF offending, reason
    <3> QED
      BY <3>1, Reasons
  <2> QED
    BY <2>3, <2>4
<1> QED
  BY <1>5, <1>6, <1>7

\* The batch's results join the messages.
LEMMA FinishHolds ==
    ASSUME IInv, finish_batch
    PROVE  IInv' /\ Blameless
<1>1. /\ pc = "pending" /\ pending # Null /\ saved = Null /\ flight = <<>> /\ Current = pending /\ TypeOK
      /\ pending' = Null /\ saved' = Null /\ flight' = <<>> /\ pc' = "top"
      /\ UNCHANGED <<config, outcome, steps, policy, env, ghosts>>
  BY DEF finish_batch, IInv, Custody, Working, Dispatch, Current
<1>2. PICK cp : cp = pending
  OBVIOUS
<1>3. Held(cp)
  BY <1>1, <1>2 DEF IInv, Custody
<1>4. PICK n \in Calls :
              /\ Shape(cp, n) /\ n \in Nat
              /\ DOMAIN cp.calls = 1..n /\ \A c \in 1..n : CallValid(cp.calls[c])
              /\ cp.calls \in [1..n -> Call]
              /\ config.maxToolCalls \in Nat /\ used \in Nat /\ used + n <= config.maxToolCalls
              /\ cp.used = used + Charged(cp)
              /\ Total(history) = used /\ steps = Len(history) + 1 /\ steps \in 1..config.maxSteps
              /\ history \in Seq(Calls) /\ Len(history) \in Nat
              /\ Cardinality(DOMAIN cp.calls) = n
  BY <1>1, <1>3, HeldFacts
<1>5. cp.used = used + n
  <2>1. In(cp, "completed") = 1..n
    BY <1>2, <1>4 DEF finish_batch
  <2>2. \A c \in 1..n : cp.calls[c].charged
    <3> SUFFICES ASSUME NEW c \in 1..n
                 PROVE  cp.calls[c].charged
      OBVIOUS
    <3>1. cp.calls[c].state = "completed"
      BY <2>1 DEF In
    <3>2. cp.calls[c] \in Call /\ CallValid(cp.calls[c])
      BY <1>4
    <3> QED
      BY <3>1, <3>2, CallFacts
  <2>3. Charged(cp) = n
    BY <1>4, <2>2, ChargedBound
  <2> QED
    BY <1>4, <2>3
<1>6. used' = used + n /\ history' = Append(history, n)
  BY <1>2, <1>4, <1>5 DEF finish_batch
<1>7. history \in Seq(Nat) /\ Calls \subseteq Nat
  BY <1>4, CallsSeq
<1>8. /\ history' \in Seq(Calls) /\ Len(history') = Len(history) + 1
      /\ \A i \in 1..Len(history) : history'[i] = history[i]
      /\ history'[Len(history) + 1] = n
  BY <1>4, <1>6
<1>9. Total(history') = used'
  <2>1. Total(Append(history, n)) = Total(history) + n
    BY <1>4, <1>7, TotalAppend
  <2> QED
    BY <1>4, <1>6, <2>1
<1>10. Types'
  <2>1. used' \in 0..config'.maxToolCalls
    BY <1>1, <1>4, <1>6
  <2> QED
    BY <1>1, <1>8, <2>1 DEF TypeOK, Types, env, ghosts, Places
<1>11. Custody' /\ Current' = Null
  BY <1>1, NobodyHolds
<1>12. Between'
  BY <1>1, <1>4, <1>8, <1>9 DEF Between
<1>13. Entries'
  <2> SUFFICES ASSUME NEW i \in 1..MaxSteps, NEW c \in Calls, entered[i][c] # 0
               PROVE  entered[i][c] = 1 /\ i <= Len(history') /\ c <= history'[i]
    BY <1>1 DEF Entries, Accounted, ghosts
  <2>1. entered[i][c] = 1 /\ Accounted(i, c)
    BY <1>1 DEF IInv, Entries
  <2>2. CASE i <= Len(history) /\ c <= history[i]
    <3>1. i \in 1..Len(history)
      BY <1>4, <2>2, ConfigType, <1>1
    <3> QED
      BY <1>4, <1>8, <2>1, <2>2, <3>1
  <2>3. CASE i = steps /\ Spent(cp, c)
    <3>1. c \in 1..n
      BY <1>4, <2>3 DEF Spent
    <3> QED
      BY <1>4, <1>8, <2>1, <2>3, <3>1
  <2> QED
    BY <1>1, <1>2, <2>1, <2>2, <2>3 DEF Accounted
<1>14. Dispatch'
  BY <1>1 DEF Dispatch
<1>15. EntriesBounded'
  BY <1>1 DEF IInv, EntriesBounded, ghosts
<1> QED
  BY <1>1, <1>10, <1>11, <1>12, <1>13, <1>14, <1>15, Joined DEF Blameless

\* A suspension is handed to the host, changed there, and nobody dispatches meanwhile.
LEMMA SavedHolds ==
    ASSUME IInv, NEW d, Held(d)', saved' = d, pending' = Null, pc' = "suspended", flight' = <<>>,
           pc \in {"suspend", "suspended"}, Types', outcome' = outcome,
           UNCHANGED <<config, steps, history, entered>>,
           NEW cp, cp = Current, cp # Null,
           DOMAIN d.calls = DOMAIN cp.calls, In(d, "ready") \subseteq In(cp, "ready")
    PROVE  IInv' /\ Blameless
<1>1. Custody' /\ Between' /\ Current' = d
  BY HostHolds
<1>2. d # Null
  <2>1. CheckpointOK(d)'
    BY DEF Held
  <2> QED
    BY <2>1, EngineAssumption DEF CheckpointOK
<1>3. \A c : Spent(cp, c) => Spent(d, c)'
  BY DEF Spent, In
<1>4. Entries' /\ EntriesBounded'
  BY <1>1, <1>2, <1>3, EntriesSame DEF IInv
<1>5. Dispatch'
  BY DEF Dispatch
<1> QED
  BY <1>1, <1>4, <1>5, Joined DEF Blameless

\* The run suspends on what it waits for; it is never stuck.
LEMMA SuspendHolds ==
    ASSUME IInv, suspend_pending
    PROVE  IInv' /\ Blameless
<1>1. /\ pc = "suspend" /\ pending # Null /\ saved = Null /\ flight = <<>> /\ Current = pending /\ TypeOK
      /\ Unconfirmed(pending) \cup In(pending, "awaiting") # {}
  BY DEF suspend_pending, IInv, Custody, Working, Dispatch, Current
<1>2. PICK cp : cp = pending
  OBVIOUS
<1>3. Held(cp) /\ Valid(pending)
  BY <1>1, <1>2 DEF IInv, Custody, Held
<1>4. CASE EndQuietly("failed")
  BY <1>4, QuietEndHolds, Reasons
<1>5. CASE /\ pc' = "suspended" /\ saved' = pending /\ pending' = Null
           /\ UNCHANGED <<config, outcome, steps, used, history, flight, policy, env, ghosts>>
  <2>1. Held(cp)'
    BY <1>3, <1>5, HeldSame DEF ghosts
  <2>2. Types'
    BY <1>1, <1>5 DEF TypeOK, Types, env, ghosts, Places
  <2>3. UNCHANGED <<config, outcome, steps, history, entered>> /\ flight' = <<>>
    BY <1>1, <1>5 DEF ghosts
  <2> QED
    BY <1>1, <1>2, <1>5, <2>1, <2>2, <2>3, SavedHolds
<1> QED
  BY <1>1, <1>3, <1>4, <1>5 DEF suspend_pending

\* An approval given in process becomes evidence.
LEMMA ReceiveHolds ==
    ASSUME IInv, receive_approval
    PROVE  IInv' /\ Blameless
<1>1. /\ pc = "approval" /\ pending # Null /\ saved = Null /\ flight = <<>> /\ Current = pending /\ TypeOK
      /\ pc' = "pending" /\ approved' \subseteq approved
      /\ UNCHANGED <<config, outcome, run, flight, saved, policy, cancelled, expired, asked, entered>>
  BY DEF receive_approval, IInv, Custody, Working, Dispatch, Current
<1>2. PICK cp : cp = pending
  OBVIOUS
<1>3. Held(cp)
  BY <1>1, <1>2 DEF IInv, Custody
<1>4. PICK c \in Unconfirmed(cp) :
        /\ pending' = Confirm(cp, c)
        /\ confirmed' = confirmed \cup {ApprovalId(cp, c)}
  BY <1>2 DEF receive_approval, Confirm
<1>5. PICK d : d = Confirm(cp, c)
  OBVIOUS
<1>6. /\ CheckpointOK(d) /\ Valid(d) /\ d.calls = cp.calls
      /\ ApprovalId(cp, c) \in asked
      /\ \A e \in DOMAIN d.calls : d.approvals[e] # Null =>
            /\ ApprovalId(d, e) \in asked
            /\ IF d.approvals[e].evidence
               THEN ApprovalId(d, e) \in confirmed \cup {ApprovalId(cp, c)}
               ELSE d.calls[e].state = "ready"
  BY <1>1, <1>3, <1>5, ConfirmHeld
<1>7. Held(d)'
  BY <1>1, <1>4, <1>6, HeldNext DEF run
<1>8. Types'
  BY <1>1, <1>4, <1>6 DEF TypeOK, Types, run, Places
<1>9. UNCHANGED <<config, outcome, steps, history, entered>> /\ pending' = d /\ saved' = Null /\ flight' = <<>>
  BY <1>1, <1>4, <1>5 DEF run
<1>10. DOMAIN d.calls = DOMAIN cp.calls /\ In(d, "ready") \subseteq In(cp, "ready")
  BY <1>6 DEF In
<1> QED
  BY <1>1, <1>2, <1>7, <1>8, <1>9, <1>10, ReplaceHolds

\* The host merges a confirmation.
LEMMA MergeApprovalHolds ==
    ASSUME IInv, merge_approval
    PROVE  IInv' /\ Blameless
<1>1. /\ pc = "suspended" /\ saved # Null /\ pending = Null /\ flight = <<>> /\ Current = saved /\ TypeOK
      /\ UNCHANGED <<config, pc, outcome, run, pending, flight, policy, env, asked, entered>>
  BY DEF merge_approval, IInv, Custody, Without, Dispatch, Current
<1>2. PICK cp : cp = saved
  OBVIOUS
<1>3. Held(cp)
  BY <1>1, <1>2 DEF IInv, Custody
<1>4. PICK c \in Unconfirmed(cp) :
        /\ saved' = Confirm(cp, c)
        /\ confirmed' = confirmed \cup {ApprovalId(cp, c)}
  BY <1>2 DEF merge_approval, Confirm
<1>5. PICK d : d = Confirm(cp, c)
  OBVIOUS
<1>6. /\ CheckpointOK(d) /\ Valid(d) /\ d.calls = cp.calls
      /\ ApprovalId(cp, c) \in asked
      /\ \A e \in DOMAIN d.calls : d.approvals[e] # Null =>
            /\ ApprovalId(d, e) \in asked
            /\ IF d.approvals[e].evidence
               THEN ApprovalId(d, e) \in confirmed \cup {ApprovalId(cp, c)}
               ELSE d.calls[e].state = "ready"
  BY <1>1, <1>3, <1>5, ConfirmHeld
<1>7. Held(d)'
  BY <1>1, <1>4, <1>6, HeldNext DEF run
<1>8. Types'
  BY <1>1, <1>4, <1>6 DEF TypeOK, Types, run, env, Places
<1>9. UNCHANGED <<config, outcome, steps, history, entered>> /\ saved' = d /\ pending' = Null /\ flight' = <<>>
  BY <1>1, <1>4, <1>5 DEF run
<1>10. DOMAIN d.calls = DOMAIN cp.calls /\ In(d, "ready") \subseteq In(cp, "ready")
  BY <1>6 DEF In
<1> QED
  BY <1>1, <1>2, <1>7, <1>8, <1>9, <1>10, SavedHolds

\* The host merges results.
LEMMA MergeExternalHolds ==
    ASSUME IInv, merge_external
    PROVE  IInv' /\ Blameless
<1>1. /\ pc = "suspended" /\ saved # Null /\ pending = Null /\ flight = <<>> /\ Current = saved /\ TypeOK
      /\ UNCHANGED <<config, pc, outcome, run, pending, flight, policy, env, ghosts>>
  BY DEF merge_external, IInv, Custody, Without, Dispatch, Current
<1>2. PICK cp : cp = saved
  OBVIOUS
<1>3. Held(cp)
  BY <1>1, <1>2 DEF IInv, Custody
<1>s. PICK S \in SUBSET In(cp, "awaiting") : \E got \in [S -> {"ok", "error"}] :
        saved' = Resolved(cp, S, got)
  <2>1. PICK S \in SUBSET In(saved, "awaiting") : \E got \in [S -> {"ok", "error"}] :
        saved' = Resolved(saved, S, got)
    BY DEF merge_external, Resolved
  <2> QED
    BY <1>2, <2>1
<1>4. PICK got \in [S -> {"ok", "error"}] :
        saved' = Resolved(cp, S, got)
  BY <1>s
<1>5. PICK d : d = Resolved(cp, S, got)
  OBVIOUS
<1>6. /\ CheckpointOK(d) /\ Valid(d)
      /\ DOMAIN d.calls = DOMAIN cp.calls /\ In(d, "ready") = In(cp, "ready")
      /\ \A e \in DOMAIN d.calls : d.approvals[e] # Null =>
            /\ ApprovalId(d, e) \in asked
            /\ IF d.approvals[e].evidence
               THEN ApprovalId(d, e) \in confirmed ELSE d.calls[e].state = "ready"
  BY <1>1, <1>3, <1>5, ResolveHeld
<1>7. Held(d)'
  BY <1>1, <1>6, HeldNext DEF run, ghosts
<1>8. Types'
  BY <1>1 DEF TypeOK, Types, run, env, ghosts, Places
<1>9. UNCHANGED <<config, outcome, steps, history, entered>> /\ saved' = d /\ pending' = Null /\ flight' = <<>>
  BY <1>1, <1>4, <1>5 DEF run, ghosts
<1> QED
  BY <1>1, <1>2, <1>6, <1>7, <1>8, <1>9, SavedHolds

\* A suspension is resumed: the counters restored are the run's own.
LEMMA ResumeHolds ==
    ASSUME IInv, resume_checkpoint
    PROVE  IInv' /\ Blameless
<1>1. pc = "suspended" /\ saved # Null /\ pending = Null /\ flight = <<>> /\ Current = saved /\ TypeOK
  BY DEF resume_checkpoint, IInv, Custody, Without, Dispatch, Current
<1>2. PICK cp : cp = saved
  OBVIOUS
<1>3. Held(cp) /\ Valid(saved) /\ CheckpointOK(cp)
  BY <1>1, <1>2 DEF IInv, Custody, Held
<1>4. /\ pc' = "resume" /\ pending' = cp /\ saved' = Null
      /\ steps' = cp.steps /\ history' = cp.history /\ used' = cp.prior /\ cancelled' = FALSE
      /\ UNCHANGED <<config, outcome, flight, expired, approved, ghosts>>
  BY <1>2, <1>3 DEF resume_checkpoint, RestoredUsage
<1>5. steps' = steps /\ history' = history /\ used' = used
  BY <1>3, <1>4 DEF CheckpointOK
<1>6. Held(cp)'
  BY <1>3, <1>4, <1>5, HeldSame DEF ghosts
<1>7. policy' \in Policies
  BY <1>1, ConfigType DEF resume_checkpoint
<1>8. Types'
  BY <1>1, <1>4, <1>5, <1>7 DEF TypeOK, Types, ghosts, Places
<1>9. UNCHANGED <<config, outcome, steps, history, entered>> /\ flight' = <<>>
  BY <1>1, <1>4, <1>5 DEF ghosts
<1> QED
  BY <1>1, <1>2, <1>4, <1>6, <1>8, <1>9, ReplaceHolds

\* A stage without a runnable call waits for an approval.
LEMMA StageBlocked ==
    ASSUME TypeOK, NEW cp, Held(cp), Settled(cp), cp.index < Len(cp.stages), Runnable(cp) = {}
    PROVE  Unconfirmed(cp) # {}
<1>1. PICK n \in Calls : Shape(cp, n) /\ DOMAIN cp.calls = 1..n /\ \A c \in 1..n : CallValid(cp.calls[c])
  BY HeldFacts
<1>2. StagesPartition(cp) /\ cp.index + 1 \in DOMAIN cp.stages
  <2>1. cp.index \in 0..1 /\ cp.stages \in Seq(SUBSET (1..n)) /\ Len(cp.stages) \in Nat
    BY <1>1 DEF Shape
  <2>2. cp.index + 1 \in 1..Len(cp.stages)
    BY <2>1
  <2>3. DOMAIN cp.stages = 1..Len(cp.stages)
    BY <2>1
  <2> QED
    BY <2>2, <2>3 DEF Held, Valid
<1>3. PICK c : c \in cp.stages[cp.index + 1]
  BY <1>2 DEF StagesPartition
<1>4. cp.calls[c].state = "ready"
  BY <1>3 DEF Settled
<1>5. PICK e \in DOMAIN cp.calls : cp.approvals[e] # Null /\ ~cp.approvals[e].evidence
  BY <1>3, <1>4 DEF Runnable
<1>6. cp.calls[e].state = "ready"
  BY <1>5 DEF Held
<1> QED
  BY <1>5, <1>6 DEF Unconfirmed, In

\* A stage is dispatched, skipped, or waits.
LEMMA DispatchHolds ==
    ASSUME IInv, dispatch_current_stage
    PROVE  IInv' /\ Blameless
<1>1. /\ pc = "stage" /\ pending # Null /\ saved = Null /\ flight = <<>> /\ Current = pending /\ TypeOK
      /\ {cancelled, expired} \subseteq BOOLEAN /\ approved \subseteq {ToolOf[c] : c \in Calls}
  BY DEF dispatch_current_stage, IInv, Custody, Working, Dispatch, Current, TypeOK
<1>2. PICK cp : cp = pending
  OBVIOUS
<1>3. Held(cp) /\ Settled(cp)
  BY <1>1, <1>2 DEF IInv, Custody, Dispatch
<1>l. pending.index \in Nat /\ Len(pending.stages) \in Nat
  <2>1. PICK n \in Calls : Shape(cp, n)
    BY <1>1, <1>3, HeldFacts
  <2> QED
    BY <1>2, <2>1 DEF Shape
<1>4. CASE pending.index >= Len(pending.stages)
  <2>1. Proceed("pending", pending) /\ UNCHANGED asked
    BY <1>4 DEF dispatch_current_stage
  <2>2. pc' = "pending" /\ UNCHANGED <<config, outcome, steps, used, history, pending, flight, saved, policy,
                       asked, confirmed, entered, cancelled, expired, approved>>
    BY <2>1 DEF Proceed, env
  <2> QED
    BY <1>1, <2>2, MoveHolds DEF Places, Working, Without
<1>5. CASE pending.index < Len(pending.stages) /\ Runnable(pending) = {}
  <2>1. Proceed("suspend", pending) /\ UNCHANGED asked
    BY <1>5, <1>l DEF dispatch_current_stage
  <2>2. pc' = "suspend" /\ UNCHANGED <<config, outcome, steps, used, history, pending, flight, saved, policy,
                       asked, confirmed, entered, cancelled, expired, approved>>
    BY <2>1 DEF Proceed, env
  <2>3. Unconfirmed(cp) # {}
    BY <1>1, <1>2, <1>3, <1>5, StageBlocked
  <2>4. Unconfirmed(pending) \cup In(pending, "awaiting") # {}
    BY <1>2, <2>3
  <2> QED
    BY <1>1, <2>2, <2>4, MoveHolds DEF Places, Working, Without
<1>6. CASE EndQuietly("failed")
  BY <1>6, QuietEndHolds, Reasons
<1>7. ASSUME pending.index < Len(pending.stages), \A c \in Runnable(pending) : Grantable(pending, c),
             pc' = "tools", flight' = [c \in Runnable(pending) |-> "admit"],
             UNCHANGED <<config, outcome, run, pending, saved, policy, env, ghosts>>
      PROVE  IInv' /\ Blameless
  <2>1. UNCHANGED <<config, outcome, steps, used, history, pending, saved, policy, asked, confirmed, entered,
                    cancelled, expired, approved>>
    BY <1>7 DEF run, env, ghosts
  <2>2. Types'
    BY <1>1, <1>7, <2>1 DEF TypeOK, Types, Places
  <2>3. Held(cp)'
    BY <1>3, <2>1, HeldSame
  <2>4. Custody' /\ Between' /\ Current' = cp
    BY <1>1, <1>2, <1>7, <2>1, <2>3, RunHolds DEF Working
  <2>5. Entries' /\ EntriesBounded'
    <3>1. \A c : Spent(cp, c) => Spent(cp, c)'
      BY <1>1 DEF Spent
    <3> QED
      BY <1>1, <1>2, <2>1, <2>4, <3>1, EntriesSame DEF IInv
  <2>6. Settled(cp)' /\ Runnable(cp)' = Runnable(cp) /\ \A c : Grantable(cp, c) => Grantable(cp, c)'
    BY <1>3, <2>1, PolicySame
  <2>7. /\ Settled(pending)' /\ Runnable(pending)' = Runnable(pending)
        /\ \A c : Grantable(pending, c) => Grantable(pending, c)'
    <3>1. pending' = cp
      BY <1>2, <2>1
    <3>2. Settled(pending)' /\ Runnable(pending)' = Runnable(cp)
      BY <2>6, <3>1
    <3>3. \A c : Grantable(cp, c) => Grantable(pending, c)'
      BY <2>6, <3>1
    <3> QED
      BY <1>2, <3>2, <3>3
  <2>8. Dispatch'
    <3>1. flight' \in [Runnable(pending)' -> Seen \cup Waits]
      BY <1>7, <2>7 DEF Seen
    <3>2. \A c \in DOMAIN flight' : Grantable(pending, c)'
      BY <1>7, <2>7
    <3>3. pending'.index < Len(pending'.stages)
      BY <1>7, <2>1
    <3> QED
      BY <1>7, <2>7, <3>1, <3>2, <3>3 DEF Dispatch
  <2> QED
    BY <2>1, <2>2, <2>4, <2>5, <2>8, Joined DEF Blameless
<1> QED
  BY <1>4, <1>5, <1>6, <1>7, <1>l DEF dispatch_current_stage

\* What holds of a dispatched call.
LEMMA FlightCall ==
    ASSUME IInv, pc = "tools", NEW c \in DOMAIN flight
    PROVE  /\ Held(pending) /\ Settled(pending) /\ Current = pending /\ pending # Null /\ saved = Null
           /\ pending.index < Len(pending.stages)
           /\ c \in Runnable(pending) /\ c \in In(pending, "ready") /\ c \in DOMAIN pending.calls
           /\ pending.calls[c].state = "ready" /\ pending.calls[c].prep \in Preps
           /\ c \in Calls /\ pending.steps = steps /\ steps \in 1..MaxSteps /\ steps = Len(history) + 1
           /\ c \in pending.stages[pending.index + 1]
           /\ \/ Decision(pending, c) = "allow" /\ pending.approvals[c] = Null
              \/ /\ Decision(pending, c) = "ask"
                 /\ \A e \in DOMAIN pending.calls : pending.approvals[e] # Null => pending.approvals[e].evidence
<1>1. /\ pending # Null /\ saved = Null /\ Current = pending /\ TypeOK /\ Settled(pending)
      /\ pending.index < Len(pending.stages) /\ c \in Runnable(pending)
  BY DEF IInv, Custody, Working, Dispatch, Current
<1>2. PICK cp : cp = pending
  OBVIOUS
<1>3. Held(pending)
  BY <1>1 DEF IInv, Custody
<1>4. Held(cp) /\ Settled(cp) /\ cp.index < Len(cp.stages) /\ c \in Runnable(cp)
  BY <1>1, <1>2, <1>3
<1>5. /\ c \in In(cp, "ready") /\ c \in DOMAIN cp.calls /\ cp.calls[c].prep \in Preps
      /\ c \in cp.stages[cp.index + 1]
      /\ \/ Decision(cp, c) = "allow" /\ cp.approvals[c] = Null
         \/ Decision(cp, c) = "ask" /\ \A e \in DOMAIN cp.calls : cp.approvals[e] # Null => cp.approvals[e].evidence
  BY <1>1, <1>4, FlightFacts
<1>6. PICK n \in Calls :
         /\ 1..n \subseteq Calls /\ DOMAIN cp.calls = 1..n /\ cp.steps = steps
         /\ config.maxSteps \in 1..MaxSteps /\ MaxSteps \in Nat
         /\ steps = Len(history) + 1 /\ steps \in 1..config.maxSteps
  BY <1>1, <1>4, HeldFacts
<1>7. steps \in 1..MaxSteps /\ c \in Calls /\ cp.calls[c].state = "ready"
  BY <1>5, <1>6 DEF In
<1> QED
  BY <1>1, <1>2, <1>3, <1>5, <1>6, <1>7

\* An observation of a dispatched call.
LEMMA ObserveHolds ==
    ASSUME IInv, pc = "tools", NEW c \in DOMAIN flight, NEW o \in Seen \cup Waits, Observe(c, o),
           UNCHANGED <<asked, confirmed>>,
           entered' \in [1..MaxSteps -> [Calls -> Nat]], Entries', EntriesBounded'
    PROVE  IInv' /\ Blameless
<1>1. /\ flight' = [flight EXCEPT ![c] = o] /\ pc' = "tools"
      /\ UNCHANGED <<config, outcome, steps, used, history, pending, saved, policy, asked, confirmed,
                     cancelled, expired, approved>>
  BY DEF Observe, run, env
<1>2. PICK cp : cp = pending
  OBVIOUS
<1>3. Held(cp) /\ Settled(cp) /\ saved = Null /\ cp.index < Len(cp.stages) /\ TypeOK
  BY <1>2, FlightCall DEF IInv
<1>4. Types'
  BY <1>1, <1>3 DEF TypeOK, Types, Places
<1>5. Held(cp)'
  BY <1>1, <1>3, HeldSame
<1>6. Custody' /\ Between'
  BY <1>1, <1>2, <1>3, <1>5, RunHolds DEF Working
<1>7. Settled(cp)' /\ Runnable(cp)' = Runnable(cp) /\ \A e : Grantable(cp, e) => Grantable(cp, e)'
  BY <1>1, <1>3, PolicySame
<1>8. pending' = cp
  BY <1>1, <1>2
<1>9. Settled(pending)' /\ Runnable(pending)' = Runnable(cp) /\ \A e : Grantable(cp, e) => Grantable(pending, e)'
  <2>1. Settled(pending)' /\ Runnable(pending)' = Runnable(cp)
    BY <1>7, <1>8
  <2>2. \A e : Grantable(cp, e) => Grantable(pending, e)'
    BY <1>7, <1>8
  <2> QED
    BY <2>1, <2>2
<1>10. flight \in [Runnable(cp) -> Seen \cup Waits] /\ \A e \in DOMAIN flight : Grantable(cp, e)
  BY <1>2 DEF IInv, Dispatch
<1>11. flight' \in [Runnable(pending)' -> Seen \cup Waits] /\ DOMAIN flight' = DOMAIN flight
  BY <1>1, <1>9, <1>10
<1>12. Dispatch'
  <2>1. \A e \in DOMAIN flight' : Grantable(pending, e)'
    BY <1>9, <1>10, <1>11
  <2>2. pending'.index < Len(pending'.stages)
    BY <1>3, <1>8
  <2> QED
    BY <1>1, <1>9, <1>11, <2>1, <2>2 DEF Dispatch
<1> QED
  BY <1>1, <1>4, <1>6, <1>12, Joined DEF Blameless

\* A call that is refused, returns or is dropped.
LEMMA AnsweredHolds ==
    ASSUME IInv, NEW c \in DOMAIN flight, refuse_tool(c) \/ return_tool(c) \/ cancel_tool(c)
    PROVE  IInv' /\ Blameless
<1>1. PICK o \in (Seen \cup Waits) \ {"admit"} : Observe(c, o)
  <2>1. config.waits \subseteq Waits
    BY ConfigType DEF IInv
  <2>2. (config.waits \cup Seen) \ {"admit"} \subseteq (Seen \cup Waits) \ {"admit"}
    BY <2>1
  <2>3. \A o \in config.waits : o # "admit"
    BY <2>1, EngineAssumption DEF Seen
  <2>4. {"ok", "error", "invalid", "timed_out", "uncertain", "cancelled"} \cup config.waits \subseteq (Seen \cup Waits) \ {"admit"}
    BY <2>1, <2>3 DEF Seen
  <2>5. {StopReason, "refused", "cancelled"} \subseteq (Seen \cup Waits) \ {"admit"}
    BY DEF Seen, StopReason
  <2>6. CASE refuse_tool(c)
    <3>1. \E o \in IF Stopped THEN {StopReason} ELSE {"refused", "cancelled"} : Observe(c, o)
      BY <2>6 DEF refuse_tool
    <3> HIDE DEF Seen
    <3> QED
      BY <2>5, <3>1
  <2>7. CASE return_tool(c)
    <3>1. \E o \in {"ok", "error", "invalid", "timed_out", "uncertain", "cancelled"} \cup config.waits : Observe(c, o)
      BY <2>7 DEF return_tool
    <3> QED
      BY <2>4, <3>1
  <2>8. CASE cancel_tool(c)
    <3>1. Observe(c, "cancelled")
      BY <2>8 DEF cancel_tool
    <3> QED
      BY <2>5, <3>1
  <2> QED
    BY <2>6, <2>7, <2>8
<1>2. pc = "tools" /\ UNCHANGED <<asked, confirmed, entered>>
  BY DEF refuse_tool, return_tool, cancel_tool, ghosts
<1>3. /\ flight' = [flight EXCEPT ![c] = o] /\ pc' = "tools"
      /\ UNCHANGED <<config, steps, history, pending, saved>>
  BY <1>1, <1>2 DEF Observe, run
<1>4. PICK cp : cp = pending
  OBVIOUS
<1>5. Current = cp /\ cp # Null /\ Current' = cp
  BY <1>2, <1>3, <1>4, FlightCall DEF Current
<1>6. \A e : Spent(cp, e) => Spent(cp, e)'
  <2>1. ASSUME NEW e, Spent(cp, e) PROVE Spent(cp, e)'
    <3>1. CASE e = c
      BY <1>1, <1>2, <1>3, <2>1, <3>1 DEF Spent
    <3>2. CASE e # c
      BY <1>2, <1>3, <2>1, <3>2 DEF Spent
    <3> QED
      BY <3>1, <3>2
  <2> QED
    BY <2>1
<1>7. Entries' /\ EntriesBounded'
  BY <1>2, <1>3, <1>5, <1>6, EntriesSame DEF IInv
<1>8. entered' \in [1..MaxSteps -> [Calls -> Nat]]
  BY <1>2 DEF IInv, TypeOK
<1> QED
  BY <1>1, <1>2, <1>7, <1>8, ObserveHolds

\* A call is entered for the first time.
LEMMA AdmitHolds ==
    ASSUME IInv, NEW c \in DOMAIN flight, admit_tool(c)
    PROVE  IInv' /\ Blameless
<1>1. /\ pc = "tools" /\ pc' = "tools" /\ flight[c] = "admit" /\ flight' = [flight EXCEPT ![c] = "running"]
      /\ UNCHANGED <<config, steps, used, history, pending, saved, asked, confirmed>> /\ Observe(c, "running")
  BY DEF admit_tool, Observe, run
<1>2. PICK cp : cp = pending
  OBVIOUS
<1>3. /\ Held(cp) /\ Current = cp /\ cp # Null /\ Current' = cp /\ TypeOK
      /\ c \in DOMAIN cp.calls /\ cp.calls[c].state = "ready" /\ c \in Calls
      /\ cp.steps = steps /\ steps \in 1..MaxSteps /\ steps = Len(history) + 1
  BY <1>1, <1>2, FlightCall DEF Current, IInv
<1>4. entered' = [entered EXCEPT ![steps][c] = @ + 1]
  BY <1>2, <1>3 DEF admit_tool
<1>5. entered \in [1..MaxSteps -> [Calls -> Nat]] /\ Len(history) \in Nat
  BY <1>3 DEF TypeOK
<1>6. entered[steps][c] = 0
  <2>1. ~Spent(cp, c)
    BY <1>1, <1>3 DEF Spent
  <2>2. ~Accounted(steps, c)
    BY <1>3, <1>5, <2>1 DEF Accounted
  <2> QED
    BY <1>1, <1>3, <2>2 DEF IInv, Entries
<1>7. entered'[steps][c] = 1 /\ entered' \in [1..MaxSteps -> [Calls -> Nat]]
  BY <1>3, <1>4, <1>5, <1>6
<1>8. \A i \in 1..MaxSteps, e \in Calls : i # steps \/ e # c => entered'[i][e] = entered[i][e]
  BY <1>3, <1>4, <1>5
<1>9. \A e : Spent(cp, e) => Spent(cp, e)'
  <2>1. ASSUME NEW e, Spent(cp, e) PROVE Spent(cp, e)'
    BY <1>1, <2>1 DEF Spent
  <2> QED
    BY <2>1
<1>10. Spent(cp, c)'
  BY <1>1, <1>3 DEF Spent
<1>11. Entries'
  <2>1. ASSUME NEW i \in 1..MaxSteps, NEW e \in Calls, entered'[i][e] # 0
        PROVE  entered'[i][e] = 1 /\ Accounted(i, e)'
    <3>1. CASE i = steps /\ e = c
      <4>1. Spent(Current, e)'
        BY <1>3, <1>10, <3>1
      <4> QED
        BY <1>1, <1>3, <1>7, <3>1, <4>1 DEF Accounted
    <3>2. CASE i # steps \/ e # c
      <4>1. entered'[i][e] = entered[i][e]
        BY <1>8, <3>2
      <4>2. entered[i][e] = 1 /\ Accounted(i, e)
        BY <1>1, <2>1, <4>1 DEF IInv, Entries
      <4>3. CASE i <= Len(history) /\ e <= history[i]
        BY <1>1, <4>1, <4>2, <4>3 DEF Accounted
      <4>4. CASE i = steps /\ Spent(cp, e)
        <5>1. Spent(Current, e)'
          BY <1>3, <1>9, <4>4
        <5> QED
          BY <1>1, <1>3, <4>1, <4>2, <4>4, <5>1 DEF Accounted
      <4> QED
        BY <1>3, <4>2, <4>3, <4>4 DEF Accounted
    <3> QED
      BY <3>1, <3>2
  <2> QED
    BY <2>1 DEF Entries
<1>12. EntriesBounded'
  <2>1. PICK n \in Calls :
              /\ n \in Nat /\ DOMAIN cp.calls = 1..n
              /\ config.maxToolCalls \in Nat /\ used \in Nat /\ used + n <= config.maxToolCalls
              /\ config.maxSteps \in 1..MaxSteps /\ MaxSteps \in Nat
              /\ Total(history) = used /\ steps = Len(history) + 1 /\ steps \in 1..config.maxSteps
              /\ history \in Seq(Calls) /\ Len(history) \in Nat
    BY <1>3, HeldFacts
  <2>2. \A i \in 1..MaxSteps, e \in Calls : entered'[i][e] # 0 =>
              /\ entered'[i][e] = 1
              /\ (i <= Len(history') /\ e <= history'[i]) \/ (i = Len(history') + 1 /\ e <= n)
    <3> SUFFICES ASSUME NEW i \in 1..MaxSteps, NEW e \in Calls, entered'[i][e] # 0
                 PROVE  /\ entered'[i][e] = 1
                        /\ (i <= Len(history') /\ e <= history'[i]) \/ (i = Len(history') + 1 /\ e <= n)
      OBVIOUS
    <3>1. entered'[i][e] = 1 /\ Accounted(i, e)'
      BY <1>1, <1>11 DEF Entries
    <3>2. CASE Spent(Current, e)' /\ i = steps'
      <4>1. Spent(cp, e)'
        BY <1>3, <3>2
      <4>2. e \in 1..n
        BY <2>1, <4>1 DEF Spent
      <4> QED
        BY <1>1, <2>1, <3>1, <3>2, <4>2
    <3> QED
      BY <3>1, <3>2 DEF Accounted
  <2>3. MaxBatch \in Nat /\ Calls = 1..MaxBatch
    BY EngineAssumption DEF Calls
  <2>4. history' \in Seq(Nat) /\ Len(history') <= MaxSteps
    <3>1. history \in Seq(Nat)
      BY <2>1, CallsSeq
    <3> QED
      BY <1>1, <2>1, <3>1
  <2>5. PICK t \in Nat : /\ t = Total([i \in 1..MaxSteps |-> Total(entered'[i])])
                          /\ t <= Total(history') + n
    <3>1. MaxSteps \in Nat /\ MaxBatch \in Nat /\ entered' \in [1..MaxSteps -> [1..MaxBatch -> Nat]]
      BY <1>7, <2>1, <2>3
    <3>2. \A i \in 1..MaxSteps, e \in 1..MaxBatch : entered'[i][e] # 0 =>
              /\ entered'[i][e] = 1
              /\ (i <= Len(history') /\ e <= history'[i]) \/ (i = Len(history') + 1 /\ e <= n)
      BY <2>2, <2>3
    <3> QED
      BY <2>1, <2>4, <3>1, <3>2, EntriesTotal
  <2>6. \A i \in 1..MaxSteps, e \in Calls : entered'[i][e] <= 1
    <3> SUFFICES ASSUME NEW i \in 1..MaxSteps, NEW e \in Calls
                 PROVE  entered'[i][e] <= 1
      OBVIOUS
    <3>1. entered'[i][e] # 0 => entered'[i][e] = 1
      BY <2>2
    <3> QED
      BY <3>1
  <2>7. Total(history') = used /\ config' = config
    BY <1>1, <2>1
  <2>8. t <= config'.maxToolCalls
    BY <2>1, <2>5, <2>7
  <2> QED
    BY <2>5, <2>6, <2>8 DEF EntriesBounded
<1>13. "running" \in Seen \cup Waits
  BY DEF Seen
<1> QED
  BY <1>1, <1>7, <1>11, <1>12, <1>13, ObserveHolds

\* The observations of a stage are applied. An uncertain one ends the run as uncertain,
\* and the checkpoint fails to validate only if a wait identity was given twice.
LEMMA CollectHolds ==
    ASSUME IInv, collect
    PROVE  /\ IInv'
           /\ Blameless \/ (/\ outcome' = "invalid" /\ pc = "tools"
                            /\ \E c, d \in DOMAIN flight : c # d /\ flight[c] \in Waits /\ flight[c] = flight[d])
           /\ (\E c \in DOMAIN flight : flight[c] = "uncertain") => outcome' = "uncertain"
<1>1. /\ pc = "tools" /\ pending # Null /\ saved = Null /\ Current = pending /\ TypeOK
      /\ pending.index < Len(pending.stages) /\ Settled(pending)
      /\ flight \in [Runnable(pending) -> Seen \cup Waits]
      /\ \A c \in DOMAIN flight : flight[c] \notin {"admit", "running"}
  BY DEF collect, IInv, Custody, Working, Dispatch, Current
<1>2. PICK cp : cp = pending
  OBVIOUS
<1>3. Held(cp)
  BY <1>1, <1>2 DEF IInv, Custody
<1>4. DOMAIN flight \subseteq Nat
  <2>1. Calls \subseteq Nat
    BY DEF Calls
  <2> QED
    BY <1>1, <2>1, FlightCall
<1>5. PICK unrecorded \in SUBSET DOMAIN flight :
        LET bad == unrecorded \cup {c \in DOMAIN flight : Fatal(flight[c]) # Null} IN
        IF bad # {} THEN EndQuietly(Dominant(bad))
        ELSE IF Stopped THEN EndQuietly(StopReason)
        ELSE IF ~Valid(Collected(pending)) THEN EndQuietly("invalid")
        ELSE /\ pc' = "pending" /\ pending' = Collected(pending) /\ flight' = <<>>
             /\ UNCHANGED <<config, outcome, run, saved, policy, env, ghosts>>
  BY DEF collect, Collected
<1>6. PICK bad : bad = unrecorded \cup {c \in DOMAIN flight : Fatal(flight[c]) # Null}
  OBVIOUS
<1>7. \A c \in DOMAIN flight : flight[c] = "uncertain" => c \in bad
  <2>1. Fatal("uncertain") # Null
    BY EngineAssumption DEF Fatal, Outcomes
  <2> QED
    BY <1>6, <2>1
<1>8. CASE bad # {}
  <2>1. EndQuietly(Dominant(bad))
    BY <1>5, <1>6, <1>8
  <2>2. bad \in SUBSET DOMAIN flight
    BY <1>6
  <2>3. Dominant(bad) \in Ends
    BY Reasons DEF Dominant
  <2>4. (\E c \in DOMAIN flight : flight[c] = "uncertain") => Dominant(bad) = "uncertain"
    BY <1>7 DEF Dominant
  <2>5. outcome' = Dominant(bad)
    BY <2>1 DEF EndQuietly, End
  <2> QED
    BY <2>1, <2>3, <2>4, <2>5, QuietEndHolds
<1>9. CASE bad = {}
  <2>1. \A c \in DOMAIN flight : flight[c] \notin {"admit", "running"} /\ Fatal(flight[c]) = Null
    BY <1>1, <1>6, <1>9
  <2>2. ~\E c \in DOMAIN flight : flight[c] = "uncertain"
    BY <1>7, <1>9
  <2>3. PICK d : d = Collected(cp)
    OBVIOUS
  <2>4. Settled(cp) /\ cp.index < Len(cp.stages) /\ flight \in [Runnable(cp) -> Seen \cup Waits]
    BY <1>1, <1>2
  <2>5. /\ CheckpointOK(d)
        /\ DOMAIN d.calls = DOMAIN cp.calls /\ In(d, "ready") \subseteq In(cp, "ready") \ DOMAIN flight
        /\ \A c \in DOMAIN d.calls : d.approvals[c] # Null =>
              /\ ApprovalId(d, c) \in asked
              /\ IF d.approvals[c].evidence
                 THEN ApprovalId(d, c) \in confirmed ELSE d.calls[c].state = "ready"
        /\ (\A c, e \in DOMAIN flight : c # e /\ flight[c] \in Waits => flight[c] # flight[e]) => Valid(d)
    BY <1>1, <1>2, <1>3, <2>1, <2>3, <2>4, CollectHeld
  <2>6. \/ EndQuietly(StopReason)
        \/ ~Valid(d) /\ EndQuietly("invalid")
        \/ /\ Valid(d) /\ pc' = "pending" /\ pending' = d /\ flight' = <<>>
           /\ UNCHANGED <<config, outcome, run, saved, policy, env, ghosts>>
    BY <1>2, <1>5, <1>6, <1>9, <2>3
  <2>7. CASE EndQuietly(StopReason)
    BY <2>2, <2>7, QuietEndHolds, Reasons
  <2>8. CASE ~Valid(d) /\ EndQuietly("invalid")
    <3>1. End("invalid") /\ UNCHANGED <<run, env, ghosts>> /\ policy' \in Policies /\ "invalid" \in Outcomes
      BY <1>1, <2>8 DEF EndQuietly, Frame, run, TypeOK, Outcomes
    <3>2. IInv' /\ outcome' = "invalid"
      BY <3>1, EndHolds DEF End
    <3>3. \E c, e \in DOMAIN flight : c # e /\ flight[c] \in Waits /\ flight[c] = flight[e]
      BY <2>5, <2>8
    <3> QED
      BY <1>1, <2>2, <3>2, <3>3
  <2>9. CASE /\ Valid(d) /\ pc' = "pending" /\ pending' = d /\ flight' = <<>>
             /\ UNCHANGED <<config, outcome, run, saved, policy, env, ghosts>>
    <3>1. UNCHANGED <<config, outcome, steps, used, history, saved, policy, asked, confirmed, entered,
                      cancelled, expired, approved>>
      BY <2>9 DEF run, env, ghosts
    <3>2. Held(d)'
      BY <2>5, <2>9, <3>1, HeldNext
    <3>3. Custody' /\ Between' /\ Current' = d
      BY <1>1, <2>9, <3>1, <3>2, RunHolds DEF Working
    <3>4. Types'
      BY <1>1, <2>9, <3>1 DEF TypeOK, Types, Places
    <3>5. \A c : Spent(cp, c) => Spent(d, c)'
      BY <2>5 DEF Spent, In
    <3>6. d # Null
      BY <2>5, EngineAssumption DEF CheckpointOK
    <3>7. Entries' /\ EntriesBounded'
      BY <1>1, <1>2, <3>1, <3>3, <3>5, <3>6, EntriesSame DEF IInv
    <3>8. Dispatch'
      BY <2>9 DEF Dispatch
    <3>9. IInv'
      BY <3>3, <3>4, <3>7, <3>8, Joined
    <3> QED
      BY <2>2, <3>1, <3>9 DEF Blameless
  <2> QED
    BY <2>6, <2>7, <2>8, <2>9
<1> QED
  BY <1>8, <1>9

\* Every step but collect.
LEMMA OtherHolds ==
    ASSUME IInv, Next, ~collect
    PROVE  IInv' /\ Blameless
<1>1. CASE Stop \/ Refuse \/ StepFails \/ Complete \/ reject_approval
  BY <1>1, StepFailsHolds
<1>2. CASE Start \/ AdmitResume \/ Advance \/ await_external \/ await_approval
  BY <1>2, MovesHold
<1>3. CASE Cancel \/ DeadlinePasses \/ approve_tool
  BY <1>3, SurroundingsHold
<1>4. CASE StepAnswers \/ StepCallsTools
  BY <1>4, StepEndsHold
<1>5. CASE initialize_pending
  BY <1>5, InitializeHolds
<1>6. CASE refresh_ready
  BY <1>6, RefreshHolds
<1>7. CASE finish_batch
  BY <1>7, FinishHolds
<1>8. CASE suspend_pending
  BY <1>8, SuspendHolds
<1>9. CASE receive_approval
  BY <1>9, ReceiveHolds
<1>10. CASE dispatch_current_stage
  BY <1>10, DispatchHolds
<1>11. CASE \E c \in DOMAIN flight : admit_tool(c) \/ refuse_tool(c) \/ return_tool(c) \/ cancel_tool(c)
  BY <1>11, AdmitHolds, AnsweredHolds
<1>12. CASE merge_approval
  BY <1>12, MergeApprovalHolds
<1>13. CASE merge_external
  BY <1>13, MergeExternalHolds
<1>14. CASE resume_checkpoint
  BY <1>14, ResumeHolds
<1> QED
  BY <1>1, <1>2, <1>3, <1>4, <1>5, <1>6, <1>7, <1>8, <1>9, <1>10, <1>11, <1>12, <1>13, <1>14
  DEF Next, Engine, Host

\* The invariant is inductive.
LEMMA StepHolds == IInv /\ [Next]_vars => IInv'
<1> SUFFICES ASSUME IInv, [Next]_vars
             PROVE  IInv'
  OBVIOUS
<1>1. CASE collect
  BY <1>1, CollectHolds
<1>2. CASE Next /\ ~collect
  BY <1>2, OtherHolds
<1>3. CASE UNCHANGED vars
  BY <1>3, StutterHolds
<1> QED
  BY <1>1, <1>2, <1>3

----------------------------------------------------------------------------
\* The theorems.

\* Whether the run or, after a suspension, its host holds the checkpoint, it is one the
\* run built and TurnCheckpoint::validate accepts, with every approval in it asked for
\* and confirmed, and the calls entered are those its states account for.
THEOREM TypeTheorem == Spec => []IInv /\ []TypeOK
<1>1. Init => IInv
  BY InitHolds
<1>2. IInv /\ [Next]_vars => IInv'
  BY StepHolds
<1>3. IInv => TypeOK
  BY DEF IInv
<1> QED
  BY <1>1, <1>2, <1>3, PTL DEF Spec

\* Over any number of suspensions and resumptions dispatch_call enters no call of a Step
\* twice, and no more calls than max_tool_calls.
THEOREM EntriesTheorem == Spec => []EntriesBounded
<1>1. IInv => EntriesBounded
  BY DEF IInv
<1> QED
  BY <1>1, TypeTheorem, PTL

\* Only the admission of a dispatched call enters it.
LEMMA EntersBy ==
    ASSUME IInv, [Next]_vars, NEW i \in 1..MaxSteps, NEW c \in Calls, Enters(i, c)
    PROVE  /\ pc = "tools" /\ c \in DOMAIN flight /\ i = pending.steps
<1>0. entered' # entered
  BY DEF Enters
<1>1. PICK e \in DOMAIN flight : admit_tool(e)
  <2>1. ~UNCHANGED vars
    BY <1>0 DEF vars
  <2>2. Next
    BY <2>1
  <2> QED
    BY <1>0, <2>2
    DEF Next, Engine, Host, Start, Refuse, AdmitResume, Advance, StepAnswers, StepCallsTools, StepFails,
        Complete, initialize_pending, ProceedIfValid, refresh_ready, finish_batch, await_external,
        suspend_pending, await_approval, receive_approval, dispatch_current_stage, collect, Stop,
        refuse_tool, return_tool, cancel_tool, merge_approval, merge_external, resume_checkpoint,
        reject_approval, Cancel, DeadlinePasses, approve_tool, Proceed, EndQuietly, Frame, ghosts
<1>2. pc = "tools" /\ entered' = [entered EXCEPT ![pending.steps][e] = @ + 1]
  BY <1>1 DEF admit_tool
<1>3. pending.steps \in 1..MaxSteps /\ e \in Calls
  <2>1. pending.steps = steps /\ steps \in 1..MaxSteps /\ e \in Calls
    BY <1>2, FlightCall
  <2> QED
    BY <2>1
<1>4. entered \in [1..MaxSteps -> [Calls -> Nat]]
  BY DEF IInv, TypeOK
<1>5. i = pending.steps /\ c = e
  BY <1>2, <1>3, <1>4 DEF Enters
<1> QED
  BY <1>2, <1>5

\* However approvals were asked, confirmed, suspended and resumed, dispatch_call enters a
\* call only if it is authorised as it stands, and never before an earlier call of the
\* batch it conflicts with.
THEOREM OrderlyTheorem == Spec => EntryOrderly
<1>1. IInv /\ [Next]_vars =>
        [\A i \in 1..MaxSteps, c \in Calls : Enters(i, c) => Authorised(i, c) /\ InModelOrder(c)]_vars
  <2> SUFFICES ASSUME IInv, [Next]_vars, NEW i \in 1..MaxSteps, NEW c \in Calls, Enters(i, c)
               PROVE  Authorised(i, c) /\ InModelOrder(c)
    OBVIOUS
  <2>1. pc = "tools" /\ c \in DOMAIN flight /\ i = pending.steps
    BY EntersBy
  <2>2. /\ Held(pending) /\ Settled(pending) /\ pending.index < Len(pending.stages)
        /\ c \in In(pending, "ready") /\ c \in DOMAIN pending.calls /\ pending.calls[c].prep \in Preps
        /\ c \in pending.stages[pending.index + 1]
        /\ \/ Decision(pending, c) = "allow" /\ pending.approvals[c] = Null
           \/ /\ Decision(pending, c) = "ask"
              /\ \A e \in DOMAIN pending.calls : pending.approvals[e] # Null => pending.approvals[e].evidence
        /\ Grantable(pending, c)
    BY <2>1, FlightCall DEF IInv, Dispatch
  <2>3. Authorised(i, c)
    <3>1. CASE Decision(pending, c) = "allow"
      BY <3>1 DEF Authorised, Decision
    <3>2. CASE /\ Decision(pending, c) = "ask"
               /\ \A e \in DOMAIN pending.calls : pending.approvals[e] # Null => pending.approvals[e].evidence
      <4>1. Decide[policy][pending.calls[c].prep] = "ask"
        BY <3>2 DEF Decision
      <4>2. /\ pending.approvals[c] # Null /\ pending.approvals[c].evidence
            /\ pending.approvals[c].prep = pending.calls[c].prep /\ pending.approvals[c].policy = policy
        BY <2>2, <3>2 DEF Grantable
      <4>3. ApprovalId(pending, c) \in confirmed
        BY <2>2, <4>2 DEF Held
      <4>4. <<i, c, pending.calls[c].prep, policy>> \in confirmed
        BY <2>1, <4>2, <4>3 DEF ApprovalId
      <4>5. Unconfirmed(pending) = {}
        BY <3>2 DEF Unconfirmed, In
      <4> QED
        BY <4>1, <4>4, <4>5 DEF Authorised
    <3> QED
      BY <2>2, <3>1, <3>2
  <2>4. InModelOrder(c)
    <3> SUFFICES ASSUME NEW b \in 1..(c - 1),
                        <<pending.calls[b].prep, pending.calls[c].prep>> \in Conflict
                 PROVE  pending.calls[b].state = "completed"
      BY DEF InModelOrder
    <3>1. PICK cp : cp = pending
      OBVIOUS
    <3>2. TypeOK /\ Held(cp)
      BY <2>2, <3>1 DEF IInv
    <3>3. PICK n \in Calls : n \in Nat /\ DOMAIN cp.calls = 1..n /\ cp.calls \in [1..n -> Call]
      BY <3>2, HeldFacts
    <3>4. c \in 1..n /\ b \in 1..n /\ b < c
      BY <2>2, <3>1, <3>3
    <3>5. cp.calls[b].state \in {"ready", "completed", "awaiting"}
      BY <3>3, <3>4, CallFacts
    <3>6. cp.calls[b].state # "awaiting"
      BY <2>2, <3>1, <3>3, <3>4 DEF Settled, In
    <3>7. cp.calls[b].state # "ready"
      BY <2>2, <3>1, <3>3, <3>4 DEF Settled, In
    <3> QED
      BY <3>1, <3>5, <3>6, <3>7
  <2> QED
    BY <2>3, <2>4
<1> QED
  BY <1>1, TypeTheorem, PTL DEF Spec, EntryOrderly

\* When one call of a stage is uncertain the Turn ends as uncertain, whatever the other
\* calls of the stage returned (dispatch_current_stage: the dominant error).
THEOREM UncertaintyTheorem == Spec => UncertaintyDominates
<1>1. IInv /\ [Next]_vars =>
        [pc = "tools" /\ pc' # "tools" /\ (\E c \in DOMAIN flight : flight[c] = "uncertain")
            => outcome' = "uncertain"]_vars
  <2> SUFFICES ASSUME IInv, [Next]_vars, pc = "tools", pc' # "tools",
                      \E c \in DOMAIN flight : flight[c] = "uncertain"
               PROVE  outcome' = "uncertain"
    OBVIOUS
  <2>1. collect
    <3>1. Next
      BY DEF vars
    <3> QED
      BY <3>1
      DEF Next, Engine, Host, Start, Refuse, AdmitResume, Advance, StepAnswers, StepCallsTools, StepFails,
          Complete, initialize_pending, refresh_ready, finish_batch, await_external,
          suspend_pending, await_approval, receive_approval, dispatch_current_stage, Stop, Checked,
          admit_tool, refuse_tool, return_tool, cancel_tool, Observe, merge_approval, merge_external,
          resume_checkpoint, reject_approval, Cancel, DeadlinePasses, approve_tool
  <2> QED
    BY <2>1, CollectHolds
<1> QED
  BY <1>1, TypeTheorem, PTL DEF Spec, UncertaintyDominates

\* The engine and the merges build no checkpoint that TurnCheckpoint::validate refuses,
\* unless an executor reuses a wait identity within a stage; an admitted batch keeps its
\* budget, and no stage is stuck.
THEOREM OwnCheckpointsTheorem == Spec => OwnCheckpointsValid
<1>1. IInv /\ [Next]_vars =>
        [outcome' = "invalid" /\ outcome = Null =>
            /\ pc = "tools"
            /\ \E c, d \in DOMAIN flight :
                  c # d /\ flight[c] \in Waits /\ flight[c] = flight[d]]_vars
  <2> SUFFICES ASSUME IInv, [Next]_vars, outcome' = "invalid", outcome = Null
               PROVE  /\ pc = "tools"
                      /\ \E c, d \in DOMAIN flight :
                            c # d /\ flight[c] \in Waits /\ flight[c] = flight[d]
    OBVIOUS
  <2>1. outcome' # outcome /\ ~Blameless
    BY EngineAssumption DEF Blameless, Ends, Outcomes
  <2>2. Next
    BY <2>1 DEF vars
  <2>3. collect
    BY <2>1, <2>2, OtherHolds
  <2> QED
    BY <2>1, <2>3, CollectHolds
<1>2. IInv => (pending # Null /\ In(pending, "ready") # {} => pending.used < config.maxToolCalls)
  <2> SUFFICES ASSUME IInv, pending # Null, In(pending, "ready") # {}
               PROVE  pending.used < config.maxToolCalls
    OBVIOUS
  <2>1. PICK cp : cp = pending
    OBVIOUS
  <2>2. Current = cp
    BY <2>1 DEF IInv, Custody, Current, Without
  <2>3. Held(cp) /\ TypeOK
    BY <2>1, <2>2 DEF IInv, Custody
  <2>4. cp.used < config.maxToolCalls
    BY <2>1, <2>3, ReadyWithinBudget
  <2> QED
    BY <2>1, <2>4
<1> DEFINE Unstuck == outcome # "stuck"
<1>3. Init => Unstuck
  BY EngineAssumption DEF Init, Outcomes
<1>4. IInv /\ Unstuck /\ [Next]_vars => Unstuck'
  <2> SUFFICES ASSUME IInv, outcome # "stuck", [Next]_vars
               PROVE  outcome' # "stuck"
    OBVIOUS
  <2>1. CASE UNCHANGED vars
    BY <2>1 DEF vars
  <2>2. CASE Next /\ ~collect
    BY <2>2, OtherHolds DEF Blameless, Ends
  <2>3. CASE collect
    BY <2>3, CollectHolds DEF Blameless, Ends
  <2> QED
    BY <2>1, <2>2, <2>3
<1>5. Spec => [](outcome # "stuck")
  <2>1. Unstuck => outcome # "stuck"
    OBVIOUS
  <2> HIDE DEF Unstuck
  <2> QED
    BY <1>3, <1>4, <2>1, TypeTheorem, PTL DEF Spec
<1> QED
  BY <1>1, <1>2, <1>5, TypeTheorem, PTL DEF Spec, OwnCheckpointsValid
=============================================================================
