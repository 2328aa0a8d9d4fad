---------------------------- MODULE LeaseProofs ----------------------------
(***************************************************************************)
(* Proofs about the execution lease for any number of callers and owner    *)
(* ids, any ttl and any clock bound.                                       *)
(***************************************************************************)
EXTENDS Lease, TLAPS

\* A handle whose row has not been deleted since it was granted.
Live(p) == p \notin orphans /\ handle[p] # Null

\* The inductive invariant.  A live handle is not newer than the row, and only the
\* latest grantee has the row's revision; no expiry lies further ahead than one
\* ttl; and a live handle whose time is not up shares its owner with the row,
\* which expires no earlier.
LeaseInv ==
    /\ TypeOK
    /\ \A p \in Procs : handle[p] # Null =>
          handle[p].owner = OwnerOf[p] /\ handle[p].expires <= now + Ttl
    /\ \A p \in Procs : Live(p) =>
          /\ row # Null
          /\ handle[p].revision <= row.revision
          /\ handle[p].revision = row.revision => holder = p
          /\ handle[p].expires > now =>
                row.owner = OwnerOf[p] /\ handle[p].expires <= row.expires

\* A grant is a complete lease, and a lease is never mistaken for an absent one.
LEMMA LeaseType ==
    ASSUME TypeOK, NEW p \in Procs, NEW n \in Nat
    PROVE  /\ Lease(p, n) \in ExecutionLease
           /\ Lease(p, n) # Null
           /\ Lease(p, n).owner = OwnerOf[p]
           /\ Lease(p, n).revision = n
           /\ Lease(p, n).expires = now + Ttl
BY LeaseAssumption DEF TypeOK, Lease, ExecutionLease

\* Init establishes the invariant.
LEMMA LeaseInvInit == Init => LeaseInv
BY DEF Init, LeaseInv, TypeOK, Live

\* acquire_lease keeps it: the new revision is above every live one, and a live
\* unexpired handle of another caller has the owner the grant was allowed for.
LEMMA LeaseInvAcquire ==
    ASSUME LeaseInv, NEW p \in Procs, acquire_lease(p)
    PROVE  LeaseInv'
<1> DEFINE n == IF row = Null THEN 1 ELSE row.revision + 1
           lease == Lease(p, n)
<1>1. n \in Nat
  BY DEF LeaseInv, TypeOK, ExecutionLease
<1>2. /\ lease \in ExecutionLease /\ lease # Null /\ lease.owner = OwnerOf[p]
      /\ lease.revision = n /\ lease.expires = now + Ttl
  BY <1>1, LeaseType DEF LeaseInv
<1>3. /\ row' = lease /\ handle' = [handle EXCEPT ![p] = lease] /\ holder' = p
      /\ orphans' = orphans \ {p} /\ now' = now
  BY DEF acquire_lease, Grant
<1> HIDE DEF lease
<1>4. TypeOK'
  BY <1>2, <1>3 DEF LeaseInv, TypeOK
<1>5. ASSUME NEW q \in Procs, handle'[q] # Null
      PROVE  handle'[q].owner = OwnerOf[q] /\ handle'[q].expires <= now' + Ttl
  <2>1. CASE q = p
    BY <2>1, <1>2, <1>3, LeaseAssumption DEF LeaseInv, TypeOK, ExecutionLease
  <2>2. CASE q # p
    BY <2>2, <1>3, <1>5 DEF LeaseInv, TypeOK
  <2> QED BY <2>1, <2>2
<1>6. ASSUME NEW q \in Procs, Live(q)'
      PROVE  /\ row' # Null
             /\ handle'[q].revision <= row'.revision
             /\ handle'[q].revision = row'.revision => holder' = q
             /\ handle'[q].expires > now' =>
                   row'.owner = OwnerOf[q] /\ handle'[q].expires <= row'.expires
  <2>1. CASE q = p
    BY <2>1, <1>1, <1>2, <1>3, LeaseAssumption DEF LeaseInv, TypeOK, ExecutionLease
  <2>2. CASE q # p
    <3>1. handle'[q] = handle[q] /\ Live(q)
      BY <2>2, <1>3, <1>6 DEF LeaseInv, TypeOK, Live
    <3>2. /\ row \in ExecutionLease /\ handle[q] \in ExecutionLease /\ n = row.revision + 1
          /\ handle[q].revision <= row.revision /\ handle[q].expires <= now + Ttl
      BY <3>1 DEF LeaseInv, TypeOK, Live
    <3>3. handle[q].expires > now => row.owner = OwnerOf[q] /\ row.expires > now
      BY <3>1, <3>2 DEF LeaseInv, TypeOK, ExecutionLease
    <3>4. row # Null => (row.expires > now => row.owner = OwnerOf[p])
      BY DEF acquire_lease
    <3>5. row # Null
      BY <3>1 DEF LeaseInv
    <3>6. handle'[q].revision < row'.revision
      BY <3>1, <3>2, <1>2, <1>3 DEF ExecutionLease
    <3>7. handle'[q].expires > now' => row'.owner = OwnerOf[q] /\ handle'[q].expires <= row'.expires
      BY <3>1, <3>2, <3>3, <3>4, <3>5, <1>2, <1>3 DEF ExecutionLease
    <3> QED
      BY <3>1, <3>2, <3>6, <3>7, <1>2, <1>3 DEF ExecutionLease
  <2> QED BY <2>1, <2>2
<1> QED
  BY <1>4, <1>5, <1>6 DEF LeaseInv

\* renew_lease keeps it: the row's expiry only grows to the latest possible one.
LEMMA LeaseInvRenew ==
    ASSUME LeaseInv, NEW p \in Procs, renew_lease(p)
    PROVE  LeaseInv'
<1>1. /\ handle[p] \in ExecutionLease /\ row \in ExecutionLease /\ row.owner = handle[p].owner
      /\ row.owner = OwnerOf[p] /\ now + Ttl \in Nat /\ handle[p] # Null /\ row # Null
  BY LeaseAssumption DEF LeaseInv, TypeOK, renew_lease, Matches
<1>2. /\ row' = [row EXCEPT !.expires = now + Ttl]
      /\ handle' = [handle EXCEPT ![p].expires = now + Ttl]
      /\ holder' = holder /\ orphans' = orphans /\ now' = now
  BY DEF renew_lease
<1>3. /\ row' \in ExecutionLease /\ row' # Null /\ row'.owner = row.owner
      /\ row'.revision = row.revision /\ row'.expires = now + Ttl
  BY <1>1, <1>2, LeaseAssumption DEF ExecutionLease
<1>4. /\ handle'[p] \in ExecutionLease /\ handle'[p].owner = handle[p].owner
      /\ handle'[p].revision = handle[p].revision /\ handle'[p].expires = now + Ttl
  BY <1>1, <1>2 DEF LeaseInv, TypeOK, ExecutionLease
<1>5. \A q \in Procs : q # p => handle'[q] = handle[q]
  BY <1>2 DEF LeaseInv, TypeOK
<1>6. TypeOK'
  BY <1>1, <1>2, <1>3, <1>4, <1>5 DEF LeaseInv, TypeOK, ExecutionLease
<1>7. ASSUME NEW q \in Procs, handle'[q] # Null
      PROVE  handle'[q].owner = OwnerOf[q] /\ handle'[q].expires <= now' + Ttl
  <2>1. CASE q = p
    BY <2>1, <1>1, <1>2, <1>4 DEF LeaseInv
  <2>2. CASE q # p
    BY <2>2, <1>2, <1>5, <1>7 DEF LeaseInv
  <2> QED BY <2>1, <2>2
<1>8. ASSUME NEW q \in Procs, Live(q)'
      PROVE  /\ row' # Null
             /\ handle'[q].revision <= row'.revision
             /\ handle'[q].revision = row'.revision => holder' = q
             /\ handle'[q].expires > now' =>
                   row'.owner = OwnerOf[q] /\ handle'[q].expires <= row'.expires
  <2>1. Live(q)
    BY <1>1, <1>2, <1>5, <1>8 DEF Live
  <2>2. handle'[q].revision = handle[q].revision
    BY <1>4, <1>5
  <2>3. CASE q = p
    BY <2>1, <2>2, <2>3, <1>1, <1>2, <1>3, <1>4 DEF LeaseInv, ExecutionLease
  <2>4. CASE q # p
    <3>1. handle'[q] = handle[q] /\ handle[q].expires <= now + Ttl
      BY <2>1, <2>4, <1>5 DEF LeaseInv, Live
    <3> QED
      BY <2>1, <3>1, <1>2, <1>3 DEF LeaseInv
  <2> QED BY <2>3, <2>4
<1> QED
  BY <1>6, <1>7, <1>8 DEF LeaseInv

\* release_lease keeps it: every handle that remains is an orphan.
LEMMA LeaseInvRelease ==
    ASSUME LeaseInv, NEW p \in Procs, release_lease(p)
    PROVE  LeaseInv'
<1>1. /\ row' = Null /\ handle' = [handle EXCEPT ![p] = Null] /\ holder' = Null
      /\ orphans' = {q \in Procs : handle'[q] # Null} /\ now' = now
  BY DEF release_lease
<1>2. TypeOK'
  BY <1>1 DEF LeaseInv, TypeOK
<1>3. \A q \in Procs : ~Live(q)'
  BY <1>1 DEF Live
<1>4. \A q \in Procs : handle'[q] # Null => handle'[q] = handle[q]
  BY <1>1 DEF LeaseInv, TypeOK
<1> QED
  BY <1>1, <1>2, <1>3, <1>4 DEF LeaseInv

\* A caller's death keeps it: the handles of the others are as before.
LEMMA LeaseInvCrash ==
    ASSUME LeaseInv, NEW p \in Procs, Crash(p)
    PROVE  LeaseInv'
<1>1. /\ row' = row /\ handle' = [handle EXCEPT ![p] = Null] /\ holder' = holder
      /\ orphans' = orphans \ {p} /\ now' = now
  BY DEF Crash
<1>2. \A q \in Procs : handle'[q] # Null => handle'[q] = handle[q] /\ q # p
  BY <1>1 DEF LeaseInv, TypeOK
<1>3. \A q \in Procs : Live(q)' => Live(q) /\ handle'[q] = handle[q]
  BY <1>1, <1>2 DEF Live
<1>4. TypeOK'
  BY <1>1 DEF LeaseInv, TypeOK
<1> QED
  BY <1>1, <1>2, <1>3, <1>4 DEF LeaseInv

\* The passing of time keeps it: handles only run out.
LEMMA LeaseInvTick ==
    ASSUME LeaseInv, Tick
    PROVE  LeaseInv'
<1>1. row' = row /\ handle' = handle /\ holder' = holder /\ orphans' = orphans /\ now' = now + 1
  BY DEF Tick
<1>2. TypeOK'
  BY <1>1 DEF LeaseInv, TypeOK
<1>3. ASSUME NEW q \in Procs, handle'[q] # Null
      PROVE  handle'[q].owner = OwnerOf[q] /\ handle'[q].expires <= now' + Ttl
  BY <1>1, <1>3, LeaseAssumption DEF LeaseInv, TypeOK, ExecutionLease
<1>4. \A q \in Procs : Live(q)' = Live(q)
  BY <1>1 DEF Live
<1>5. \A q \in Procs : Live(q) /\ handle[q].expires > now' => handle[q].expires > now
  BY <1>1 DEF LeaseInv, TypeOK, ExecutionLease, Live
<1> QED
  BY <1>1, <1>2, <1>3, <1>4, <1>5 DEF LeaseInv

\* Every step keeps the invariant.
LEMMA LeaseInvNext == LeaseInv /\ [Next]_vars => LeaseInv'
<1> SUFFICES ASSUME LeaseInv, [Next]_vars PROVE LeaseInv'
  OBVIOUS
<1>1. CASE UNCHANGED vars
  BY <1>1 DEF vars, LeaseInv, TypeOK, Live
<1>2. CASE Tick
  BY <1>2, LeaseInvTick
<1>3. ASSUME NEW p \in Procs, acquire_lease(p) \/ renew_lease(p) \/ release_lease(p) \/ Crash(p)
      PROVE  LeaseInv'
  BY <1>3, LeaseInvAcquire, LeaseInvRenew, LeaseInvRelease, LeaseInvCrash
<1> QED
  BY <1>1, <1>2, <1>3 DEF Next

\* The invariant holds throughout.
LEMMA LeaseInvariant == Spec => []LeaseInv
BY LeaseInvInit, LeaseInvNext, PTL DEF Spec

\* Two owners are never granted overlapping time, short of a release
\* (SqliteLedger::acquire_lease and renew_lease), for every set of callers.
THEOREM LeaseIsExclusive == Spec => []ExclusiveOwner
<1>1. LeaseInv => ExclusiveOwner
  BY DEF LeaseInv, Live, ExclusiveOwner
<1> QED
  BY <1>1, LeaseInvariant, PTL

\* While the row lives, the revision fences every superseded handle, even between
\* callers of one owner id (SqliteLedger::renew_lease and release_lease).
THEOREM RevisionFences == Spec => FencedWhileRowLives
<1>1. LeaseInv => \A p \in Procs \ orphans : renew_lease(p) \/ release_lease(p) => holder = p
  <2> SUFFICES ASSUME LeaseInv, NEW p \in Procs \ orphans, Matches(p) PROVE holder = p
    BY DEF renew_lease, release_lease
  <2>1. Live(p) /\ handle[p].revision = row.revision
    BY DEF Matches, Live
  <2> QED
    BY <2>1 DEF LeaseInv
<1> QED
  BY <1>1, LeaseInvariant, PTL DEF FencedWhileRowLives

=============================================================================
