------------------------------- MODULE Lease -------------------------------
(***************************************************************************)
(* The execution lease of kolyan-ledger's SqliteLedger (LeaseStore): one    *)
(* row per execution, here the row of one execution.                        *)
(*                                                                         *)
(* Each operation is one SQLite transaction or statement, hence one step.   *)
(* Processes keep the handle an operation returned; the owner id is chosen  *)
(* by the caller, so two processes (a restarted one and its predecessor)    *)
(* may present the same id.                                                 *)
(***************************************************************************)
EXTENDS Naturals

CONSTANTS
    Procs,      \* callers of the lease store
    Owners,     \* owner ids
    OwnerOf,    \* the owner id each caller presents
    Ttl,        \* ttl_ms of every acquire and renew
    MaxNow,     \* bound on the clock the callers pass as now_ms
    Null

ASSUME LeaseAssumption ==
    /\ OwnerOf \in [Procs -> Owners]
    /\ Ttl \in Nat \ {0}
    /\ MaxNow \in Nat
    /\ Null \notin Procs \cup Owners
    /\ Null \notin [owner : Owners, revision : Nat, expires : Nat]

VARIABLES
    row,      \* the leases table's row, or Null
    handle,   \* handle[p]: the ExecutionLease value p last received, or Null
    holder,   \* the caller whose grant is the latest and not given back
    orphans,  \* callers whose handle is for a row that has been deleted since
    now

vars == <<row, handle, holder, orphans, now>>

ExecutionLease == [owner : Owners, revision : Nat, expires : Nat]

Lease(p, revision) == [owner |-> OwnerOf[p], revision |-> revision, expires |-> now + Ttl]

Grant(p) ==
    LET lease == Lease(p, IF row = Null THEN 1 ELSE row.revision + 1) IN
    /\ row' = lease
    /\ handle' = [handle EXCEPT ![p] = lease]
    /\ holder' = p
    /\ orphans' = orphans \ {p}
    /\ UNCHANGED now

\* Mutant of acquire_lease: an unexpired lease of another owner is taken over.
acquire_any_lease(p) == Grant(p)

\* An unexpired lease of another owner is a conflict; otherwise the revision
\* goes up, or starts at 1 when there is no row.
acquire_lease(p) ==
    /\ row # Null => (row.expires > now => row.owner = OwnerOf[p])
    /\ Grant(p)

\* Mutant of Matches: the fencing token is not compared.
MatchesOwner(p) ==
    /\ handle[p] # Null /\ row # Null
    /\ row.owner = handle[p].owner

\* The row's owner and revision are the handle's.
Matches(p) ==
    /\ handle[p] # Null /\ row # Null
    /\ row.owner = handle[p].owner /\ row.revision = handle[p].revision

\* UPDATE ... WHERE owner, revision and expires_at_ms > now.
renew_lease(p) ==
    /\ Matches(p) /\ row.expires > now
    /\ row' = [row EXCEPT !.expires = now + Ttl]
    /\ handle' = [handle EXCEPT ![p].expires = now + Ttl]
    /\ UNCHANGED <<holder, orphans, now>>

\* DELETE ... WHERE owner and revision; expiry does not matter. The caller
\* drops the handle it gave back.
release_lease(p) ==
    /\ Matches(p)
    /\ row' = Null
    /\ handle' = [handle EXCEPT ![p] = Null]
    /\ holder' = Null
    /\ orphans' = {q \in Procs : handle'[q] # Null}
    /\ UNCHANGED now

\* A caller that dies forgets its handle; its row stays until it expires.
Crash(p) ==
    /\ handle[p] # Null
    /\ handle' = [handle EXCEPT ![p] = Null]
    /\ orphans' = orphans \ {p}
    /\ UNCHANGED <<row, holder, now>>

Tick == now < MaxNow /\ now' = now + 1 /\ UNCHANGED <<row, handle, holder, orphans>>

Init ==
    /\ row = Null
    /\ handle = [p \in Procs |-> Null]
    /\ holder = Null
    /\ orphans = {}
    /\ now = 0

Next ==
    \/ \E p \in Procs : acquire_lease(p) \/ renew_lease(p) \/ release_lease(p) \/ Crash(p)
    \/ Tick

Spec == Init /\ [][Next]_vars

----------------------------------------------------------------------------
\* The row and the handles are absent or complete leases.
TypeOK ==
    /\ row \in ExecutionLease \cup {Null}
    /\ handle \in [Procs -> ExecutionLease \cup {Null}]
    /\ holder \in Procs \cup {Null}
    /\ orphans \subseteq Procs
    /\ now \in Nat

\* Two callers whose rows have not been released under them hold unexpired
\* handles at once only under one owner id: acquire_lease never hands an
\* execution to a second owner before the first one's time is up.
ExclusiveOwner ==
    \A p, q \in {r \in Procs \ orphans : handle[r] # Null /\ handle[r].expires > now} :
        OwnerOf[p] = OwnerOf[q]

\* A handle from a superseded grant changes nothing: renew and release act only
\* for the latest grantee (0019-sqlite-ledger-and-execution-lease.md:29-30).
StaleHandleRefused ==
    [][\A p \in Procs : renew_lease(p) \/ release_lease(p) => holder = p]_vars

\* What the revision does fence, whatever owner ids the callers present: as long
\* as no release has deleted the row a handle was granted in, renew and release
\* refuse that handle once another grant has been made.
FencedWhileRowLives ==
    [][\A p \in Procs \ orphans : renew_lease(p) \/ release_lease(p) => holder = p]_vars

=============================================================================
