------------------------------ MODULE MCLease ------------------------------
(* Two callers that present the same owner id (a process and the one that   *)
(* replaced it) and, where there is a third, one with an id of its own.     *)
EXTENDS Lease

CONSTANTS p1, p2, p3, A, B

RestartedOwner == [p \in Procs |-> IF p = p3 THEN B ELSE A]

\* Bound on the revisions explored.
MaxRevision == 4

RevisionBound == row = Null \/ row.revision <= MaxRevision

=============================================================================
