-------------------------- MODULE MCEffectJournal --------------------------
(* Small instances of EffectJournal.  Actors are interchangeable, and so    *)
(* are the preparations, grants and reconciliation ids of a run.            *)
EXTENDS EffectJournal, TLC

Grants == Permutations(Actors) \cup Permutations(Evidence)
Identities == Grants \cup Permutations(Preps)
Requests == Permutations(Actors) \cup Permutations(Recs)

=============================================================================
