---------------------------- MODULE FactJournal ----------------------------
(***************************************************************************)
(* The append-only fact journal the Agent and Server stores share          *)
(* (kolyan-ledger/src/facts.rs; facts/sqlite.rs obeys the same contract).  *)
(* Its callers here append one fact at a time, so the batch recorded at a  *)
(* position is the fact that follows it.                                   *)
(***************************************************************************)
EXTENDS Integers, Sequences, FiniteSets, FiniteSetsExt, SequencesExt, TLC

VARIABLE journal    \* stream -> Seq of [id, causes, body]; position = index

None == "none"

Rows(stream) == IF stream \in DOMAIN journal THEN journal[stream] ELSE <<>>
HeadOf(stream) == Len(Rows(stream))
FactRef(stream, position, id) == [stream |-> stream, position |-> position, id |-> id]

\* the exact record a reference names
Resolves(ref) == /\ ref.position \in 1..HeadOf(ref.stream)
                 /\ Rows(ref.stream)[ref.position].id = ref.id

IdentityTaken(id) ==
    \E s \in DOMAIN journal : \E i \in DOMAIN journal[s] : journal[s][i].id = id

\* An occupied position answers with its original fact or refuses a changed
\* one before the head is compared, so a lost race is a Conflict.
AppendOutcome(stream, expected, draft) ==
    IF expected < HeadOf(stream)
    THEN IF Rows(stream)[expected + 1] = draft THEN "ok" ELSE "Conflict"
    ELSE IF IdentityTaken(draft.id) THEN "Conflict"
    ELSE IF expected # HeadOf(stream) THEN "StalePosition"
    ELSE IF \E c \in Range(draft.causes) : ~Resolves(c) THEN "MissingCause"
    ELSE "ok"

\* a store with the entry of one key written
Put(store, key, value) ==
    [k \in DOMAIN store \cup {key} |-> IF k = key THEN value ELSE store[k]]

\* the journal after the call
Appended(stream, expected, draft) ==
    IF AppendOutcome(stream, expected, draft) = "ok" /\ expected = HeadOf(stream)
    THEN Put(journal, stream, Append(Rows(stream), draft))
    ELSE journal
=============================================================================
