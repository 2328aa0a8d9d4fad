---------------------------- MODULE MCTurnEngine ----------------------------
(* Instances of TurnEngine: deletions of one path need approval, updates of    *)
(* another are allowed by one policy and need approval under the other, and    *)
(* one preparation exceeds every policy.                                       *)
EXTENDS TurnEngine

CONSTANTS Open, Strict, Delete, Update, Exceed, w1, w2

\* Decisions of the two policies.
Rules ==
    [p \in Policies |->
        [x \in Preps |->
            CASE x = Delete -> "ask"
              [] x = Update -> IF p = Open THEN "allow" ELSE "ask"
              [] x = Exceed -> "deny"]]

\* Claims on the same path conflict.
SamePath == {<<x, x>> : x \in Preps \ {Exceed}}

TurnConfig(maxSteps, calls, parallel, failTurn, resumable, preps, policies, waits) ==
    [maxSteps |-> maxSteps, maxToolCalls |-> calls, parallel |-> parallel,
     failTurn |-> failTurn, resumable |-> resumable,
     preps |-> preps, policies |-> policies, waits |-> waits]

\* One batch of parallel calls: every preparation, a policy that may change when
\* the Turn is resumed, two waits.
OneBatch == {TurnConfig(1, 2, TRUE, FALSE, TRUE, Preps, Policies, Waits)}

\* Two Steps under a budget that a second full batch exceeds: serial and parallel
\* resumable Turns, and one that awaits approvals in process and fails on errors.
TwoBatches ==
    {TurnConfig(2, 3, parallel, failTurn, resumable, {Delete, Update}, {Open}, {w1}) :
        <<parallel, failTurn, resumable>> \in
            {<<FALSE, FALSE, TRUE>>, <<TRUE, FALSE, TRUE>>, <<TRUE, TRUE, FALSE>>}}

Batches == OneBatch \cup TwoBatches

\* All calls of a batch name the same tool.
OneTool == [c \in Calls |-> "tool"]

=============================================================================
