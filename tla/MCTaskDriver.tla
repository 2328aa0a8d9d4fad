---------------------------- MODULE MCTaskDriver ----------------------------
EXTENDS TaskDriver
CONSTANTS r, kid, r1, r2, c1, w1, op1
MCParent == kid :> r
MCOwner == r1 :> r @@ r2 :> r @@ c1 :> kid
MCModels == r1 :> 2 @@ r2 :> 2 @@ c1 :> 1
MCLimits == [policy |-> "All", goal |-> FALSE, tokens |-> 0, steps |-> 0,
             maxInvocations |-> 1, maxAttempts |-> 2, maxDepth |-> 1, maxSteps |-> 1]
\* one invocation, retried, with Step slots and a Goal; a parent and its child
\* under a token limit and RootOnly cancellation
MCDefinitions ==
    {[MCLimits EXCEPT !.goal = TRUE, !.steps = 1],
     [MCLimits EXCEPT !.policy = "RootOnly", !.tokens = 2, !.maxInvocations = 2]}
\* Retries, effects and FailTask are explored for the single invocation; of its
\* two attempts the first is r1, which does not suspend.  Of parent and child
\* one suspends, and each calls the model once.  One cancel call is delivered at a time.
Bounded ==
    /\ \E d \in Drivers : drv[d].pc \notin {"deliver", "cancelwait"}
    /\ task.inv[r].attempts # <<r2, r1>>
    /\ Has(log[r2], "Suspended") => log[r1] = <<>>
    /\ task.def.maxInvocations = 2 =>
        /\ log[r1] = <<>> /\ Models(log[r2]) < 2
        /\ \A a \in Attempts : ~Has(log[a], "Effect")
        /\ Has(log[r2], "Suspended") => ~Has(log[c1], "Suspended")
        /\ task.inv[r].deps = {}
        /\ task.state = "failed" => Overspent(task)
        /\ \A d \in Drivers : drv[d].pc \notin {"proof", "recheck", "grant"}
        /\ task.state \in Ended => \A d \in Drivers : drv[d].pc # "start"
=============================================================================
