----------------------------- MODULE TaskPromise -----------------------------
(***************************************************************************)
(* What a Task promises its caller, whatever crashes and races happen in   *)
(* the driver: work is admitted only while the Task is open, an invocation *)
(* has at most one live attempt at a time, reserved Steps are charged once *)
(* and stay within the budget, the outcome is final, and it is "completed" *)
(* only when nothing is live.                                              *)
(***************************************************************************)
EXTENDS Naturals, FiniteSets

CONSTANT Invocations

VARIABLES limits,    \* the Task's definition; steps: what it may reserve
          outcome,   \* "open" or how the Task ended
          live,      \* invocations with an attempt that has not stopped
          spent,     \* attempts started
          reserved   \* Steps charged
pvars == <<limits, outcome, live, spent, reserved>>

Init == /\ outcome = "open" /\ live = {} /\ spent = 0 /\ reserved = 0

\* a new attempt of an invocation without a live one
Begin(i) ==
    /\ outcome = "open" /\ i \notin live
    /\ spent < limits.maxAttempts /\ spent' = spent + 1
    /\ live' = live \cup {i}
    /\ reserved' \in reserved..(reserved + limits.maxSteps)
    /\ reserved' > reserved => reserved' <= limits.steps
    /\ UNCHANGED <<limits, outcome>>

\* an attempt stops; the tokens it used may exhaust the Task
Stop(i) ==
    /\ i \in live /\ live' = live \ {i}
    /\ outcome' \in {outcome} \cup (IF outcome = "open" THEN {"failed"} ELSE {})
    /\ UNCHANGED <<limits, spent, reserved>>

End(o) ==
    /\ outcome = "open" /\ outcome' = o
    /\ o = "completed" => live = {}
    /\ UNCHANGED <<limits, live, spent, reserved>>

Next == \/ \E i \in Invocations : Begin(i) \/ Stop(i)
        \/ \E o \in {"completed", "failed", "cancelled"} : End(o)

Spec == Init /\ [][Next]_pvars
=============================================================================
