------------------------ MODULE MCSessionExecution ------------------------
(* Instances of SessionExecution.                                          *)
EXTENDS SessionExecution, TLC

CONSTANTS t1, t2

Requests == Permutations(Callers)

Bound(first, second, deaths, together) ==
    [facts |-> [t \in Turns |-> IF t = t1 THEN first ELSE second],
     crashes |-> deaths, requests |-> together]

\* Under two requests: a Turn suspended, resumed and ended; a Turn suspended and
\* ended with one death of the process; two plain Turns.  Under one request at a
\* time: a Turn that suspends twice and a plain one, with one death.
Depths == {Bound(4, 0, 0, 2), Bound(3, 0, 1, 2), Bound(2, 1, 0, 2), Bound(5, 1, 1, 1)}

\* One Turn that checkpoints, suspends and ends, with one death of the process.
Repairs == {Bound(3, 0, 1, 2)}

\* The same Turn resumed once, with no death.
Resumes == {Bound(4, 0, 0, 2)}

=============================================================================
