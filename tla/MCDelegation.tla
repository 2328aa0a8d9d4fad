---------------------------- MODULE MCDelegation ----------------------------
EXTENDS Delegation

Base == [room |-> TRUE, faults |-> FALSE, asks |-> FALSE, readers |-> {}, parallel |-> TRUE,
         bound |-> 2, tokens |-> FALSE, maxParallel |-> 2, policy |-> "All",
         calls |-> 3, crashes |-> 0]
\* parallel readers; writers under RootOnly; readers not asked to run in parallel
\* behind a root approval; a token ceiling; a full Task; stores that fail
MCConfigs == {[Base EXCEPT !.readers = {1, 2}],
              [Base EXCEPT !.readers = {1}, !.policy = "RootOnly", !.crashes = 1],
              [Base EXCEPT !.readers = {0, 1, 2}, !.parallel = FALSE, !.asks = TRUE, !.calls = 4],
              [Base EXCEPT !.readers = {1, 2}, !.tokens = TRUE],
              [Base EXCEPT !.room = FALSE],
              [Base EXCEPT !.faults = TRUE]}
=============================================================================
