SPECIFICATION Spec
CONSTANTS
    r = r
    kid = kid
    r1 = r1
    r2 = r2
    c1 = c1
    w1 = w1
    op1 = op1
    Invocations = {r, kid}
    Root = r
    Parent <- MCParent
    Continuations = {}
    Attempts = {r1, r2, c1}
    Owner <- MCOwner
    Definitions <- MCDefinitions
    Workers = {w1}
    Operators = {op1}
    MaySuspend = {r2, c1}
    MaxModels <- MCModels
    MaxRows = 17
CONSTRAINT Bounded
INVARIANT StaysReplayable
CHECK_DEADLOCK FALSE
