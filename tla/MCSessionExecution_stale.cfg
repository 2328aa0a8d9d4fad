SPECIFICATION Spec
CHECK_DEADLOCK FALSE
CONSTANTS
    Null = Null
    t1 = t1
    t2 = t2
    Turns = {t1, t2}
    Callers = {c1, c2}
    MaxCheckpoint = 1
    Limits <- Resumes
SYMMETRY Requests
INVARIANT
    CompletedFactWins
