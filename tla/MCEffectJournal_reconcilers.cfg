SPECIFICATION Spec
CONSTANTS
    Null = Null
    Effects = {e1}
    Actors = {a1, a2}
    Preps = {p1}
    Revisions = {v1}
    Evidence = {g1}
    Recs = {r1, r2}
    Outputs = {x1}
    Hooks = TRUE
    Gate = FALSE
SYMMETRY Requests
INVARIANTS
    EvidenceAgrees
    AnswersBacked
