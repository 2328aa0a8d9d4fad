SPECIFICATION FairSpec
CONSTANTS
    Null = Null
    Effects = {e1}
    Actors = {a1, a2}
    Preps = {p1}
    Revisions = {v1}
    Evidence = {g1}
    Recs = {}
    Outputs = {x1}
    Hooks = TRUE
    Gate = TRUE
INVARIANTS
    RefusalMeansNotEntered
PROPERTIES
    OperationsReturn
