SPECIFICATION Spec
CONSTANTS
    Null = Null
    Effects = {e1}
    Actors = {a1, a2}
    Preps = {p1}
    Revisions = {v1}
    Evidence = {g1, g2}
    Recs = {r1}
    Outputs = {x1}
    Hooks = TRUE
    Gate = TRUE
SYMMETRY Grants
INVARIANTS
    ObservedBeforeSuccess
