SPECIFICATION Spec
CONSTANTS
    p1 = p1
    p2 = p2
    p3 = p3
    A = A
    B = B
    Null = Null
    Procs = {p1, p2, p3}
    Owners = {A, B}
    OwnerOf <- RestartedOwner
    Ttl = 2
    MaxNow = 5
CONSTRAINT RevisionBound
INVARIANTS
    ExclusiveOwner
PROPERTIES
    FencedWhileRowLives
