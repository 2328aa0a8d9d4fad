SPECIFICATION FairSpec
CHECK_DEADLOCK FALSE
CONSTANTS
    Null = Null
    w1 = w1
    w2 = w2
    Open = Open
    Strict = Strict
    Delete = Delete
    Update = Update
    Exceed = Exceed
    Configs <- Batches
    MaxSteps = 2
    MaxBatch = 2
    Preps = {Delete, Update, Exceed}
    Policies = {Open, Strict}
    Decide <- Rules
    Conflict <- SamePath
    ToolOf <- OneTool
    Waits = {w1, w2}
INVARIANTS
    EntriesBounded
PROPERTIES
    EntryOrderly
    OwnCheckpointsValid
    UncertaintyDominates
    RunEnds
