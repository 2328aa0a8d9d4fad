SPECIFICATION FairSpec
CONSTANTS
    Children = {1, 2}
    Calls = {k1, k2}
    Configs <- MCConfigs
    MaySuspend = {1}
INVARIANTS
    ChildRunsSound
    RootSeesJoin
    VerdictBacked
PROPERTIES
    OverStartsNothing
    CallsReturn
CHECK_DEADLOCK FALSE
