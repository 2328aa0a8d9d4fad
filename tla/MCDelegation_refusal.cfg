SPECIFICATION Spec
CONSTANTS
    Children = {1, 2}
    Calls = {k1, k2}
    Configs <- MCConfigs
    MaySuspend = {1}
INVARIANTS
    RefusalLeavesNothing
CHECK_DEADLOCK FALSE
