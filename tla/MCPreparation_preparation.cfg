SPECIFICATION Spec
CONSTANTS
    Calls = {1, 2, 3, 4, 5}
    Acl <- MCAcl
    CatalogVersions = 2
    Configs <- MCConfigs
    MaxCasAttempts = 2
CHECK_DEADLOCK FALSE
INVARIANTS
    StoresUsable
    ReturnedIsSaved
    RefusalJustified
    RevocationHolds
