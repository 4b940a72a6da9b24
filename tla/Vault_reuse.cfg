SPECIFICATION Spec
CONSTANTS
    None = None
    Requests = {r1, r2}
    r1 = r1
    r2 = r2
    ClockSkewTolerance = 0
    AuditCap = 1
    Limit = 9
    RetryWindow = 2
    CompactAt = 9
    CompactPeriod = 32
    Contexts <- RetryContexts
    Approvals <- RetryApprovals
    Creations <- LoginCreation
    PatchFields <- RetryPatches
    Specs <- Nothing
    Outcomes <- Nothing
    Reads <- Nothing
    Uses <- Nothing
    ClockPersistInterval = 2
    MaxTime = 4
    MaxFresh = 4
    MaxRevision = 4
    MaxGeneration = 7
    MaxCrashes = 1
    ClockStepsBack = FALSE
    MaxRecords = 2
    MaxRestores = 0
SYMMETRY RequestSymmetry
PROPERTIES
    EveryPublicationRecoverable
CHECK_DEADLOCK FALSE
