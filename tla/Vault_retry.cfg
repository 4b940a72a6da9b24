SPECIFICATION Spec
CONSTANTS
    None = None
    Requests = {r1, r2}
    r1 = r1
    r2 = r2
    ClockSkewTolerance = 0
    AuditCap = 2
    Limit = 3
    RetryWindow = 2
    CompactAt = 2
    CompactPeriod = 32
    Contexts <- RetryContexts
    Approvals <- RetryApprovals
    Creations <- LoginCreation
    PatchFields <- RetryPatches
    Specs <- RetrySpecs
    Outcomes <- RetryOutcomes
    Reads <- Nothing
    Uses <- Nothing
    ClockPersistInterval = 2
    MaxTime = 5
    MaxFresh = 4
    MaxRevision = 4
    MaxGeneration = 6
    MaxCrashes = 1
    ClockStepsBack = FALSE
    MaxRecords = 2
    MaxRestores = 0
SYMMETRY RequestSymmetry
INVARIANTS
    AtMostOncePerWindow
    RetriesAnswered
    HistoryIsFreed
    CompactionSettles
PROPERTIES
    OnlyStrayingIsRefused
CHECK_DEADLOCK FALSE
