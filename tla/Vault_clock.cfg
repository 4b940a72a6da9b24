SPECIFICATION Spec
CONSTANTS
    None = None
    Requests = {r1, r2}
    r1 = r1
    r2 = r2
    ClockSkewTolerance = 1
    AuditCap = 1
    Limit = 9
    RetryWindow = 2
    CompactAt = 9
    CompactPeriod = 32
    Contexts <- SessionContexts
    Approvals <- SessionApprovals
    Creations <- LoginCreation
    PatchFields <- Nothing
    Specs <- Nothing
    Outcomes <- Nothing
    Reads <- Nothing
    Uses <- PlainUses
    ClockPersistInterval = 2
    MaxTime = 5
    MaxFresh = 4
    MaxRevision = 2
    MaxGeneration = 8
    MaxCrashes = 2
    ClockStepsBack = TRUE
    MaxRecords = 1
    MaxRestores = 0
SYMMETRY RequestSymmetry
INVARIANTS
    MemoryIsDisk
    DispatchBeforeExpiry
PROPERTIES
    HighWaterKept
CHECK_DEADLOCK FALSE
