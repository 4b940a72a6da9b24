SPECIFICATION Spec
CONSTANTS
    None = None
    Requests = {r1, r2}
    r1 = r1
    r2 = r2
    ClockSkewTolerance = 0
    AuditCap = 1
    Limit = 9
    RetryWindow = 1
    CompactAt = 9
    CompactPeriod = 6
    Contexts <- DeliveryContexts
    Approvals <- DeliveryApprovals
    Creations <- LoginCreation
    PatchFields <- Nothing
    Specs <- DeliverySpecs
    Outcomes <- Nothing
    Reads <- Nothing
    Uses <- RegisterUses
    ClockPersistInterval = 2
    MaxTime = 2
    MaxFresh = 5
    MaxRevision = 2
    MaxGeneration = 7
    MaxCrashes = 1
    ClockStepsBack = FALSE
    MaxRecords = 1
    MaxRestores = 1
SYMMETRY RequestSymmetry
INVARIANTS
    AuthorityIsRenewed
    RegisterOnce
    DispatchAccounted
    UnfinishedIsRecoverable
PROPERTIES
    PublicationsRecoverable
CHECK_DEADLOCK FALSE
