SPECIFICATION Spec
CONSTANTS
    None = None
    Requests = {r1, r2, r3}
    r1 = r1
    r2 = r2
    r3 = r3
    ClockSkewTolerance = 0
    AuditCap = 1
    Limit = 9
    RetryWindow = 9
    CompactAt = 9
    CompactPeriod = 6
    Contexts <- ShareContexts
    Approvals <- ShareApprovals
    Creations <- LoginCreation
    PatchFields <- SharePatches
    Specs <- ShareSpecs
    Outcomes <- Nothing
    Reads <- ShareReads
    Uses <- Nothing
    ClockPersistInterval = 2
    MaxTime = 3
    MaxFresh = 4
    MaxRevision = 4
    MaxGeneration = 8
    MaxCrashes = 0
    ClockStepsBack = FALSE
    MaxRecords = 1
    MaxRestores = 0
SYMMETRY RequestSymmetry
INVARIANTS
    CandidatesValid
    DelegateNeedsIssuer
PROPERTIES
    AccessOnlyByConsent
CHECK_DEADLOCK FALSE
