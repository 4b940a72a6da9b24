CONSTANTS
    Seeds = {s1, s2}
    None = None
    Torn = Torn
    MaxImages = 3
    MaxFaults = 2
    PowerLoss = FALSE
SPECIFICATION FairSpec
CHECK_DEADLOCK FALSE
INVARIANT UngatedIsConfirmed
INVARIANT WholeGateIsRecoverable
PROPERTY RecoveryCompletes
