CONSTANTS
    Seeds = {s1}
    None = None
    Torn = Torn
    MaxImages = 2
    MaxFaults = 2
    PowerLoss = FALSE
SPECIFICATION Spec
INVARIANT EveryGateIsRecoverable
CHECK_DEADLOCK FALSE
