CONSTANTS
    Seeds = {s1, s2}
    None = None
    Torn = Torn
    MaxImages = 4
    MaxFaults = 3
    PowerLoss = TRUE
SPECIFICATION Spec
INVARIANT TypeOK
INVARIANT ServingIsDurable
INVARIANT UngatedAuthorityIsConfirmed
INVARIANT ConfirmedNeverLost
CHECK_DEADLOCK FALSE
PROPERTY ImplementsRegister
