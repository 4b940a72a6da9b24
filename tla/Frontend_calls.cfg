SPECIFICATION Spec
CONSTANTS
    None = None
    Frontends = {f1, f2}
    f1 = f1
    f2 = f2
    Requests = {r1}
    r1 = r1
    Reads = {metadata}
    metadata = metadata
    MaxCalls = 2
    MaxBuffered = 1
    MaxStops = 1
SYMMETRY Symmetry
INVARIANTS
    AnswersTheCall
    OneCallUnderWay
PROPERTIES
    AnswersAreSettled
    FrontendWindsDown
CHECK_DEADLOCK FALSE
