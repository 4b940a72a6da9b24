SPECIFICATION Spec
CONSTANTS
    PAGE = 3
    Frame = 4
    Sizes = {1, 2, 5}
    Capacity = 5
    MaxChanges = 2
INVARIANTS
    ListingComplete
    PageIsLongest
PROPERTIES
    ListingEnds
CHECK_DEADLOCK FALSE
