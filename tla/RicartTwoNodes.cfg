SPECIFICATION Spec
CONSTANTS
    Nodes = {1, 2}
    MaxRequests = 2
INVARIANTS TypeOK MutualExclusion NoOtherPanic EarliestEnters
CHECK_DEADLOCK FALSE
