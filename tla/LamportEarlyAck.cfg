SPECIFICATION Spec
CONSTANTS
    Nodes = {1, 2}
    MaxRequests = 1
INVARIANTS MutualExclusion
CHECK_DEADLOCK FALSE
