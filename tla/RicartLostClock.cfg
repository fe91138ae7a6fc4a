SPECIFICATION Spec
CONSTANTS
    Nodes = {1, 2, 3}
    MaxRequests = 1
INVARIANTS MutualExclusion
CHECK_DEADLOCK FALSE
CONSTRAINT Staggered
