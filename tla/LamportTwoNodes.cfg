SPECIFICATION Spec
CONSTANTS
    Nodes = {1, 2}
    MaxRequests = 2
INVARIANTS TypeOK NoOtherPanic MutexesHaveOneHolder AcksConserved SpacedMutualExclusion HolderIsQueuedEverywhere HeadIsOwnRequest
CHECK_DEADLOCK FALSE
