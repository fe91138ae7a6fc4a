SPECIFICATION FairSpec
CONSTANTS
    Nodes = {1, 2, 3}
    Times <- MCTimes
    MaxRequests = 2
INVARIANTS TypeOK MutualExclusion CountedVotesAreGiven NoVoteIsLost
PROPERTIES AcquireReturns
CHECK_DEADLOCK FALSE
