CONSTANTS
    Nodes <- MCNodes
    CMs <- MCCMs
    Workloads <- MCWorkloads
    MaxKills = 1
    ElectionIds = 4
SPECIFICATION FairSpec
INVARIANT NoUnexpectedAck
CHECK_DEADLOCK FALSE
