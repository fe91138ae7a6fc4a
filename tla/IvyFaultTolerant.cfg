CONSTANTS
    Nodes <- MCNodes
    CMs <- MCCMs
    Workloads <- MCWorkloads
    MaxKills = 1
    ElectionIds = 4
SPECIFICATION FairSpec
INVARIANTS TypeOK NoOtherPanic OneLivePrimary CopiesAreLatest BackupHasRecords
PROPERTIES AccessIsGranted OperationsReturn
CHECK_DEADLOCK FALSE
