CONSTANTS
    Clients = {0, 1, 2}
    MaxMsgs <- MCMaxMsgs
SPECIFICATION FairSpec
INVARIANTS TypeOK CausalDelivery NoClockIsAhead
PROPERTIES DropsTheOvertaken BroadcastEnds
CHECK_DEADLOCK FALSE
