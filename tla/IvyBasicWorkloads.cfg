SPECIFICATION TestSpec
CONSTANTS
    Nodes = {n1, n2, n3}
    Pages = {p1}
    NoNode = NoNode
    NoPage = NoPage
    MaxOps = 3
INVARIANTS NoPanic ReadsLatest
PROPERTIES OperationsReturn
CHECK_DEADLOCK FALSE
