SPECIFICATION SequentialSpec
CONSTANTS
    Nodes = {n1, n2}
    Pages = {p1}
    NoNode = NoNode
    NoPage = NoPage
    MaxOps = 2
INVARIANTS OwnerHasPage
CHECK_DEADLOCK FALSE
