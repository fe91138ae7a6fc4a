SPECIFICATION Spec
CONSTANTS
    Nodes = {n1, n2, n3}
    Pages = {p1, p2}
    NoNode = NoNode
    NoPage = NoPage
    MaxOps = 2
INVARIANTS TypeOK SingleWriter CopiesTracked HandlerAssertions
PROPERTIES OwnerIsExclusive ImplementsPageAccess
CONSTRAINT FewOps
SYMMETRY Symmetry
CHECK_DEADLOCK FALSE
