SPECIFICATION MCSpec
CONSTANTS
    Nodes = {1, 2, 3}
INVARIANTS TypeOK
PROPERTIES WinnerOutlivesHigher OneCoordinatorInTheEnd
CHECK_DEADLOCK FALSE
