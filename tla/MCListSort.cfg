SPECIFICATION Spec
CONSTANTS
    N = 5
    Rank = {1, 2, 3}
INVARIANTS TypeOK SortExact
PROPERTY Ends
CHECK_DEADLOCK FALSE
