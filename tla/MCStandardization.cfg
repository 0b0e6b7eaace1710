SPECIFICATION Spec
CONSTANTS
    Languages <- MCLanguages
    Leaves <- MCLeaves
    Ops <- MCOps
    MaxSize = 1
    MaxWidth = 6
INVARIANTS TypesFollow PrecisionKept CheckAccepts
CHECK_DEADLOCK FALSE
