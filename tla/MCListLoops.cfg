SPECIFICATION Spec
CONSTANTS
    MaxList = 4
    MaxSrc = 3
INVARIANT LoopsExact
PROPERTY Ends
CHECK_DEADLOCK FALSE
