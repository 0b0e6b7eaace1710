SPECIFICATION Spec
CONSTANTS
    Subjects <- MCFor
    Pool <- MCPool
    MaxSettings = 1
INVARIANTS RangeConditionLoads
CHECK_DEADLOCK FALSE
