SPECIFICATION Spec
CONSTANTS
    Subjects <- MCPortAssign
    Pool <- MCPool
    OptionSets <- MCOptionSets
    MaxSettings = 1
    MaxEdits = 2
INVARIANT MatchIsComplete
CHECK_DEADLOCK FALSE
