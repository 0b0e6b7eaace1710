SPECIFICATION Spec
CONSTANTS
    Subjects <- MCSubjects
    Pool <- MCPool
    OptionSets <- MCOptionSets
    MaxSettings = 1
    MaxEdits = 2
INVARIANTS WalkReachesEachOnce CopyLosesOnlyPlain CopyIsEqual ChangesAreSeen KeysTellApart MatchFindsThePlace
CHECK_DEADLOCK FALSE
