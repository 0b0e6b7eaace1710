SPECIFICATION GenerateSpec
CONSTANTS
    Root = {"a", "i"}
    Decl = {}
    Nameless = Nameless
    MaxIndex = 2
    MaxLen = 4
    Kind <- MCKind
    Level <- MCLevel
    UnitName <- MCUnitName
    MaxRuns = 12
    Designs <- MCDesigns
    MaxPasses = 1
INVARIANTS
    ThrownAllocated
    ElaborationExact
PROPERTIES
    NamesApart
    MeaningFollows
CHECK_DEADLOCK FALSE
