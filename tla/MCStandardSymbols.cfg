SPECIFICATION Spec
CONSTANTS
    SourceLanguages <- MCSourceLanguages
    Destinations <- MCDestinations
INVARIANTS
    SymbolsResolve
    OnlyUnsupportedStop
    IncludedWhereUsed
CHECK_DEADLOCK FALSE
