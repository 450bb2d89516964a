SPECIFICATION Spec
CONSTANTS
    SymbolId <- MCSymbolId
    Builtins <- MCBuiltins
    Parts <- MCParts
    Programs <- MCPrograms
    MaxCalls = 5
INVARIANTS
    MeaningKept
    VariablesAreSet
CHECK_DEADLOCK FALSE
