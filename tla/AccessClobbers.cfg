SPECIFICATION Spec
CONSTANTS
    SymbolId <- MCSymbolId
    Builtins <- MCBuiltins
    Parts <- AccessAtTop
    Programs <- AtTop
    MaxCalls = 5
INVARIANTS
    MeaningKept
CHECK_DEADLOCK FALSE
