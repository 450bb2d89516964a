CONSTANTS
    Member = {f, g, h}
    NoPin = NoPin
    MaxRef = 2
    MaxDepth = 3
    MaxArgs = 2
SPECIFICATION Spec
SYMMETRY Symmetry
INVARIANTS TypeOK NoUseAfterFree NoLeak ScopeCountSound RcExact
PROPERTIES ImplementsLifetime
CHECK_DEADLOCK FALSE
