CONSTANTS
    f1 = f1
    p3 = p3
    NoFn = NoFn
    Fn = {f1, p3}
    Islam = {f1}
    Arity <- Arities
    MaxObj = 6
    MaxArgs = 3
    MaxHeld = 2
    MaxDepth = 3
    MaxPushed = 4
SPECIFICATION Spec
INVARIANTS TypeOK NothingDangles StackExact CountsExact ThisIsRunning
PROPERTIES ImplementsUncurried
CHECK_DEADLOCK FALSE
