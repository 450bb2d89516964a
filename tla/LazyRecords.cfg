SPECIFICATION Spec
CONSTANTS
    Shapes <- MCShapes
    Wanted <- MCWanted
    Mutable <- MCMutable
    Start <- MCStart
    MaxObjects = 6
    MainSteps = 3
    ThunkSteps = 2
INVARIANTS
    LoadsAgree
    Accounted
CHECK_DEADLOCK FALSE
