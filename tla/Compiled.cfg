CONSTANTS
    FnBodies <- MCFnBodies
    MaxLoops = 2
SPECIFICATION Spec
INVARIANTS
    MachineFollowsTape
CHECK_DEADLOCK FALSE
