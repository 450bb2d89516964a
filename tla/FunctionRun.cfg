CONSTANTS
    Program <- Programs
    Entry <- Entries
    MaxLoops = 2
SPECIFICATION Spec
INVARIANTS
    TypeOK
    NoUseAfterFree
    Balanced
CHECK_DEADLOCK FALSE
