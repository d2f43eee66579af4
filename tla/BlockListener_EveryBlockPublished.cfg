CONSTANTS
    MaxHeight = 4
    MaxRestarts = 2
SPECIFICATION Spec
CHECK_DEADLOCK FALSE
INVARIANTS
    EveryBlockPublished
