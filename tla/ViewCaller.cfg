CONSTANTS
    Base = 2
    Factor = 3
    MaxAttempts = 3
    UseJitter = TRUE
SPECIFICATION Spec
CHECK_DEADLOCK FALSE
INVARIANTS
    TypeOK
