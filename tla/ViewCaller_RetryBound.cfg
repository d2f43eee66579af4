CONSTANTS
    Base = 2
    Factor = 3
    MaxAttempts = 2
    UseJitter = FALSE
SPECIFICATION Spec
CHECK_DEADLOCK FALSE
INVARIANTS
    RetryBound
