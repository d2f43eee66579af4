CONSTANTS
    Base = 2
    Factor = 3
    MaxAttempts = 2
    UseJitter = TRUE
    RetryOnTxFail = FALSE
SPECIFICATION Spec
INVARIANT FailedMeansNotPublished
CHECK_DEADLOCK FALSE
