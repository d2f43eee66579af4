CONSTANTS
    Base = 2
    Factor = 3
    MaxAttempts = 2
    UseJitter = TRUE
    RetryOnTxFail = FALSE
SPECIFICATION FairSpec
INVARIANTS TypeOK OkMeansMined
PROPERTIES CallReturns
CHECK_DEADLOCK FALSE
