SPECIFICATION RetrySpec
CONSTANTS
    BatchSize = 2
    MaxAttempts = 3
    MaxSkewReads = 2
    InitialCount = 1
    OtherCreations = {0, 1, 2}
    MaxLedger = 5
INVARIANT AloneItIsNotMisled
PROPERTY ResubmitsOnlyUnlanded
PROPERTY CallReturns
CHECK_DEADLOCK FALSE
