SPECIFICATION RetrySpec
CONSTANTS
    MaxRetries = 3
    BaseDelay = 2
    MaxDelay = 7
    Deadline = 12
    MaxDuration = 6
    MaxLateness = 1
CHECK_DEADLOCK FALSE
INVARIANTS
    OverrunBounded
    ErrorIsFinal
