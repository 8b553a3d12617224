SPECIFICATION FairSpec
CONSTANTS
    c1 = c1  c2 = c2  c3 = c3  c4 = c4  c5 = c5
    NoCall = NoCall
    Calls <- MCCalls3
    AllowAbort = TRUE
    FailureThreshold = 2
    ResetTimeout = 2
    SuccessThreshold = 2
    MaxOperatorActions = 0
PROPERTIES
    EveryLeaseResolves
