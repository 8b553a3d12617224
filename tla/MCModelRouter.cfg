SPECIFICATION FairSpec
CONSTANTS
    c1 = c1  c2 = c2
    Calls <- MCCalls
    Registry <- MCRegistry
    Requested <- MCRequested
    AllowAbort = TRUE
    FailureThreshold = 1
    ResetTimeout = 1
    SuccessThreshold = 1
    MaxOperatorActions = 1
PROPERTIES
    LeaseFollowsRoute
    ProtectedKeepPromise
    EveryModelReturns
