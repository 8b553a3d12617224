SPECIFICATION FairSpec
CONSTANTS
    c1 = c1  c2 = c2  c3 = c3  c4 = c4  c5 = c5
    NoCall = NoCall
    Calls <- MCCalls5
    AllowAbort = TRUE
    FailureThreshold = 2
    ResetTimeout = 2
    SuccessThreshold = 2
    MaxOperatorActions = 1
INVARIANTS
    TypeOK
    CountersAgree
    LeaseAccounted
    TrialsBounded
PROPERTIES
    KeepsPromise
    OpenIsTriedAgain
    LeaseResolves
