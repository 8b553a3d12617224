SPECIFICATION FairSpec
CONSTANTS
    r1 = r1  r2 = r2  t1 = t1  bad = bad
    Requests <- MCRequests
    Keyed <- MCRequests
    Threads <- MCThreads
    Malformed <- MCMalformed
    Named <- MCNamed
    Fresh <- MCFresh
    AllowAbort = TRUE
    Tokens <- MCTokens
    MaxConcurrent = 1
    RpmLimit = 2
    TpmLimit = 2
    StreamTtl = 1
    WindowTtl = 1
    TicksPerMinute = 1
    MaxTick = 0
    KeyTtl = 1
    Registry <- MCRegistry
    Requested <- MCRequested
    MaxOperatorActions = 0
    FailureThreshold = 1
    ResetTimeout = 1
    SuccessThreshold = 2
INVARIANTS
    ProbeIsServed
    NothingLeftBehind
    LedgersAgree
    HistoryIsCurrent
PROPERTIES
    EveryRequestEnds
