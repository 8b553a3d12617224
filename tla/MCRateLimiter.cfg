SPECIFICATION FairSpec
CONSTANTS
    r1 = r1  r2 = r2
    Requests <- MCRequests
    Tokens <- MCTokens
    MaxConcurrent = 1
    RpmLimit = 1
    TpmLimit = 2
    LeaseTtl = 2
    WindowTtl = 3
    TicksPerMinute = 2
    MaxTick = 3
    MaxCrashes = 1
    MaxFlushes = 1
INVARIANTS
    NeverOvercounts
    
    
PROPERTIES
    OrphansExpire
