SPECIFICATION FairSpec
CONSTANTS
    a1 = a1  a2 = a2  a3 = a3  a4 = a4
    Attempts <- MCAttempts
    LeaseTtl = 3
    MaxFlushes = 1
INVARIANTS
    LeaseCoversRecent
PROPERTIES
    KeyIsFreed
