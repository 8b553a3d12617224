SPECIFICATION Spec
CONSTANTS
    a1 = a1  a2 = a2  a3 = a3  a4 = a4
    Attempts <- MCAttempts
    LeaseTtl = 3
    MaxFlushes = 0
INVARIANTS
    AtMostOneRunning
