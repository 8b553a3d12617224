SPECIFICATION Spec
CONSTANTS
    c1 = c1  u = u
    m1 = m1  m2 = m2  m3 = m3  m4 = m4  r1 = r1
    Conversations <- MCConversations
    Unknown <- MCUnknown
    Messages <- MCMessages
    Thread <- MCThread
    Question <- MCQuestion
    Tokens <- MCTokens
    Requests <- MCRequests
    LastTurn <- MCLastTurn
    MaxFailures = 2
    MaxRestarts = 1
CHECK_DEADLOCK FALSE
INVARIANTS
    TableCountsItsMessages
    MemoryIsComplete
    StoresAgreeAtRest
    SavesAreReadBack
    AnswerFollowsQuestion
    DeletedIsGone
