SPECIFICATION ClientSpec
CONSTANTS
    c1 = c1  n1 = n1  n2 = n2
    s1 = s1  s2 = s2  l1 = l1  d1 = d1
    Existing <- MCExisting
    Sends <- MCSends
    Fresh <- MCFresh
    Loads <- MCLoads
    Deletes <- MCDeletes
INVARIANTS
    StreamIsInReach
    AnswersFollowQuestions
    ViewMatchesServer
