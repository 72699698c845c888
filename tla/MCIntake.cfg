SPECIFICATION FairSpec
CONSTANTS
    p1 = p1
    p2 = p2
    p3 = p3
    p4 = p4
    m1 = m1
    m2 = m2
    Push <- MCPush
    MsgId <- MCMsgId
    MsgIdOf <- MCMsgIdOf
    Malformed <- MCMalformed
    MaxCache = 1
    TTL = 2
    MaxRetries = 2
    MaxCalls = 2
    MaxClock = 4
    MaxRestarts = 1
CHECK_DEADLOCK FALSE
INVARIANTS
    DuplicateWasAccepted
    PushedMeansAccepted
PROPERTIES
    PushEnds
