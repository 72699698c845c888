SPECIFICATION Spec
CONSTANTS
    p1 = p1
    p2 = p2
    p3 = p3
    p4 = p4
    p5 = p5
    m1 = m1
    m2 = m2
    Push <- MCPush
    MsgId <- MCMsgId
    MsgIdOf <- MCMsgIdOf
    Malformed <- MCMalformed
    MaxCache = 2
    TTL = 2
    MaxRetries = 1
    MaxCalls = 5
    MaxClock = 4
    MaxRestarts = 0
SYMMETRY Symmetry
CHECK_DEADLOCK FALSE
INVARIANTS
    ReacceptedForAReason
