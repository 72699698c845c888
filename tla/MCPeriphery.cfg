SPECIFICATION FairSpec
CONSTANTS
    None = None
    NoExecution = NoExecution
    m1 = m1
    m2 = m2
    m3 = m3
    Message <- MCMessage
    Key <- MCKey
    Timed <- MCTimed
    MaxCache = 2
    Visible = 2
    MaxHandled = 2
    MaxDays = 1
    Timeout = 4
    PollInterval = 2
    ReminderInterval = 1
    MaxReminders = 3
    MaxDelay = 1
    MaxWaits = 2
    MaxReplies = 3
    Exec = {e1, e2}
    Call = {c1, c2}
    MaxCancels = 2
    MaxFailures = 1
CHECK_DEADLOCK FALSE
INVARIANTS
    KnownWasReported
    ReportedAgainForAReason
    AnswerInTimeCounts
    NewestAnswerReturned
    CancelReachesTheRunning
    CurrentIsRunning
    WorkGoesOnForAReason
PROPERTIES
    SilentAfterDisconnect
    WaitEnds
    ExecutionReturns
