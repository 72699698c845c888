SPECIFICATION Spec
CONSTANTS
    TaskId = {t1, t2}
    NoTask = NoTask
    MaxTasks = 2
    MaxSize = 2
    PatientUser = TRUE
    OperatorActions = {}
    MaxClicks = 2
    MaxLosses = 0
    MaxRestarts = 0
CHECK_DEADLOCK FALSE
INVARIANT RejectionIsNoFailure
