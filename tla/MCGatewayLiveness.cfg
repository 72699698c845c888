SPECIFICATION FairSpec
CONSTANTS
    TaskId = {t1, t2}
    NoTask = NoTask
    MaxTasks = 2
    MaxSize = 1
    PatientUser = TRUE
    OperatorActions = {}
    MaxClicks = 3
    MaxLosses = 0
    MaxRestarts = 0
CHECK_DEADLOCK FALSE
PROPERTIES
    DecidedEnds
    SlotFreed
    MessageClassified
