SPECIFICATION Spec
CONSTANTS
    TaskId = {t1, t2, t3}
    NoTask = NoTask
    MaxTasks = 2
    MaxSize = 2
    PatientUser = TRUE
    OperatorActions = {}
    MaxClicks = 2
    MaxLosses = 1
    MaxRestarts = 0
SYMMETRY Symmetry
CHECK_DEADLOCK FALSE
INVARIANTS
    OneRowPerTask
    CountedOnce
PROPERTIES
    ForgetsOnlyEnded
    ImplementsLifecycle
