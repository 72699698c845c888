SPECIFICATION Spec
CONSTANTS
    TaskId = {t1, t2}
    NoTask = NoTask
    MaxTasks = 2
    MaxSize = 2
    PatientUser = FALSE
    OperatorActions = {"timeout"}
    MaxClicks = 2
    MaxLosses = 1
    MaxRestarts = 1
SYMMETRY Symmetry
CHECK_DEADLOCK FALSE
INVARIANTS
    ApprovedBeforeExecuted
    EndsForAReason
    BusyMeansExecuting
    DeferredLostForAReason
PROPERTIES
    LateAnswersIgnored
