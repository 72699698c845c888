SPECIFICATION Spec
CONSTANTS
    t1 = t1
    t2 = t2
    t3 = t3
    None = None
    Task <- MCTask
    Priority <- MCPriority
    EnablePriority = TRUE
    MaxSize = 2
    MaxHistory = 2
    MaxClicks = 2
    MaxClears = 1
CHECK_DEADLOCK FALSE
SYMMETRY Symmetry
INVARIANTS
    PendingIsWaiting
    ServedInOrder
    SlotFreedUnlessCleared
    OneExecutionPerApproval
PROPERTIES
    ImplementsDelivery
