SPECIFICATION FairSpec
CONSTANTS
    t1 = t1
    t2 = t2
    t3 = t3
    None = None
    Task <- MCTwoTasks
    Priority <- MCPriority
    EnablePriority = FALSE
    MaxSize = 2
    MaxHistory = 2
    MaxClicks = 2
    MaxClears = 1
CHECK_DEADLOCK FALSE
PROPERTIES
    QueuedIsServed
