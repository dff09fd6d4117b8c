SPECIFICATION OwnSpec
CONSTANTS
    MaxSlots = 3
    MaxGeneration = 1
    MaxResources = 3
    MaxCleanups = 0
    MaxCalls = 2
    ChildrenPull = TRUE
INVARIANT RunningStaysAlive
CHECK_DEADLOCK FALSE
