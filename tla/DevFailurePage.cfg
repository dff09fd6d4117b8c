SPECIFICATION DevSpec
CONSTANTS
    DevRouteSources = {"page"}
    DevEdits = 2
    DevBuilds = 1
    DevLoads = 2
INVARIANT DevFailurePagesRecover
CHECK_DEADLOCK FALSE
