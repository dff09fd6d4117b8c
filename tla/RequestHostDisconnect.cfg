SPECIFICATION ReqFairSpec
CONSTANTS
    ReqIds = {"r"}
    ReqPeers = {}
    ReqStatuses = {"ok"}
    ReqBuilders <- MCBuilders
    ReqHeads <- MCHeads
    ReqLimits <- MCHostLimits
    ReqCauses = {"reset"}
PROPERTIES ReqDisconnectsAreCleaned
CHECK_DEADLOCK FALSE
