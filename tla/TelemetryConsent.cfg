SPECIFICATION TelSpec
CONSTANTS
    TelProcs = {"a", "b", "c"}
    TelCommands = 5
    TelCrashes = 1
    TelMaxEvents = 2
INVARIANT TelDisablingStopsCollection
CHECK_DEADLOCK FALSE
