SPECIFICATION Spec
CONSTANTS
    Threads = {"u", "v"}
    MaxExits = 1
    MaxLanes = 2
    MaxLogs = 2
    MaxDropped = 1
INVARIANTS
    FileIsTrue
PROPERTIES
    LoggedIsWritten
    ShutdownReturns
CHECK_DEADLOCK FALSE
