CONSTANTS
    Worker = {w1, w2}
    MaxCount = 3
    StackSize = 5
    MaxConnections = 5
SPECIFICATION Spec
PROPERTY ExitStops
CHECK_DEADLOCK FALSE
