CONSTANTS
    Worker = {w1, w2}
    MaxCount = 3
    StackSize = 5
    MaxConnections = 5
SPECIFICATION Spec
INVARIANTS
    TypeOK
    IndexBound
    CountAccounts
PROPERTY CalmExitStops
CHECK_DEADLOCK FALSE
