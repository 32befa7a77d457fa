SPECIFICATION Spec
CONSTANTS
    Thread = {t1, t2}
    Node = {n1, n2, n3}
    Dummy = n1
    End = End
    MaxItems = 3
    Cell = {c1, c2}
    Null = Null
    NODECOUNT = 2
    MaxMade = 6
    MaxPushes = 3
    Receiver = {r1, r2}
    Radix = 4
    STICKYKEY = 2
    MaxPayload = 2
    MaxLives = 2
    WanHeader = 3
    LanHeader = 2
    PAYLOAD_MAX = 2
    Capacity = 6
    Messages = 3
    MaxLen = 4
    Value = {0, 1}
    Size = 4
    MaxChunk = 4
    Worker = {w1}
    Caller = {c}
    Acceptor = a
    SessionMax = 2
    MaxCalls = 2
INVARIANTS TypeOK QueueHolds OwnedOnce Delivered
PROPERTIES InOrder EverythingEnds
CHECK_DEADLOCK FALSE
