SPECIFICATION Spec
CONSTANTS
    s1 = s1
    s2 = s2
    s3 = s3
    w1 = w1
    w2 = w2
    w3 = w3
    Slot = {s1, s2}
    Worker = {w1, w2}
    Nobody = Nobody
    XMax = 2
    YMax = 1
    Shared = FALSE
    MaxSessions = 3
    MaxMessages = 3
INVARIANTS TypeOK SectorsAgree ListsHoldStill NoLockCycle KeysAgree
PROPERTY EverythingEnds
CHECK_DEADLOCK FALSE
