CONSTANTS
    w1 = w1
    w2 = w2
    Worker = {w1, w2}
    Caller = {c1}
    Acceptor = acceptor
    Backlog = 2
    Fault = {"post", "malformed"}
    MaxPackets = 4
    MaxAborts = 1
SYMMETRY Symmetry
SPECIFICATION Spec
INVARIANTS
    TypeOK
    SentInOrder
    NoDebugBreak
