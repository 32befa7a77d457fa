CONSTANTS
    w1 = w1
    w2 = w2
    Worker = {w1, w2}
    Caller = {c1}
    Acceptor = acceptor
    Backlog = 2
    Fault = {}
    MaxPackets = 1
    MaxAborts = 1
SPECIFICATION Spec
PROPERTY AbortCloses
