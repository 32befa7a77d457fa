CONSTANTS
    w1 = w1
    w2 = w2
    Worker = {w1, w2}
    Caller = {c1}
    Acceptor = acceptor
    Backlog = 2
    Fault = {}
    MaxPackets = 2
    MaxAborts = 0
SPECIFICATION Spec
INVARIANTS
    NoCountLeaks
PROPERTY PacketsLeave
