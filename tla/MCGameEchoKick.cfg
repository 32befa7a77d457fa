SPECIFICATION Spec
CONSTANTS
    s1 = s1
    s2 = s2
    auth = auth
    game = game
    w1 = w1
    Slot = {s1, s2}
    Slot0 = s1
    WorkThread = {auth, game}
    Auth = auth
    Game = game
    Worker = {w1}
    NoWork = NoWork
    MaxSessions = 2
    MaxAsked = 2
    Asked = {"login", "echo", "misfit", "heartbeat"}
CHECK_DEADLOCK FALSE
INVARIANT NoDebugBreak
