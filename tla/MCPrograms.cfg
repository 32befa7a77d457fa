SPECIFICATION Spec
CONSTANTS
    Slot = {s1, s2}
    MaxIds = 2
    Right = 3
    Bottom = 2
    SECTOR_RATIO = 1
    SpeedX = 1
    SpeedY = 1
    Direction = {"LL", "RD"}
    StartX = {0, 2}
    StartY = {1}
    MaxFrames = 1
    MaxMessages = 1
    Worker = {w1, w2}
    Account = {a1}
    Wrap = 8
    MaxLogins = 2
    DataType = {1}
    Value = {0, 1, 3}
    MaxReports = 2
    MaxListed = 3
    SESSION_PER_THREAD = 1
    clientCount = 2
    MAX_SECTOR = 3
    Text = {"hi"}
    MaxOnWay = 2
    Fresh = {0}
    MaxChats = 2
INVARIANTS TypeOK ChatAgrees ServersAgree ClientsAgree
PROPERTY RoundsGoOn
CHECK_DEADLOCK FALSE
