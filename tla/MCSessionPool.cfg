CONSTANTS
    i1 = i1
    i2 = i2
    w1 = w1
    w2 = w2
    Index = {i1, i2}
    Worker = {w1, w2}
    Acceptor = acceptor
    NoIndex = NoIndex
    MaxID = 2
SYMMETRY Symmetry
SPECIFICATION Spec
INVARIANTS
    TypeOK
    InUseStaysOpen
    MessagesOnlyWhileOpen
    NoForeignPacket
    NoForeignAbort
    OneOwnerPerSlot
    NoOrphan
PROPERTY ImplementsContract
