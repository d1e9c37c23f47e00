CONSTANTS
    Messages = {m1, m2}
    Slots = 2
    PageLimit = 1
    MaxOrder = 2
    MaxQuilts = 2
    MaxEvents = 2
    MaxRestarts = 1

SPECIFICATION Spec

INVARIANTS
    TypeOK
    StoreIsLatest
    RecoveryIsComplete

SYMMETRY Symmetry
CHECK_DEADLOCK FALSE
