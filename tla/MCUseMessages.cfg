CONSTANTS
    Ids = {m1, m2}
    Groups = {g1, g2}
    PageLimit = 1
    MaxVisits = 3
    MaxRequests = 2

SPECIFICATION Spec

INVARIANTS
    TypeOK
    NothingPassedOver
    OnlyThisGroup
    ShownOnceInOrder
    OwnMessagesAgree

SYMMETRY Symmetry
CHECK_DEADLOCK FALSE
