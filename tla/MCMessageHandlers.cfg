CONSTANTS
    Ids = {m1, m2}
    Groups = {g1, g2}
    Addresses = {alice, bob}
    Nonces = {n1, n2, n3}
    MaxOrder = 2
    MaxUpdates = 3
    MaxInFlight = 2
    MaxRestarts = 1

SPECIFICATION Spec

INVARIANTS
    TypeOK
    OrdersUnique
    NoncesExact
    ChecksStillHold

PROPERTY ImplementsBoard

SYMMETRY Symmetry
CHECK_DEADLOCK FALSE
