CONSTANTS
    Users = {me, you}
    Me = me
    Groups = {g1, g2}
    Messaging = {"rotate"}
    Rotator = "rotate"
    MaxChanges = 2
    MaxVisits = 1
    Slots = {s1, s2}

SPECIFICATION Spec

INVARIANTS
    TypeOK
    AdminRemains
    OwnChangesShown

SYMMETRY Symmetry
CHECK_DEADLOCK FALSE
