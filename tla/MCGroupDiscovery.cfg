CONSTANTS
    Accounts = {a1, a2}
    Uuids = {g1, g2}
    Runs = {r1, r2}
    MaxEvents = 3
    MaxListed = 2

SPECIFICATION GroupsSpec

INVARIANTS
    GroupsTypeOK
    DiscoveryIsRight

SYMMETRY Symmetry
CHECK_DEADLOCK FALSE
