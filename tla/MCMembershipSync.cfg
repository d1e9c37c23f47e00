CONSTANTS
    Members = {alice, bob}
    Permissions = {reader}
    OtherPermissions = {admin}
    MaxEvents = 4
    MaxCheckpoints = 2
    MaxRestarts = 1

SPECIFICATION Spec

INVARIANTS
    TypeOK
    CacheFollowsChain

SYMMETRY Symmetry
CHECK_DEADLOCK FALSE
