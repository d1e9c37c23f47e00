CONSTANTS
    Clients = {alice, bob}
    MaxVersions = 3
    MaxDeks = 3
    MaxGrants = 1
    MaxSent = 2

SPECIFICATION Spec

INVARIANTS
    TypeOK
    KeysCanBeOpened
    UnstrayedAgree

SYMMETRY Symmetry
CHECK_DEADLOCK FALSE
