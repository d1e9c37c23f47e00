CONSTANTS
    Callers = {c1, c2}
    Groups = {g1}
    KeyTtl = 3
    Buffer = 1
    ServerTtl = 3
    Headroom = 1
    MaxTime = 4

SPECIFICATION FairSpec

INVARIANTS
    TypeOK
    KeysOutliveRequests

PROPERTIES
    HeadersAccepted
    EveryCallEnds

CHECK_DEADLOCK FALSE
