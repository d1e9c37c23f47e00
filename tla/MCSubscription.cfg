CONSTANTS
    Ids = {m1, m2, m3}
    Groups = {g1}
    Addresses = {alice}
    Nonces = {n1, n2, n3}
    MaxOrder = 3
    MaxUpdates = 1
    MaxInFlight = 2
    MaxRestarts = 1
    Group = g1
    PageLimit = 2

SPECIFICATION FairSubscriptionSpec

INVARIANTS
    SubscriptionTypeOK
    PageIsAhead
    SkipsOnlyLate

PROPERTY
    EventuallyDelivered

CHECK_DEADLOCK FALSE
