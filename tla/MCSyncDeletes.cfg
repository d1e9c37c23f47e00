CONSTANTS
    Ids = {m1}
    Groups = {g1}
    Addresses = {alice}
    Nonces = {n1, n2}
    MaxOrder = 2
    MaxUpdates = 3
    MaxInFlight = 1
    MaxRestarts = 0
    BatchSize = 2
    Threshold = 2

SPECIFICATION SyncSpec

PROPERTY
    WorkerKeepsDeletions

CHECK_DEADLOCK FALSE
