CONSTANTS
    Ids = {m1, m2}
    Groups = {g1}
    Addresses = {alice}
    Nonces = {n1, n2}
    MaxOrder = 2
    MaxUpdates = 2
    MaxInFlight = 1
    MaxRestarts = 1
    BatchSize = 2
    Threshold = 2

SPECIFICATION FairSyncSpec

INVARIANTS
    SyncTypeOK
    TerminalHasLatestPatch
    ArchiveFaithful
    ThresholdCounts

PROPERTY
    UploadsInOrder EventuallyTerminal

CHECK_DEADLOCK FALSE
