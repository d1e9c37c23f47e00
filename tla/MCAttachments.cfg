SPECIFICATION AttachmentsSpec
CONSTANTS
    Devices = {d1, d2}
    MaxRotations = 1
    MaxFiles = 2
    MaxWrites = 3
SYMMETRY DevicesSymmetry
CHECK_DEADLOCK FALSE
INVARIANTS
    AttachmentsTypeOK
    NothingDangling
    ShownFilesOpen
