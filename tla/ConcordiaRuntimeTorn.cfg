SPECIFICATION Spec
CONSTANTS
    PageSize = 2
    Bytes = {v0, v1}
    Lens <- MCLens
    MaxRegions = 1
    MaxEpoch = 2
    MaxCells = 3
    MaxRestarts = 1
    MaxIoErrors = 0
SYMMETRY MCSymmetry
INVARIANTS
    CommittedRecordsReplay
