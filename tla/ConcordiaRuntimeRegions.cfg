SPECIFICATION Spec
CONSTANTS
    PageSize = 2
    Bytes = {v0, v1}
    Lens <- MCLens
    MaxRegions = 2
    MaxEpoch = 2
    MaxCells = 2
    MaxRestarts = 0
    MaxIoErrors = 0
SYMMETRY MCSymmetry
INVARIANTS
    FaultFreeReplayIsExact
    ReplayIsLastWriter
