CONSTANTS
    b1 = b1
    b2 = b2
    Buffers = {b1, b2}
    KernelsOf <- MCKernelsOf
    Limits = {1, 2}
    Every = 1
    MaxAllocs = 2
    MaxWrites = 1
    MaxFaults = 2
    MaxCrashes = 2
SPECIFICATION Spec
INVARIANTS TypeOK RegionIdsDistinct LogBacksShadow
PROPERTY RestoresOwnPages
CHECK_DEADLOCK FALSE
