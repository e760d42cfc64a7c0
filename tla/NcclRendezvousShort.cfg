SPECIFICATION FairSpec
CONSTANTS
    MaxRanks = 4
    NRanks = 2
    Enabled = TRUE
    Failed = 1
    Replacement = 3
    MaxCalls = 1
    MaxSkips = 1
    Faults = {}
INVARIANTS
    FaultFreeCallsSucceed
