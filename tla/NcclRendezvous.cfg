SPECIFICATION FairSpec
CONSTANTS
    MaxRanks = 4
    NRanks = 2
    Enabled = TRUE
    Failed = 0
    Replacement = 3
    MaxCalls = 2
    MaxSkips = 1
    Faults = {"io", "crash", "timeout", "retry"}
INVARIANTS
    TypeOK
    SuccessSumsAllRanks
    SumsStayInStep
    AbortedCallsFail
PROPERTIES
    CallsReturn
