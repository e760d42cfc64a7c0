SPECIFICATION RecoverySpec
CONSTANTS
    MaxRanks = 4
    NRanks = 3
    Ranks = {0, 1, 2, 5, 6}
INVARIANTS
    IsolatedStayOut
