SPECIFICATION FairSpec
CONSTANTS
    Capacity = 2
    Blocks = {b1, b2}
    MaxTasks = 2
INVARIANTS
    ProcessedTasksDone
