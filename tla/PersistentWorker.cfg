SPECIFICATION FairSpec
CONSTANTS
    Capacity = 2
    Blocks = {b1}
    MaxTasks = 5
INVARIANTS
    TypeOK
    PendingSlotsIntact
    ProcessedTasksDone
    LeadRunsOnce
PROPERTIES
    ImplementsQueue
    SyncReturns
    AcceptedTasksRun
    ShutdownCompletes
