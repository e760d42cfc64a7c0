CONSTANTS
    Threads = {t1, t2}
    MaxLaunches = 3
    MaxRequests = 2
    MaxRecordings = 2
SPECIFICATION Spec
INVARIANTS TypeOK RequestsAreKept CheckpointsListRunning TraceInOrder RecordedByItself
PROPERTY SignalsAreAnswered
