CONSTANTS
    t1 = t1
    t2 = t2
    Threads = {t1, t2}
    NoThread = NoThread
    Calls <- MCCalls
    Mirrors = 2
    MaxSubmits = 2
    MaxFailures = 1
    MaxRestarts = 1
SPECIFICATION Spec
INVARIANTS TypeOK AnswersAreOwn AtMostOneLateRun
 
