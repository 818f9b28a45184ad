SPECIFICATION Spec
CONSTANTS
    Proc = {"worker"}
    Options <- DataOptions
    MaxRetry = 3
    MaxRuns = 2
    MaxLine = 2
    MaxInbox = 2
INVARIANTS
    TypeOK
    RetryDiscipline
    CountExact
    StopsLogging
    LogsWhileReading
CHECK_DEADLOCK FALSE
