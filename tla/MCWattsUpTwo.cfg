SPECIFICATION Spec
CONSTANTS
    Proc = {"worker", "check"}
    Options <- FeedAndCheck
    MaxRetry = 1
    MaxRuns = 1
    MaxLine = 1
    MaxInbox = 1
PROPERTY
    FeedRecovers
CHECK_DEADLOCK FALSE
