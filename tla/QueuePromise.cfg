CONSTANTS
    NumItems = 2
    RetryIntervals <- Backoff
    MaxRetries = 1
    MaxHosts = 2
    Answers = {"accepts", "rejects", "defers", "loses"}
    Faults = {"enqueue", "save", "remove"}
    MaxFaults = 1
    MaxCrashes = 1
SPECIFICATION FairSpec
CHECK_DEADLOCK FALSE
INVARIANTS
    NothingLost
PROPERTIES
    KeepsPromise
    KeepsPromiseInTime
