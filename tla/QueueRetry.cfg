CONSTANTS
    NumItems = 2
    RetryIntervals <- Backoff
    MaxRetries = 3
    MaxHosts = 2
    Answers = {"accepts", "rejects", "defers"}
    Faults = {"enqueue", "body", "bounce", "save", "remove"}
    MaxFaults = 1
    MaxCrashes = 1
SPECIFICATION Spec
CHECK_DEADLOCK FALSE
INVARIANTS
    TypeOK
    SettledOnce
    TriesBounded
    RetriesSpaced
