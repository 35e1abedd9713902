CONSTANTS
    Procs = {p1, p2}
    NoProc = NoProc
    MaxMsgs = 1
    MaxUid = 9
    MaxRestarts = 1
    Flags = {"Deleted"}
    Lettered = {"Deleted"}
    Junk = Junk
    Kinds = {"append", "deliver", "poll", "purge"}
SPECIFICATION FairSpec
 
CHECK_DEADLOCK FALSE
PROPERTIES
    MailAppears
