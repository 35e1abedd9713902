CONSTANTS
    Procs = {p1, p2}
    NoProc = NoProc
    MaxMsgs = 2
    MaxUid = 9
    MaxRestarts = 1
    Flags = {"Deleted"}
    Lettered = {"Deleted"}
    Junk = Junk
    Kinds = {"append", "poll"}
SPECIFICATION Spec
SYMMETRY Sessions
CHECK_DEADLOCK FALSE
INVARIANTS
    UidStable
