CONSTANTS
    Procs = {p1, p2}
    NoProc = NoProc
    MaxMsgs = 2
    MaxUid = 3
    MaxRestarts = 1
    Flags = {"Deleted", "Fwd"}
    Lettered = {"Deleted"}
    Junk = Junk
    Kinds = {"deliver", "poll", "store", "expunge"}
SPECIFICATION Spec
SYMMETRY Sessions
CHECK_DEADLOCK FALSE
INVARIANTS
    ListAgreesWithIndex
    IndexHoldsFlags
    ExpungedStaysGone
PROPERTIES
    KeepsView
