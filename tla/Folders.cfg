CONSTANTS
    Procs = {p1, p2}
    NoProc = NoProc
    Parts = {a, b}
    Names <- MCNames
    NoName = NoName
    MaxIds = 3
    MaxObjs = 2
    NumMsgs = 1
    MaxKeys = 3
    MaxFaults = 1
    Kinds = {"create", "delete", "rename", "list", "copy", "move", "moveTo"}
SPECIFICATION Spec
SYMMETRY Symmetry
CHECK_DEADLOCK FALSE
INVARIANTS
    TypeOK
    SharedObject
    MailStays
    CopiesExplained
    OnlyMovesDeadlock
