CONSTANTS
    Procs = {p1, p2}
    Tokens = {t1, t2}
    Emails = {a, b}
    Root = a
    NoEmail = NoEmail
    MaxUsers = 3
    MaxRestarts = 0
    Kinds = {"create", "delete"}
SYMMETRY Interchangeable
SPECIFICATION Spec
CHECK_DEADLOCK FALSE
INVARIANT
    AdminRemains
