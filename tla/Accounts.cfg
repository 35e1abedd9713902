CONSTANTS
    Procs = {p1, p2}
    Tokens = {t1}
    Emails = {a, b}
    Root = a
    NoEmail = NoEmail
    MaxUsers = 3
    MaxRestarts = 1
    Kinds = {"create", "delete", "cli create", "cli delete", "settings", "failure"}
SYMMETRY Interchangeable
SPECIFICATION Spec
CHECK_DEADLOCK FALSE
INVARIANTS
    TypeOK
    SettingsAreOwn
PROPERTIES
    LastAdminStays
    OthersKeepTheirMail
