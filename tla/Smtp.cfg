CONSTANTS
    Clients = {c1}
    Kinds = {"inbound", "submission", "webmail"}
    Locals = {a, b}
    Remotes = {x}
    NoAddr = NoAddr
    MaxRcpts = 2
    MaxTries = 2
    MaxUsers = 3
    MaxRules = 2
    MaxFaults = 1
    Domains <- MCDomains
    Suffixes <- MCSuffixes
SPECIFICATION Spec
SYMMETRY Mailboxes
CHECK_DEADLOCK FALSE
INVARIANTS
    TypeOK
    DeliveredOnce
    SingleHop
    OwnRule
    RelayIsOwn
    QuarantineIsAskedFor
