CONSTANTS
    Lifetime = 4
    RenewBefore = 3
    MaxTicks = 6
    MaxCommands = 2
    MaxStops = 1
    MaxFaults = 2
SPECIFICATION FairSpec
CHECK_DEADLOCK FALSE
INVARIANTS
    TypeOK
    IssuedForReason
    ServedCertIsGood
    SignsWithPublished
PROPERTIES
    ComesUp
