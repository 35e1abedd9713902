CONSTANTS
    Keys = {k1, k2}
    NumAttempts = 4
    MaxAttempts = 2
    Window = 2
    BanDuration = 3
    MaxOpen = 2
    Addresses = {k1, k2, proxy1, proxy2}
    Proxies = {proxy1, proxy2}
    Garbled = Garbled
    MaxHops = 2
SPECIFICATION FairSpec
CHECK_DEADLOCK FALSE
INVARIANTS
    TypeOK
    GuessesBounded
    ClientIsNotForged
PROPERTIES
    KeepsPolicy
    EntriesGo
