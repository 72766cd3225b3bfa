SPECIFICATION Spec
CONSTANTS
    c1 = c1
    c2 = c2
    tun = tun
    plain = plain
    Cores <- MCCores
    NoCore = NoCore
    Configs <- TwoConfigs
    TunConfigs <- TunConfig
    NoConfig = NoConfig
    MaxRestarts = 2
    DnsCanFail = TRUE
SYMMETRY CoreSymmetry
INVARIANTS
    TypeOK
    OneCore
    EveryCoreTracked
    CoreRecorded
    StopConfirmed
PROPERTIES
    ImplementsReservation
