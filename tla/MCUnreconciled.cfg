SPECIFICATION Spec
CONSTANTS
    c1 = c1
    c2 = c2
    tun = tun
    plain = plain
    Cores <- MCCores
    NoCore = NoCore
    Configs <- TunConfig
    TunConfigs <- TunConfig
    NoConfig = NoConfig
    MaxRestarts = 1
    DnsCanFail = FALSE
SYMMETRY CoreSymmetry
PROPERTIES
    NoCoreBesideUnreconciled
