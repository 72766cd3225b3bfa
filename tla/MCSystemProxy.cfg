SPECIFICATION Spec
CONSTANTS
    wifi = wifi
    lan = lan
    mixed = mixed
    u1 = u1
    u2 = u2
    Services <- MCServices
    Endpoints <- MCEndpoints
    Urls <- MCUrls
    Foreign = Foreign
    None = None
    MaxIntrusions = 1
    MaxFaults = 2
SYMMETRY ProxySymmetry
INVARIANTS
    TypeOK
    ProxyTracked
    PacServed
PROPERTIES
    ForeignKept
    RollbackExact
