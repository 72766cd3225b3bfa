SPECIFICATION Spec
CONSTANTS
    wifi = wifi
    lan = lan
    mixed = mixed
    u1 = u1
    u2 = u2
    Services <- MCServices
    Endpoints <- MCEndpoints
    Urls <- MCUrls
    Foreign = Foreign
    None = None
    MaxIntrusions = 0
    MaxFaults = 1
INVARIANTS
    LostMeansReplaced
