SPECIFICATION FairSpec
CONSTANTS
    o1 = o1
    o2 = o2
    o3 = o3
    data = data
    outside = outside
    Ops <- MCOps
    NoOp = NoOp
    Places <- MCPlaces
    Managed <- MCManaged
    Requests <- MCRequests
INVARIANTS
    TypeOK
    RestoresAlone
    WakeupOwed
PROPERTIES
    ScopeStable
    ImplementsLock
    RestoreAdmitted
