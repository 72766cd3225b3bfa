SPECIFICATION FairSpec
CONSTANTS
    home = home
    tray = tray
    Callers <- OneCaller
    Supervisor = Supervisor
    Network = Network
    Closer = Closer
    Nobody = Nobody
    MaxAttempts = 1
    MaxBusy = 1
INVARIANTS
    TypeOK
    ShutdownFinal
PROPERTIES
    IntentRespected
    PacFollowsCore
    ExitIsSettled
