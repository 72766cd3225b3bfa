SPECIFICATION Spec
CONSTANTS
    t1 = t1
    t2 = t2
    t3 = t3
    Threads <- MCThreads
    Verdicts <- MCVerdicts
    Actions <- MCActions
    NoAction = NoAction
    MaxObservations = 5
SYMMETRY ThreadSymmetry
INVARIANTS
    TypeOK
    NoLostWakeup
    ViewCatchesUp
PROPERTIES
    OvertakenReadingDiscarded
