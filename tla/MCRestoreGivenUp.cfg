SPECIFICATION Spec
CONSTANTS
    v1 = v1
    v2 = v2
    Versions <- MCVersions
    N = 2
    Absent = Absent
    Torn = Torn
    NoJournal = NoJournal
PROPERTIES
    FailedRollbackRefusesWrites
