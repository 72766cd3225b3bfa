SPECIFICATION FairSpec
CONSTANTS
    v1 = v1
    v2 = v2
    Versions <- MCVersions
    N = 3
    Absent = Absent
    Torn = Torn
    NoJournal = NoJournal
INVARIANTS
    TypeOK
    NothingLost
    NoOrphans
PROPERTIES
    ImplementsRestore
    JournalSettles
