SPECIFICATION FairSpec
CONSTANTS
    guiA = guiA
    guiB = guiB
    alice = alice
    bob = bob
    Guis <- MCGuis
    Owners <- MCOwners
    OwnerOf <- MCOwnerOf
    NoOne = NoOne
    Lifetime = 1
    MaxStarts = 2
    MaxEnds = 1
INVARIANTS
    TypeOK
    
    GenerationsUnique
PROPERTIES
    
    IdleExitFinal
    
CHECK_DEADLOCK FALSE
