SPECIFICATION FairSpec
CONSTANTS
    Requests = {r1, r2}
    MaxActive = 2
    MaxBodies = 2
    MaxTarget = 1
    Budget = 5
    MaxChunks = 2
INVARIANTS
    CountedOnce
    SuccessIsComplete
    
    RevokedNotForwarded
PROPERTIES
    PermitsReturn
CHECK_DEADLOCK FALSE
