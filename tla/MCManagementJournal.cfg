SPECIFICATION FairSpec
CONSTANTS
    NTasks = 3
    Keys = {"k"}
    NoKey = "none"
    Resources = {"r"}
    NoLock = 0
    Requests <- MCRequests
    MaxActive = 2
    MaxRecords = 2
    MaxFaults = 1
INVARIANTS
    JournalTruthful
    
PROPERTIES
    Refines
    Drains
CHECK_DEADLOCK FALSE
