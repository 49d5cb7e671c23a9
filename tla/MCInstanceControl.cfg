SPECIFICATION FairSpec
CONSTANTS
    MaxPid = 2
    MaxOps = 2
    MaxFaults = 1
INVARIANTS
    NoStray
    IntentKept
CHECK_DEADLOCK FALSE
PROPERTIES
    Settles
