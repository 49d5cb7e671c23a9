SPECIFICATION FairSpec
CONSTANTS
    Addrs = {a1, a2}
    NoAddr = none
    MaxOps = 2
    MaxFaults = 3

    
    
PROPERTIES
    Converges
CHECK_DEADLOCK FALSE
