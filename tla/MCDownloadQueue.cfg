SPECIFICATION Spec
CONSTANTS
    Tasks = {a, b}
    Limits = {1, 2}
    MaxRetries = 1
    MaxOps = 3
    MaxFaults = 1
INVARIANTS
    
    SettledStaysOut
    CancelledGone
    NoOrphan
    NoIdleQueue
SYMMETRY Symmetry
CHECK_DEADLOCK FALSE
