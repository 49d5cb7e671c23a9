SPECIFICATION SpecH
CONSTANTS
    Requests = {r1, r2, r3}
    Keys = {a, b}
    NoKey = NoKey
    MaxLimit = 2
    KeyLimits = {0, 1}
    MaxWaiters = 3
    MaxKeyWaiters = 2
    MaxConfigures = 2
SYMMETRY Symmetry
INVARIANTS
    Bookkeeping
    QueueBounded
    NoLostWakeup
PROPERTIES
    AdmitsWithinLimits
    FairTurns

