SPECIFICATION FairSpec
CONSTANTS
    Requests = {r1, r2, r3}
    Keys = {a, b}
    NoKey = NoKey
    MaxLimit = 2
    KeyLimits = {1}
    MaxWaiters = 2
    MaxKeyWaiters = 2
    MaxConfigures = 1
PROPERTY EveryWaiterAdmitted
