SPECIFICATION FairTargets
CONSTANTS
    Instances = {a}
    Gufo = {a}
    Requests = {r1, r2, r3}
    Priority <- MCPriority
    MaxConcurrent = 2
    Threshold = 2
    SlotCounts = {1}
    NoTarget = NoTarget
INVARIANTS
    PermitsSound
PROPERTIES
    BreakerFollowsEngine
