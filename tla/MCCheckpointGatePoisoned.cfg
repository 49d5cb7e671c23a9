SPECIFICATION GateSpec
CONSTANTS
    Requests = {r1}
    MaxPid = 1
    None = None
CHECK_DEADLOCK FALSE
INVARIANT PoisonedNeverRoutes
