SPECIFICATION FairGate
CONSTANTS
    Requests = {r1}
    MaxPid = 2
    None = None
CHECK_DEADLOCK FALSE
INVARIANTS
    StopClosesRouting
    NoOrphanProcess
    RestoreContained
PROPERTIES
    StaleEventsIgnored
    GateReopens
