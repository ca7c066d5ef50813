SPECIFICATION MCSpec
CONSTANTS
    p1 = p1
    p2 = p2
    j1 = j1
    j2 = j2
    j3 = j3
    NoJob = NoJob
    NoProcess = NoProcess
    Nothing = Nothing
    Processes = {p1, p2}
    Jobs = {j1, j2, j3}
    Deliveries = {d1}
    Seeds <- MCSeeds
    Interval <- MCInterval
    LeaseTicks = 1
    MaxAttempts = 2
    MaxFaults = 1
INVARIANTS
    ChainAlive
    SingleChain
    DeliveriesSettled
PROPERTIES
    DeliveriesEnd
CHECK_DEADLOCK FALSE
