SPECIFICATION Spec
CONSTANTS
    Events = {e1}
    Consumers = {embed}
    Replicas = {r1, r2}
    NoWorker = nobody
    FetchSize = 1
    MaxDeliveries = 2
    MaxCopies = 1
    MaxFaults = 2
INVARIANTS
    NoConcurrentHandlers
CHECK_DEADLOCK FALSE
