SPECIFICATION Spec
CONSTANTS
    Events = {1}
    RelayWorkers = {relay}
    Consumers = {embed, reflect}
    Replicas = {r1}
    NoWorker = nobody
    BatchSize = 1
    MaxAttempts = 1
    FetchSize = 1
    MaxDeliveries = 1
    MaxCopies = 2
    MaxFaults = 1

    
PROPERTIES
    ImplementsDelivery
CHECK_DEADLOCK FALSE
