SPECIFICATION FairSpec
CONSTANTS
    Events = {e1}
    Consumers = {embed}
    Replicas = {r1, r2}
    NoWorker = nobody
    FetchSize = 2
    MaxDeliveries = 2
    MaxCopies = 2
    MaxFaults = 2
INVARIANTS
    TypeOK
    AckedIsDone
    
    ExclusiveUnlessLapsed
PROPERTIES
    CompletionIsFinal
    
CHECK_DEADLOCK FALSE
