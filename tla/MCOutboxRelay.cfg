SPECIFICATION FairSpec
CONSTANTS
    Events = {1, 2}
    Workers = {w1, w2}
    NoWorker = nobody
    BatchSize = 2
    MaxAttempts = 2
    MaxCopies = 2
    MaxFaults = 2
INVARIANTS
    TypeOK
    PublishedIsStored
    OwnerHoldsLatestClaim
    AttemptsBounded
PROPERTIES
    SettledIsFinal
    EventuallySettled
CHECK_DEADLOCK FALSE
