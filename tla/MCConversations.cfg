CONSTANTS
    Turns = {t1}
    Curators = {c1, c2}
    Operators = {o1}
    CallerKeys = {}
    PurgeLimit = 1
    None = None
    Elsewhere = Elsewhere
SPECIFICATION FairSpec
INVARIANTS
    TypeOK
    RetentionPolicyKept
PROPERTIES
    PurgedTextWasProposed
    RejectionSurvivesRetry
    StagedTextIsPurged
CHECK_DEADLOCK FALSE
