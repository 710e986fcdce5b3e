SPECIFICATION FairSpec
CONSTANTS
    Turns = {t1}
    Curators = {c1}
    Operators = {o1}
    CallerKeys = {}
    PurgeLimit = 1
    None = None
    Elsewhere = Elsewhere
INVARIANTS
    CurationPurges
CHECK_DEADLOCK FALSE
