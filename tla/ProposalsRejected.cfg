SPECIFICATION Spec
CONSTANTS
    ProposalIds = {p1}
    GraphIds = {}
    Reviewers = {r1, r2}
    ClientKeys = {c1}
    None = None
    Elsewhere = Elsewhere
INVARIANTS
    RejectedHasNoMemory
CHECK_DEADLOCK FALSE
