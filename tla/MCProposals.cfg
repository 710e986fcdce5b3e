SPECIFICATION Spec
CONSTANTS
    ProposalIds = {p1, p2}
    GraphIds = {}
    Reviewers = {r1, r2, r3}
    ClientKeys = {c1}
    None = None
    Elsewhere = Elsewhere
SYMMETRY Symmetry
INVARIANTS
    TypeOK
    AcceptanceMakesOneMemory
PROPERTIES
    SettledStays
CHECK_DEADLOCK FALSE
