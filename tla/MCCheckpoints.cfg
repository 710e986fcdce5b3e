SPECIFICATION Spec
CONSTANTS
    Requests = {r1, r2, r3}
    MaxRev = 5
    MaxAhead = 1
SYMMETRY Symmetry
INVARIANTS
    TypeOK
    

    
CHECK_DEADLOCK FALSE
