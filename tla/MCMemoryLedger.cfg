SPECIFICATION Spec
CONSTANTS
    ItemIds = {i1, i2, i3, i4}
    Sessions = {s1, s2}
    Keys = {k1}
    Values = {a, b}
    None = None
SYMMETRY Symmetry
INVARIANTS
    TypeOK
    OneItemPerKey
    ForkOnlyByResolution
    AppliedCarriesWinner

    
CHECK_DEADLOCK FALSE
