CONSTANTS
    p1 = p1
    p2 = p2
    p3 = p3
    x1 = x1
    NoPkg = NoPkg
    Pkg <- MC_Pkg
    Path <- MC_Path
    MaxRetries = 3
    MaxRes = 3
SPECIFICATION Spec
SYMMETRY MC_Symmetry
INVARIANTS NetworkFailureNeverAborts
CHECK_DEADLOCK FALSE
