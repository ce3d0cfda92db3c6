CONSTANTS
    p1 = p1
    p2 = p2
    a = a
    NoPkg = NoPkg
    Pkg <- MC_Pkg
    LibName <- MC_LibName
    Path <- MC_Path
    MaxRetries = 3
    MaxRes = 2
SPECIFICATION RootfsSpec
INVARIANT RequestedWinsOnLib
CHECK_DEADLOCK FALSE
