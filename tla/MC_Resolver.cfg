CONSTANTS
    p1 = p1
    p2 = p2
    p3 = p3
    v = v
    None = None
    Pkg <- MC_Pkg
    Virtual <- MC_Virtual
    MaxDeps = 2
    MaxProv = 1
    MaxReq = 2
SPECIFICATION Spec

INVARIANTS TypeOK NoDuplicates ClosedOnReturn
PROPERTIES Termination ImplementsAbstract
CHECK_DEADLOCK FALSE
